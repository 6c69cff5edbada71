\* Two processes, two migrations, two failures, and a second boot of each.
CONSTANTS
    p1 = p1
    p2 = p2
    Procs = {p1, p2}
    Fleets <- MCFleets
    Migrations = 2
    Tries = 3
    MaxFaults = 2
    MaxBoots = 2
    Nobody = nobody
SPECIFICATION FairSpec
INVARIANTS TypeOK ListeningIsReady
PROPERTIES SchemaMovesWhole EveryBootEnds
CHECK_DEADLOCK FALSE
