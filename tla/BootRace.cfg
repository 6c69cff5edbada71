\* Two admin processes on a fresh file.
CONSTANTS
    p1 = p1
    p2 = p2
    Procs = {p1, p2}
    Fleets <- Admins
    Migrations = 2
    Tries = 3
    MaxFaults = 0
    MaxBoots = 2
    Nobody = nobody
SPECIFICATION Spec
INVARIANTS BothBootsSucceed
CHECK_DEADLOCK FALSE
