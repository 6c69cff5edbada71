\* One page, two failures or crashes, under the fairness of the scheduler.
CONSTANTS
    Identifiers = {"landing"}
    MaxCode = 1
    Files = {"index", "logo"}
    Index = "index"
    Workers = {w1, w2}
    Boot = boot
    Free = free
    MaxFaults = 2
SPECIFICATION FairSpec
PROPERTIES EveryRequestEnds CrashHeals
