\* The comment on ErrBusy against the code.
CONSTANTS
    Identifiers = {"landing"}
    MaxCode = 1
    Files = {"index", "logo"}
    Index = "index"
    Workers = {w1, w2}
    Boot = boot
    Free = free
    MaxFaults = 2
SPECIFICATION Spec
PROPERTIES BusyMeansRunning
