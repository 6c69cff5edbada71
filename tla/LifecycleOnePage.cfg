\* One page, up to three failures or crashes in any order.
CONSTANTS
    Identifiers = {"landing"}
    MaxCode = 1
    Files = {"index", "logo"}
    Index = "index"
    Workers = {w1, w2}
    Boot = boot
    Free = free
    MaxFaults = 3
SPECIFICATION Spec
SYMMETRY Symmetric
INVARIANTS TypeOK IInv SettledPlacement NoFileLost FinalizeMatches
PROPERTIES AnswersAreTrue ListenSettled ImplementsCatalog
