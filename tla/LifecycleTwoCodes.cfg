\* Two codes of one identifier, one failure or crash, and a reader.
CONSTANTS
    Identifiers = {"landing"}
    MaxCode = 2
    Files = {"index", "logo"}
    Index = "index"
    Workers = {w1, w2}
    Boot = boot
    Free = free
    MaxFaults = 1
SPECIFICATION ReaderSpec
SYMMETRY Symmetric
INVARIANTS DeletedIsGone UploadOwnsSlug DetailIsOnePage
