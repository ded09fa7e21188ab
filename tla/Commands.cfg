SPECIFICATION FairSpec
CONSTANTS
    BlockSize = 2
    ByteMod = 8
    MaxRequests = 2
    SockBuf = 2
    MaxLoss = 1
    Byte = {"x"}
    Names <- AllFiles
    Database <- EmptyFiles
    MaxRetry = 2
    GarbagePorts = {0}
    Prompt = FALSE
    NameOrder <- SomeNames
    Deletable = {"a"}
    ReadNames = {"a"}
    Directories <- SomeDirectories
    PairBound = 1
    DiskFails = TRUE
INVARIANTS TypeOK ReportedOnce ListingCopy
PROPERTIES CommandsTerminate ListOutcome
CHECK_DEADLOCK FALSE
