SPECIFICATION FairSpec
CONSTANTS
    BlockSize = 2
    ByteMod = 8
    MaxRequests = 1
    SockBuf = 3
    MaxLoss = 0
    Byte = {"a", "b", "c", "d", "e", "f", "l", "n", "o"}
    Names <- SizedNames
    Database <- OldFile
    MaxRetry = 5
    GarbagePorts = {0}
    Prompt = TRUE
    Local <- SizedLocal
    ServerName <- SizedServer
    ServerDiskFails = FALSE
INVARIANTS OkMeansStored
PROPERTIES WriteOutcome
CHECK_DEADLOCK FALSE
