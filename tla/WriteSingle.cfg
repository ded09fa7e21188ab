SPECIFICATION FairSpec
CONSTANTS
    BlockSize = 2
    ByteMod = 256
    MaxRequests = 1
    SockBuf = 3
    MaxLoss = 1
    Byte = {"a", "b", "c", "d", "e", "f", "l", "n", "o"}
    Names <- MixedNames
    Database <- OldFile
    MaxRetry = 2
    GarbagePorts = {0, 69}
    Prompt = FALSE
    Local <- MixedLocal
    ServerName <- MixedServer
    ServerDiskFails = TRUE
INVARIANTS TypeOK
PROPERTIES ClientTerminates ThreadsTerminate
CHECK_DEADLOCK FALSE
