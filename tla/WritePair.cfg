SPECIFICATION Spec
CONSTANTS
    BlockSize = 2
    ByteMod = 256
    MaxRequests = 2
    SockBuf = 3
    MaxLoss = 1
    Byte = {"a", "b", "c", "d", "e", "f", "l", "n", "o"}
    Names <- TwoNames
    Database <- OldFile
    MaxRetry = 2
    GarbagePorts = {0}
    Prompt = FALSE
    Local <- TwoLocal
    ServerName <- TwoServer
    ServerDiskFails = FALSE
INVARIANTS OneSource RegisteredOnDisk
CHECK_DEADLOCK FALSE
