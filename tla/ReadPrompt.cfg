SPECIFICATION FairSpec
CONSTANTS
    BlockSize = 2
    ByteMod = 8
    MaxRequests = 1
    SockBuf = 3
    MaxLoss = 0
    Byte = {"a", "b", "c", "d", "e", "f"}
    Names <- SizedNames
    Database <- SizedFiles
    MaxRetry = 5
    GarbagePorts = {0, 9801}
    Prompt = TRUE
    ClientDiskFails = FALSE
PROPERTIES ReadOutcome
CHECK_DEADLOCK FALSE
