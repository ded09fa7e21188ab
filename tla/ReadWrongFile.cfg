SPECIFICATION Spec
CONSTANTS
    BlockSize = 2
    ByteMod = 256
    MaxRequests = 2
    SockBuf = 3
    MaxLoss = 0
    Byte = {"a", "b", "c", "d", "e", "f"}
    Names <- TwoNames
    Database <- TwoFiles
    MaxRetry = 5
    GarbagePorts = {0}
    Prompt = TRUE
    ClientDiskFails = FALSE
INVARIANTS ReadsRequestedFile
CHECK_DEADLOCK FALSE
