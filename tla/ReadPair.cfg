SPECIFICATION Spec
CONSTANTS
    BlockSize = 2
    ByteMod = 256
    MaxRequests = 2
    SockBuf = 2
    MaxLoss = 0
    Byte = {"a", "b", "c", "d", "e", "f"}
    Names <- TwoNames
    Database <- TwoFiles
    MaxRetry = 2
    GarbagePorts = {0, 69}
    Prompt = FALSE
    ClientDiskFails = FALSE
INVARIANTS PinnedCopy NeverForgotten
CHECK_DEADLOCK FALSE
