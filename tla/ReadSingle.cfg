SPECIFICATION FairSpec
CONSTANTS
    BlockSize = 2
    ByteMod = 256
    MaxRequests = 1
    SockBuf = 3
    MaxLoss = 1
    Byte = {"a", "b", "c", "d", "e", "f"}
    Names <- MixedNames
    Database <- MixedFiles
    MaxRetry = 2
    GarbagePorts = {0, 9801}
    Prompt = FALSE
    ClientDiskFails = TRUE
INVARIANTS TypeOK LockStep
PROPERTIES CopySpec ClientTerminates ThreadsTerminate
CHECK_DEADLOCK FALSE
