SPECIFICATION Spec
CONSTANTS
    Names <- OneName
    Initial <- OneFile
    ListFile = "ls.txt"
    MaxRequests = 3
    MaxRestarts = 1
INVARIANTS TypeOK CountExact MapAgrees ReaderSeesOneFile AbortExplained
PROPERTIES WholeKept
CHECK_DEADLOCK FALSE
