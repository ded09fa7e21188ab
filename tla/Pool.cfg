SPECIFICATION FairSpec
CONSTANTS
    MaxRequests = 3
    FirstPort = 6
    PortCount = 8
    ServerPort = 1
    Foreign <- OtherPorts
INVARIANTS TypeOK Reachable JoinsFinished CutShort
PROPERTIES AbortExplained Reaped ShutsDown
CHECK_DEADLOCK FALSE
