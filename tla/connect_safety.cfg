SPECIFICATION FairSpec
CONSTANTS
    MaxFds = 5
    Timeouts <- MCTimeouts
    HALF = 16
    MaxCount = 6
    Pow <- MCPow
    Rtt = 10
INVARIANTS
    TypeOK
    DescriptorsAccounted
    ConnectedIsLatest
PROPERTIES
    WaitDoubles
    ConnectsInTime
CHECK_DEADLOCK FALSE
