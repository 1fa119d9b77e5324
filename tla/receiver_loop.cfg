SPECIFICATION FairSpec
CONSTANTS
    Pmus <- MCPmus
    Numbers = 2
    MaxFlight = 1
    MaxPending = 1
INVARIANTS
    TypeOK
    CommandsWhole
    PrintsOwnFrame
    UndisturbedAlone
    StopHolds
PROPERTY StopEndsLoop
CHECK_DEADLOCK FALSE
