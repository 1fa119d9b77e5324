SPECIFICATION Spec
CONSTANTS
    Pmus <- MCPmus
    MaxPmu = 3
INVARIANTS
    TypeOK
    CursorAligned
    ChannelsExact
    DataExact
PROPERTY ImplementsContents
CHECK_DEADLOCK FALSE
