SPECIFICATION Spec
CONSTANTS
    BUFER_LENGTH = 4
    UINT32 = 1000
    PmuIdCode <- MCPmuIdCode
    ServerIds <- MCServerIds
    MaxVersion = 0
    CfgLen <- MCCfgLen
    DataLen <- MCDataLen
    NumPmu <- MCNumPmu
    MaxData = 1
    MaxCommands = 2
INVARIANT NoOverrun
CHECK_DEADLOCK FALSE
