SPECIFICATION FairSpec
CONSTANTS
    BUFER_LENGTH = 4
    UINT32 = 1000
    PmuIdCode <- MCPmuIdCode
    ServerIds <- MCServerIds
    MaxVersion = 2
    CfgLen <- MCCfgLen
    DataLen <- MCDataLen
    NumPmu <- MCNumPmu
    MaxData = 3
    MaxCommands = 3
INVARIANTS
    TypeOK
    WholeFramesOnly
    ValuesMatchTimestamp
    DecodeConsistent
    HeapSound
    OkDataIsFresh
    RunningTracksServer
    NoAnswerLost
PROPERTIES
    ImplementsFeed
    ConfigurationReturns
    StopTakesEffect
CHECK_DEADLOCK FALSE
