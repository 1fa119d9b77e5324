SPECIFICATION FairSpec
CONSTANTS
    t1 = t1
    t2 = t2
    Thread <- MCThread
    InitialValues <- MCInitialValues
    MaxPosts = 3
INVARIANTS
    TypeOK
    UndefinedOnlyByRace
    FreedInTime
    JoinCanReturn
PROPERTY DestroyReturns
CHECK_DEADLOCK FALSE
