SPECIFICATION FairSpec
CONSTANTS
    c1 = c1
    c2 = c2
    c3 = c3
    scenario = scenario
    NoCall = NoCall
    NoSnapshot = NoSnapshot
    Failed = Failed
    Call <- ThreeCalls
    After <- SecondRead
    File <- OneFile
    Ttl = 1
    MaxLoad = 1
    MayInvalidate = TRUE
    MayFail = TRUE
    MaxEdits = 1
    MaxTime = 4
INVARIANTS
    TypeOK
    EditsShowInTime
    WaitersAreServed
    LaterReadNotOlder
PROPERTIES
    NeverGoesBack
    CallsSettle
CHECK_DEADLOCK FALSE
