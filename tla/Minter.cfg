SPECIFICATION FairSpec
CONSTANTS
    c1 = c1
    c2 = c2
    c3 = c3
    c4 = c4
    NoCall = NoCall
    NoEntry = NoEntry
    NoToken = NoToken
    Call <- FourCalls
    SenderOf <- OneSender
    ScopesOf <- TwoScopes
    Grants <- MixedGrants
    AskedTtl = 4
    Timeout = 1
    Skew = 2
    Drift = 1
    MaxTime = 3
INVARIANTS
    TypeOK
    HitIsValid
    OneRequestPerKey
    TokenIsForCaller
    WaitersAreServed
PROPERTIES
    CallsSettle
CHECK_DEADLOCK FALSE
