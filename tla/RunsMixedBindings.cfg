SPECIFICATION FairSpec
CONSTANTS
    r1 = r1
    r2 = r2
    r3 = r3
    p1 = p1
    p2 = p2
    p3 = p3
    NoChild = NoChild
    NoCall = NoCall
    NoEntry = NoEntry
    NoToken = NoToken
    Run <- ThreeRuns
    Scenario <- MixedScenario
    InitiatorOf <- MixedInitiator
    ModeOf <- MixedModes
    Overrides <- MixedOverrides
    Null = Null
    SpawnOutcomes <- AnyOutcome
    MaxMs = 0
    Grants <- OneGrant
    AskedTtl = 1
    Timeout = 1
    Skew = 1
    Drift = 0
    MaxTime = 0
INVARIANTS
    LaunchedWithOwnToken
    OneAgentPerParticipant
    LaunchesMatchOutcome
PROPERTIES
    ShutdownTellsEveryAgent
    RunsAnswer
CHECK_DEADLOCK FALSE
