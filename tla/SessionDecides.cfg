SPECIFICATION FairSpec
CONSTANTS
    s1 = s1
    s2 = s2
    Coordinator = Coordinator
    NoSignal = NoSignal
    NoVote = NoVote
    NoDecision = NoDecision
    Specialist <- TwoSpecialists
    Policy <- MajorityPolicy
    Opinions <- ThreeOpinions
    Crashable <- OneSpecialist
    MaySuspend = TRUE
    MayFail = TRUE
    MayExpire = TRUE
INVARIANTS
    EvaluationsBeforeVotes
    EarlyOnlyByDeadline
    DecidedOnEvaluations
    LeavesNothingOpen
PROPERTIES
    CommitsOnce
    SessionSettles
CHECK_DEADLOCK FALSE
