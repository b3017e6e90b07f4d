SPECIFICATION FairSpec
CONSTANTS
    s1 = s1
    s2 = s2
    Coordinator = Coordinator
    NoSignal = NoSignal
    NoVote = NoVote
    NoDecision = NoDecision
    Specialist <- TwoSpecialists
    Policy <- DefaultPolicy
    Opinions <- OneOpinion
    Crashable <- OneSpecialist
    MaySuspend = FALSE
    MayFail = FALSE
    MayExpire = FALSE
PROPERTIES
    DeadlineSettles
CHECK_DEADLOCK FALSE
