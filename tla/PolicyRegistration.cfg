SPECIFICATION FairSpec
CONSTANTS
    p1 = p1
    p2 = p2
    old = old
    new = new
    NoPolicy = NoPolicy
    NoRules = NoRules
    DefaultPolicy = DefaultPolicy
    Unusable = Unusable
    Policy <- TwoPolicies
    Rules <- TwoRules
    Misworded <- OneMisworded
    NumFiles = 2
    MaxBoots = 2
INVARIANTS
    SummaryIsTrue
PROPERTIES
    Listens
CHECK_DEADLOCK FALSE
