SPECIFICATION Spec
CONSTANTS
    a1 = a1
    a2 = a2
    a3 = a3
    k1 = k1
    k2 = k2
    NoChild = NoChild
    Attach <- RetryAttach
    Key <- RetryKey
    KeyOf <- RetryKeyOf
    SpawnOutcomes <- RunningOnly
    MaxMs = 0
    MaxStops = 1
INVARIANTS
    Deduplicated
CHECK_DEADLOCK FALSE
