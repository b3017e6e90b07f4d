SPECIFICATION FairSpec
CONSTANTS
    a1 = a1
    a2 = a2
    a3 = a3
    k1 = k1
    k2 = k2
    NoChild = NoChild
    Attach <- FreshAttach
    Key <- FreshKey
    KeyOf <- FreshKeyOf
    SpawnOutcomes <- AnyOutcome
    MaxMs = 1
    MaxStops = 2
INVARIANTS
    TypeOK
    NoOrphan
    BootstrapFileLife
PROPERTIES
    StopCompletes
    StartupSettles
    ImplementsSlots
CHECK_DEADLOCK FALSE
