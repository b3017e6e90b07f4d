SPECIFICATION Spec
SYMMETRY SpecialistSymmetry
CONSTANTS
    s1 = s1
    s2 = s2
    s3 = s3
    NoSignal = NoSignal
    Specialist <- Specialists
    Policies <- ShippedShapes
INVARIANTS
    UnanimityNeedsAll
PROPERTIES
    FavourIsMonotone
    LowConfidenceIsMute
