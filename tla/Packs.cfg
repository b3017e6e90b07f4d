SPECIFICATION PacksSpec
CONSTANTS
    Absent = Absent
    NoSource = NoSource
    Dirs <- TwoDirs
    Versions <- TwoVersions
    Shared <- TwoShared
    Linkable <- OneLink
    StarterIncludes <- TwoShared
    Contents <- SmallContents
    FirstDisk <- OneScenario
    MaxEdits = 2
INVARIANTS
    LintAgreesWithLoad
PROPERTIES
    NewOnlyAdds
CHECK_DEADLOCK FALSE
