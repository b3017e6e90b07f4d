SPECIFICATION Spec
CONSTANTS
    DeepMerge <- ResolverMerge
    PlaceholdersIn <- ResolverPlaceholders
    Substitute <- ResolverSubstitute
    MaxFixtures = 2
    NoTemplate = NoTemplate
    Defaults <- SmallDefaults
    TypeOf <- SmallTypes
    LaunchTrees <- SmallLaunch
    Templates <- SmallTemplates
    Inputs <- SmallInputs
    KnownAgents <- SmallAgents
INVARIANTS
    FormMatchesRun
    ValidatedCompiles
