\* A run of the benchmark, and the report on its records at any moment.
SPECIFICATION Spec
CONSTANTS
    Setups <- MCSetups
    Alias <- MCAlias
    MinRuns = 1
    TargetFlag = "dbdense"
    ArmOrder <- MCArmOrder
INVARIANTS
    BenchTypeOK
    ManifestMeansWhole
    OneConversation
    GateTwoIsWhole
    GateSixExact
    AcceptedIsMeasured
PROPERTIES
    BenchEnds
