\* Two schemas; up to two statements of other sessions.
SPECIFICATION Spec
CONSTANTS
    DottedNames = {}
    RelOrder <- MCRelOrder
    Partitioned <- MCPartitioned
    InitialCols <- MCInitialCols
    InitialIndexes <- MCInitialIndexes
    Expression <- MCExpression
    CandidateKeys <- MCKeys
    Configs <- BothSchemas
    MaxDDL = 2
INVARIANTS
    TypeOK
    ExportValidates
    StableKeysKept
    QuietExportIsCatalog
