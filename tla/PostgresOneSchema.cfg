\* One schema exported out of two.
SPECIFICATION Spec
CONSTANTS
    DottedNames = {}
    RelOrder <- MCRelOrder
    Partitioned <- MCPartitioned
    InitialCols <- MCInitialCols
    InitialIndexes <- MCInitialIndexes
    Expression <- MCExpression
    CandidateKeys <- MCKeys
    Configs <- OneSchema
    MaxDDL = 0
INVARIANTS
    QuietExportIsCatalog
