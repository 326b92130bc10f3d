\* Nobody writes; validators and empty collections.
SPECIFICATION Spec
CONSTANTS
    DottedNames = {}
    NameOrder <- MCNameOrder
    TypeOrder <- MCTypeOrder
    CollOrder <- MCColls
    Documents <- MCDocuments
    Validators <- MCValidators
    NoValidator <- None
    IndexCols <- MCIndexes
    SampleSize = 4
    MaxWrites = 0
INVARIANTS
    EdgeTargetsExist
