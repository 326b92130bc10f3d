\* Two commands of other clients.
SPECIFICATION Spec
CONSTANTS
    DottedNames = {}
    NameOrder <- MCNameOrder
    TypeOrder <- MCTypeOrder
    CollOrder <- MCColls
    Documents <- MCDocuments
    Validators <- MCValidators
    NoValidator <- None
    IndexCols <- MCIndexes
    SampleSize = 3
    MaxWrites = 2
INVARIANTS
    TypeOK
    BasicallyValid
    ReferencesAccounted
    QuietExportValidates
    FieldsFollowDocuments
