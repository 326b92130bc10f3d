\* Two namespaces that differ in punctuation.
SPECIFICATION Spec
CONSTANTS
    Exports <- ClashExports
    Modes <- SchemaMode
    WordChars <- MCWordChars
    Digits <- MCDigits
    Lower <- MCLower
    Reserved <- MCReserved
    SqlWords <- MCSqlWords
    MaxRuns = 1
INVARIANTS
    EverythingOnDisk
