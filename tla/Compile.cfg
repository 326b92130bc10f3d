\* Two runs, in any mode, on any of four documents.
SPECIFICATION Spec
CONSTANTS
    Exports <- MCExports
    Modes <- AllModes
    WordChars <- MCWordChars
    Digits <- MCDigits
    Lower <- MCLower
    Reserved <- MCReserved
    SqlWords <- MCSqlWords
    MaxRuns = 2
INVARIANTS
    TypeOK
    EverythingOnDisk
    NoteIsTrue
    StatementsGrounded
    DDLReadsBack
    LighthouseReadsBack
