SPECIFICATION MigrationSpec
CONSTANTS
    Vocabulary <- MigratedVocabulary
    Constructs <- MigratedConstructs
    Strays <- MigratedStrays
    None = "none"
    Chars <- LiteralChars
    MaxConstructs = 4
    MaxChars = 5
CHECK_DEADLOCK FALSE
INVARIANTS KeepsItsMeaning OwnOutputStays TestsKeepTheirDocuments
