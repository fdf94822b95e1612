SPECIFICATION Spec
CONSTANTS
    OutOfMemory = TRUE
    CommandLines <- MCCommandLines
    Vocabulary <- MCVocabulary
    MaxErrors = 3
    FileSystems <- MCFileSystems
    Outcomes <- MCOutcomes
    BUFSIZ = 2
    DiskFills = TRUE
    Stdout = Stdout
INVARIANTS
    TypeOK
    ReadAsGiven
    OperandsKept
    Delivered
    FailureCost
PROPERTIES
    OrderKept
    AnsweredUnlessStuck
CHECK_DEADLOCK FALSE
