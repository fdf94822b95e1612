\* Every input, and a realloc that moves the block or does not.
SPECIFICATION Spec
CONSTANTS
    CHUNK = 4
    MaxLine = 14
    MayMove = TRUE
    FinalNewline = FALSE
INVARIANTS
    TypeOK
    StaleBeyondRoom
    PastEndAtEof
    LineWhole
