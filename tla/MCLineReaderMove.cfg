\* A realloc that moves the block.
SPECIFICATION Spec
CONSTANTS
    CHUNK = 4
    MaxLine = 14
    MayMove = TRUE
    FinalNewline = TRUE
INVARIANTS
    NoStaleWrite
