\* A file whose last line has no newline.
SPECIFICATION Spec
CONSTANTS
    CHUNK = 4
    MaxLine = 14
    MayMove = FALSE
    FinalNewline = FALSE
INVARIANTS
    NoWritePastEnd
