\* A reference without a label.
SPECIFICATION Spec
CONSTANTS
    aa = aa
    bb = bb
    empty = empty
    abc = abc
    Name <- MCName
    NameSz <- MCNameSz
    Hash <- MCApart
    SYMBOLMAP_ENTRIES = 2
    Strings <- MCStrings
    StrLen <- MCStrLen
    Uninit = Uninit
    NoSymbol = NoSymbol
    Garbage = Garbage
    OutOfMemory = FALSE
    MaxUnits = 1
    MaxLines = 1
INVARIANTS
    UndefinedReported
