\* Two names in one bucket.
SPECIFICATION Spec
CONSTANTS
    aa = aa
    bb = bb
    empty = empty
    abc = abc
    Name <- MCName
    NameSz <- MCNameSz
    Hash <- MCTogether
    SYMBOLMAP_ENTRIES = 2
    Strings <- MCStrings
    StrLen <- MCStrLen
    Uninit = Uninit
    NoSymbol = NoSymbol
    Garbage = Garbage
    OutOfMemory = FALSE
    MaxUnits = 2
    MaxLines = 2
INVARIANTS
    PointersLive
