\* Names that share a bucket, so that pointers may dangle; allocations may fail.
SPECIFICATION FairSpec
CONSTANTS
    aa = aa
    bb = bb
    empty = empty
    abc = abc
    Name <- MCName
    NameSz <- MCNameSz
    Hash <- MCTogether
    SYMBOLMAP_ENTRIES = 2
    Strings <- MCStrings
    StrLen <- MCStrLen
    Uninit = Uninit
    NoSymbol = NoSymbol
    Garbage = Garbage
    OutOfMemory = TRUE
    MaxUnits = 3
    MaxLines = 3
INVARIANTS
    NoOverrun
    TablesNamed
    ObjectComplete
    PointersTrack
PROPERTIES
    Termination
