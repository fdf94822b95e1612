\* Names that do not collide: the object is the translation of the source.
SPECIFICATION Spec
CONSTANTS
    aa = aa
    bb = bb
    empty = empty
    abc = abc
    Name <- MCName
    NameSz <- MCNameSz
    Hash <- MCApart
    SYMBOLMAP_ENTRIES = 2
    Strings <- MCStrings
    StrLen <- MCStrLen
    Uninit = Uninit
    NoSymbol = NoSymbol
    Garbage = Garbage
    OutOfMemory = FALSE
    MaxUnits = 4
    MaxLines = 3
INVARIANTS
    TypeOK
    ItemsTile
    LayoutDisjoint
PROPERTIES
    ImplementsObjectFile
