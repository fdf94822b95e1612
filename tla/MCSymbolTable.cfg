\* Two colliding names and one alone; every call in every order.
SPECIFICATION SymbolsSpec
CONSTANTS
    aa = aa
    bb = bb
    cc = cc
    Name <- MCName
    NameSz <- MCNameSz
    Hash <- MCHash
    SYMBOLMAP_ENTRIES = 2
    Uninit = Uninit
    NoSymbol = NoSymbol
    MaxValue = 1
INVARIANTS
    SymbolsTypeOK
    NamesUnique
PROPERTIES
    EntriesNeverMove
    ImplementsMap
