------------------------------ MODULE Symbols ------------------------------
(***************************************************************************)
(* symbols.c: the symbol table, a hash map of SYMBOLMAP_ENTRIES buckets,   *)
(* each an array that create_symbol grows by one with realloc.             *)
(*                                                                         *)
(* create_symbol and get_symbol return a pointer INTO the array of a       *)
(* bucket.  A pointer is modelled by its bucket, its index and the block   *)
(* of memory the array occupied when the pointer was taken: realloc may    *)
(* move the array to a new block and free the old one, after which the     *)
(* pointer dangles.                                                        *)
(*                                                                         *)
(* create_symbol sets neither section nor value: until a label is parsed   *)
(* they hold whatever the allocator left there (Uninit).                   *)
(***************************************************************************)
EXTENDS Elf, Sequences

CONSTANTS
    Name,               \* the symbol names that occur
    NameSz,             \* strlen(name) + 1
    SYMBOLMAP_ENTRIES,  \* the number of buckets
    Hash,               \* hash_str(name)
    Uninit,             \* the indeterminate content of malloc'ed memory
    NoSymbol            \* the NULL symbol pointer

Bucket == 0 .. SYMBOLMAP_ENTRIES - 1

ASSUME SymbolsAssumption ==
    /\ SYMBOLMAP_ENTRIES \in Nat \ {0}
    /\ NameSz \in [Name -> Nat \ {0}]
    /\ Hash \in [Name -> Bucket]
    /\ Uninit \notin Int
    /\ NoSymbol \notin [hash : Bucket, index : Nat \ {0}, block : Nat]
    /\ NoSymbol \notin Name

VARIABLES
    symbols,  \* symbols[hash].data, of length symbols[hash].count
    block     \* the block symbols[hash].data is in; 0 is NULL

symbolVars == <<symbols, block>>

\* struct symbol, before and after a label is parsed for it; a label is in the
\* section selected for output.
Symbol ==
    [name : Name, section : {Uninit}, value : {Uninit}, binding : {0, 16}]
    \cup
    [name : Name, section : ProgSections, value : Nat, binding : {0, 16}]

Pointer == [hash : Bucket, index : Nat \ {0}, block : Nat]

\* The table holds well-formed symbols only: a label sets section and value
\* together, and no caller sees a binding create_symbol has not set.
SymbolsTypeOK ==
    /\ symbols \in [Bucket -> Seq(Symbol)]
    /\ block \in [Bucket -> Nat]

SymbolsInit ==
    /\ symbols = [h \in Bucket |-> <<>>]
    /\ block = [h \in Bucket |-> 0]

-----------------------------------------------------------------------------
(* Looking a name up and creating it.  The operators take the table they   *)
(* look into, for an action also needs the table it is about to install.   *)

Entries(tab, name) ==
    {k \in DOMAIN tab[Hash[name]] : tab[Hash[name]][k].name = name}

\* Mutant: the search starts behind the first entry of the bucket.
KnownBehindFirst(name) == Entries(symbols, name) \ {1} # {}

Known(name) == Entries(symbols, name) # {}

\* The entry get_symbol returns: the first of the bucket with this name.
IndexOf(tab, name) ==
    CHOOSE k \in Entries(tab, name) : \A j \in Entries(tab, name) : k <= j

\* Mutant: create_symbol leaves the binding unset as well.
NewSymbolUnbound(name) ==
    [name |-> name, section |-> Uninit, value |-> Uninit, binding |-> Uninit]

NewSymbol(name) ==
    [name |-> name, section |-> Uninit, value |-> Uninit, binding |-> 0]

\* Mutant: a new entry goes to the front of its bucket.
InternedInFront(name) ==
    IF Known(name)
    THEN symbols
    ELSE [symbols EXCEPT ![Hash[name]] = <<NewSymbol(name)>> \o @]

\* The table after get_or_create_symbol(name).
Interned(name) ==
    IF Known(name)
    THEN symbols
    ELSE [symbols EXCEPT ![Hash[name]] = Append(@, NewSymbol(name))]

\* The blocks the bucket of `name` may be in after get_or_create_symbol(name):
\* a first entry is allocated, a later one may move the array or extend it.
BlocksAfter(name) ==
    LET b == block[Hash[name]]
    IN  IF Known(name) THEN {b}
        ELSE IF symbols[Hash[name]] = <<>> THEN {b + 1}
        ELSE {b, b + 1}

Entry(tab, name) == tab[Hash[name]][IndexOf(tab, name)]

\* get_or_create_symbol(name), the caller then leaving the symbol as `sym`.
Put(name, sym) ==
    /\ symbols' = [Interned(name) EXCEPT ![Hash[name]] =
                     [@ EXCEPT ![IndexOf(Interned(name), name)] = sym]]
    /\ \E b \in BlocksAfter(name) : block' = [block EXCEPT ![Hash[name]] = b]

GetOrCreateSymbol(name) == Put(name, Entry(Interned(name), name))

\* Mutant: a label makes its symbol local again.
DefineLabelAnew(name, section, value) ==
    Put(name, [name    |-> name,
               section |-> section,
               value   |-> value,
               binding |-> 0])

\* parse_label: label->section = ...; label->value = ...
DefineLabel(name, section, value) ==
    Put(name, [name    |-> name,
               section |-> section,
               value   |-> value,
               binding |-> Entry(Interned(name), name).binding])

\* parse_global: sym->binding = 0x10
MakeGlobal(name) ==
    Put(name, [Entry(Interned(name), name) EXCEPT !.binding = 16])

\* Mutant: the pointer is taken before the array grows.
PointerBeforeGrowth(name) ==
    [hash  |-> Hash[name],
     index |-> IndexOf(Interned(name), name),
     block |-> block[Hash[name]]]

\* The pointer get_or_create_symbol returns in a step that calls it.
PointerTo(name) ==
    [hash  |-> Hash[name],
     index |-> IndexOf(Interned(name), name),
     block |-> block'[Hash[name]]]

Live(ptr) == ptr.block = block[ptr.hash]

Deref(ptr) == symbols[ptr.hash][ptr.index]

-----------------------------------------------------------------------------
(* The order in which every loop over the table visits it: bucket by       *)
(* bucket, and by index in each.  A slot is a bucket and an index.         *)

FirstSlot == <<0, 1>>

IsSlot(s) == s[1] \in Bucket /\ s[2] \in DOMAIN symbols[s[1]]

SymbolAt(s) == symbols[s[1]][s[2]]

-----------------------------------------------------------------------------

UniqueIn(tab) ==
    \A h \in Bucket : \A j, k \in DOMAIN tab[h] :
        /\ Hash[tab[h][j].name] = h
        /\ tab[h][j].name = tab[h][k].name => j = k

\* No two entries of the table have the same name, and each is in the bucket
\* its name hashes to: what the search before the append in create_symbol is
\* for, and what lets get_symbol look into one bucket and stop at a match.
NamesUnique == UniqueIn(symbols)

\* An entry never moves to another index and is never renamed, so that the
\* index in a pointer handed out earlier keeps meaning the same symbol.
EntriesStay ==
    \A h \in Bucket : \A k \in DOMAIN symbols[h] :
        /\ k \in DOMAIN symbols'[h]
        /\ symbols'[h][k].name = symbols[h][k].name
        /\ symbols'[h][k].binding >= symbols[h][k].binding
=============================================================================
