------------------------- MODULE SymbolTableProofs -------------------------
(***************************************************************************)
(* The symbol table for every set of names, number of buckets and hash     *)
(* function: its entries are unique and stay where they are, and it        *)
(* implements a map.                                                       *)
(***************************************************************************)
EXTENDS SymbolTable, SymbolsProofs

\* Every step is a Put, or none at all.
LEMMA StepIsPut ==
    ASSUME SymbolsTypeOK, NamesUnique, SymbolsNext
    PROVE  \E name \in Name, sym \in Symbol :
                /\ sym.name = name
                /\ sym.binding >= Entry(Interned(name), name).binding
                /\ Put(name, sym)
<1>1. PICK name \in Name :
        \/ GetOrCreateSymbol(name)
        \/ MakeGlobal(name)
        \/ \E section \in ProgSections, value \in Nat :
                DefineLabel(name, section, value)
  BY DEF SymbolsNext
<1> QED
  BY <1>1, CallPuts

LEMMA SymbolsStep ==
    SymbolsTypeOK /\ NamesUnique /\ [SymbolsNext]_symbolVars
        => SymbolsTypeOK' /\ NamesUnique'
<1> SUFFICES ASSUME SymbolsTypeOK, NamesUnique, [SymbolsNext]_symbolVars
             PROVE  SymbolsTypeOK' /\ NamesUnique'
  OBVIOUS
<1>1. CASE SymbolsNext
  BY <1>1, StepIsPut, PutTable
<1>2. CASE UNCHANGED symbolVars
  BY <1>2 DEF symbolVars, SymbolsTypeOK, NamesUnique, UniqueIn
<1> QED
  BY <1>1, <1>2

\* symbols.c keeps its types, and no name ever has two entries or one in a
\* bucket it does not hash to.
THEOREM SymbolTableUnique == SymbolsSpec => [](SymbolsTypeOK /\ NamesUnique)
  BY SymbolsInitOK, SymbolsStep, PTL DEF SymbolsSpec

\* Every bucket is an array of records with a name, a section, a value and a
\* binding (symbols.c, symbols.h).
THEOREM SymbolTableTypes == SymbolsSpec => []SymbolsTypeOK
  BY SymbolTableUnique, PTL

\* No call moves, renames or un-exports an entry already in the table.
THEOREM SymbolTableStable == SymbolsSpec => EntriesNeverMove
<1>1. SymbolsTypeOK /\ NamesUnique /\ [SymbolsNext]_symbolVars
        => [EntriesStay]_symbolVars
  <2> SUFFICES ASSUME SymbolsTypeOK, NamesUnique, SymbolsNext
               PROVE  EntriesStay
    BY DEF symbolVars
  <2>1. PICK name \in Name, sym \in Symbol :
            /\ sym.name = name
            /\ sym.binding >= Entry(Interned(name), name).binding
            /\ Put(name, sym)
    BY StepIsPut
  <2>2. \A h \in Bucket : \A k \in DOMAIN symbols[h] :
            /\ k \in DOMAIN symbols'[h]
            /\ symbols'[h][k].name = symbols[h][k].name
            /\ \/ symbols'[h][k] = symbols[h][k]
               \/ symbols[h][k] = Entry(Interned(name), name)
                    /\ symbols'[h][k] = sym
    BY <2>1, PutTable
  <2>3. \A h \in Bucket : \A k \in DOMAIN symbols[h] :
            symbols[h][k].binding \in Int
    <3>1. \A s \in Symbol : s.binding \in Int
      BY DEF Symbol
    <3>2. \A h \in Bucket : \A k \in DOMAIN symbols[h] : symbols[h][k] \in Symbol
      BY DEF SymbolsTypeOK
    <3> QED
      BY <3>1, <3>2
  <2> QED
    BY <2>1, <2>2, <2>3 DEF EntriesStay
<1> QED
  BY <1>1, SymbolTableUnique, PTL DEF SymbolsSpec, EntriesNeverMove

-----------------------------------------------------------------------------
(* The refinement.                                                         *)

RecordOf(sym) ==
    [section |-> sym.section, value |-> sym.value, binding |-> sym.binding]

\* What the map holds for a name, or would hold were the name interned.
LEMMA WithName ==
    ASSUME SymbolsTypeOK, NamesUnique, NEW name \in Name
    PROVE  Map!With(name)[name] = RecordOf(Entry(Interned(name), name))
<1>1. CASE Known(name)
  <2>1. Entry(Interned(name), name) = Entry(symbols, name)
    BY <1>1 DEF Interned
  <2> QED
    BY <1>1, <2>1 DEF Map!With, MapOf, Lookup, RecordOf
<1>2. CASE ~Known(name)
  <2>1. Entry(Interned(name), name) = NewSymbol(name)
    BY <1>2, CallIsPut
  <2> QED
    BY <1>2, <2>1 DEF Map!With, Map!Fresh, MapOf, RecordOf, NewSymbol
<1> QED
  BY <1>1, <1>2

\* A Put changes the map at its name only.
LEMMA PutMap ==
    ASSUME SymbolsTypeOK, NamesUnique, NEW name \in Name,
           NEW sym \in Symbol, sym.name = name, Put(name, sym)
    PROVE  MapOf' = [Map!With(name) EXCEPT ![name] = RecordOf(sym)]
<1>1. /\ symbols' \in Table
      /\ UniqueIn(symbols')
      /\ symbols \in Table
      /\ UniqueIn(symbols)
  BY PutTable DEF SymbolsTypeOK, NamesUnique, Table
<1>2. PICK k \in Entries(symbols', name) : symbols'[Hash[name]][k] = sym
  BY PutTable
<1>3. /\ Known(name)'
      /\ Lookup(name)' = RecordOf(sym)
  <2>1. IndexOf(symbols', name) = k
    BY <1>1, <1>2, IndexFound
  <2> QED
    BY <1>2, <2>1 DEF Known, Lookup, Entry, RecordOf
<1>4. ASSUME NEW n \in Name \ {name}
      PROVE  /\ Known(n)' <=> Known(n)
             /\ Known(n) => Lookup(n)' = Lookup(n)
  <2>1. /\ Entries(symbols', n) = Entries(symbols, n)
        /\ \A j \in Entries(symbols, n) :
                symbols'[Hash[n]][j] = symbols[Hash[n]][j]
    BY PutTable
  <2>2. ASSUME NEW j \in Entries(symbols, n)
        PROVE  IndexOf(symbols, n) = j /\ IndexOf(symbols', n) = j
    BY <1>1, <2>1, <2>2, IndexFound
  <2> QED
    BY <2>1, <2>2 DEF Known, Lookup, Entry
<1>5. {n \in Name : Known(n)'} = {n \in Name : Known(n)} \cup {name}
  BY <1>3, <1>4
<1>6. MapOf' = [n \in {m \in Name : Known(m)'} |-> Lookup(n)']
  BY DEF MapOf
<1>7. Map!With(name) =
        [n \in {m \in Name : Known(m)} \cup {name} |->
            IF n \in {m \in Name : Known(m)} THEN MapOf[n] ELSE Map!Fresh]
  BY DEF Map!With, MapOf
<1>8. \A n \in {m \in Name : Known(m)} : MapOf[n] = Lookup(n)
  BY DEF MapOf
<1> QED
  BY <1>3, <1>4, <1>5, <1>6, <1>7, <1>8

\* The hash table of symbols.c implements a map from names to symbols.
THEOREM SymbolTableImplementsMap == SymbolsSpec => ImplementsMap
<1>1. SymbolsInit => Map!Init
  <2> SUFFICES ASSUME SymbolsInit PROVE MapOf = [n \in {} |-> Map!Fresh]
    BY DEF Map!Init
  <2>1. \A n \in Name : ~Known(n)
    BY SymbolsAssumption DEF SymbolsInit, Known, Entries
  <2> QED
    BY <2>1 DEF MapOf
<1>2. ASSUME SymbolsTypeOK, NamesUnique, SymbolsNext
      PROVE  Map!Next
  <2>1. PICK name \in Name :
            \/ GetOrCreateSymbol(name)
            \/ MakeGlobal(name)
            \/ \E section \in ProgSections, value \in 0 .. MaxValue :
                    DefineLabel(name, section, value)
    BY <1>2 DEF SymbolsNext
  <2> DEFINE old == Entry(Interned(name), name)
             m == Map!With(name)
  <2>2. /\ old \in Symbol
        /\ old.name = name
        /\ m[name] = RecordOf(old)
        /\ m = [m EXCEPT ![name] = m[name]]
    BY <1>2, CallIsPut, WithName DEF Map!With
  <2> HIDE DEF old, m
  <2>3. CASE GetOrCreateSymbol(name)
    <3>1. MapOf' = [m EXCEPT ![name] = RecordOf(old)]
      BY <1>2, <2>2, <2>3, PutMap DEF GetOrCreateSymbol, old, m
    <3> QED
      BY <2>2, <3>1 DEF Map!Next, Map!Refer, m
  <2>4. CASE MakeGlobal(name)
    <3> DEFINE new == [old EXCEPT !.binding = 16]
    <3>1. /\ new \in Symbol
          /\ new.name = name
          /\ RecordOf(new) = [section |-> RecordOf(old).section,
                              value   |-> RecordOf(old).value,
                              binding |-> 16]
      BY <2>2 DEF Symbol, RecordOf
    <3>2. Put(name, new)
      BY <2>4 DEF MakeGlobal, old
    <3>3. MapOf' = [m EXCEPT ![name] = RecordOf(new)]
      BY <1>2, <3>1, <3>2, PutMap DEF m
    <3>4. Map!Export(name)
      BY <2>2, <3>1, <3>3 DEF Map!Export, m
    <3> QED
      BY <3>4 DEF Map!Next
  <2>5. ASSUME NEW section \in ProgSections, NEW value \in 0 .. MaxValue,
               DefineLabel(name, section, value)
        PROVE  Map!Define(name, section, value)
    <3> DEFINE new == [name |-> name, section |-> section, value |-> value,
                       binding |-> old.binding]
    <3>1. /\ new \in Symbol
          /\ new.name = name
          /\ RecordOf(new) = [section |-> section,
                              value   |-> value,
                              binding |-> RecordOf(old).binding]
      BY <2>2 DEF Symbol, RecordOf
    <3>2. Put(name, new)
      BY <2>5 DEF DefineLabel, old
    <3>3. MapOf' = [m EXCEPT ![name] = RecordOf(new)]
      BY <1>2, <3>1, <3>2, PutMap DEF m
    <3> QED
      BY <2>2, <3>1, <3>3 DEF Map!Define, m
  <2> QED
    BY <2>1, <2>3, <2>4, <2>5 DEF Map!Next
<1>3. UNCHANGED symbolVars => UNCHANGED MapOf
  BY DEF symbolVars, MapOf, Known, Lookup, Entries, Entry, IndexOf
<1>4. SymbolsTypeOK /\ NamesUnique /\ [SymbolsNext]_symbolVars => [Map!Next]_MapOf
  BY <1>2, <1>3
<1> QED
  BY <1>1, <1>4, SymbolTableUnique, PTL DEF SymbolsSpec, ImplementsMap, Map!Spec
=============================================================================
