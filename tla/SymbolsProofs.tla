--------------------------- MODULE SymbolsProofs ---------------------------
(***************************************************************************)
(* Facts about the operations of Symbols.tla, for every set of names,      *)
(* number of buckets and hash function.                                    *)
(***************************************************************************)
EXTENDS Symbols, TLAPS

Table == [Bucket -> Seq(Symbol)]

\* In a table without duplicates the entry of a name is found at its index.
LEMMA IndexFound ==
    ASSUME NEW tab \in Table, UniqueIn(tab),
           NEW name \in Name, NEW k \in Entries(tab, name)
    PROVE  /\ Entries(tab, name) = {k}
           /\ IndexOf(tab, name) = k
           /\ k \in 1 .. Len(tab[Hash[name]])
           /\ tab[Hash[name]][k].name = name
           /\ tab[Hash[name]][k] \in Symbol
<1>1. Hash[name] \in Bucket
  BY SymbolsAssumption
<1>2. tab[Hash[name]] \in Seq(Symbol)
  BY <1>1 DEF Table
<1>3. k \in 1 .. Len(tab[Hash[name]]) /\ tab[Hash[name]][k].name = name
  BY <1>2 DEF Entries
<1>4. Entries(tab, name) = {k}
  BY <1>1, <1>2, <1>3 DEF Entries, UniqueIn
<1>5. IndexOf(tab, name) = k
  BY <1>3, <1>4 DEF IndexOf
<1> QED
  BY <1>2, <1>3, <1>4, <1>5

\* The table get_or_create_symbol leaves: the old entries where they were, and
\* one entry for the name.
LEMMA InternedTable ==
    ASSUME symbols \in Table, NamesUnique, NEW name \in Name
    PROVE  /\ Interned(name) \in Table
           /\ UniqueIn(Interned(name))
           /\ \A h \in Bucket : \A k \in DOMAIN symbols[h] :
                k \in DOMAIN Interned(name)[h] /\ Interned(name)[h][k] = symbols[h][k]
           /\ \A h \in Bucket : h # Hash[name] => Interned(name)[h] = symbols[h]
           /\ IndexOf(Interned(name), name) \in Entries(Interned(name), name)
           /\ ~Known(name) =>
                /\ Interned(name)[Hash[name]] =
                        Append(symbols[Hash[name]], NewSymbol(name))
                /\ IndexOf(Interned(name), name) = Len(symbols[Hash[name]]) + 1
<1> DEFINE h == Hash[name]
<1>1. h \in Bucket /\ symbols[h] \in Seq(Symbol)
  BY SymbolsAssumption DEF Table
<1>2. CASE Known(name)
  <2>1. Interned(name) = symbols
    BY <1>2 DEF Interned
  <2>2. PICK k \in Entries(symbols, name) : TRUE
    BY <1>2 DEF Known
  <2>3. IndexOf(symbols, name) = k
    BY <2>2, IndexFound DEF NamesUnique
  <2> QED
    BY <1>2, <2>1, <2>2, <2>3 DEF NamesUnique
<1>3. CASE ~Known(name)
  <2> DEFINE new == NewSymbol(name)
             tab == Interned(name)
             n == Len(symbols[h]) + 1
  <2>1. new \in Symbol /\ new.name = name
    BY DEF NewSymbol, Symbol
  <2>2. tab = [symbols EXCEPT ![h] = Append(symbols[h], new)]
    BY <1>3 DEF Interned
  <2> HIDE DEF new, tab
  <2>3. tab \in Table
    BY <1>1, <2>1, <2>2 DEF Table
  <2>4. /\ tab[h] = Append(symbols[h], new)
        /\ \A g \in Bucket : g # h => tab[g] = symbols[g]
    BY <1>1, <2>2 DEF Table
  <2>5. /\ DOMAIN tab[h] = 1 .. n
        /\ DOMAIN symbols[h] = 1 .. n - 1
        /\ n \in Nat \ {0}
        /\ tab[h][n] = new
        /\ \A k \in 1 .. n - 1 : tab[h][k] = symbols[h][k]
    BY <1>1, <2>1, <2>4
  <2>6. \A k \in 1 .. n - 1 : symbols[h][k].name # name /\ Hash[symbols[h][k].name] = h
    BY <1>1, <1>3, <2>5 DEF Known, Entries, NamesUnique, UniqueIn
  <2>7. UniqueIn(tab)
    <3> SUFFICES ASSUME NEW g \in Bucket, NEW j \in DOMAIN tab[g],
                        NEW k \in DOMAIN tab[g]
                 PROVE  /\ Hash[tab[g][j].name] = g
                        /\ tab[g][j].name = tab[g][k].name => j = k
      BY DEF UniqueIn
    <3>1. CASE g # h
      BY <2>4, <3>1 DEF NamesUnique, UniqueIn
    <3>2. CASE g = h
      <4>1. j \in 1 .. n /\ k \in 1 .. n
        BY <2>5, <3>2
      <4>2. CASE j = n \/ k = n
        <5>1. \A x \in 1 .. n : x # n => x \in 1 .. n - 1
          BY <2>5
        <5>2. tab[h][n].name = name /\ Hash[name] = h
          BY <2>1, <2>5
        <5>3. \A x \in 1 .. n : x # n => /\ tab[h][x].name # name
                                         /\ Hash[tab[h][x].name] = h
          BY <2>5, <2>6, <5>1
        <5> QED
          BY <3>2, <4>1, <4>2, <5>2, <5>3
      <4>3. CASE j # n /\ k # n
        <5>1. j \in 1 .. n - 1 /\ k \in 1 .. n - 1
          BY <2>5, <4>1, <4>3
        <5> QED
          BY <1>1, <2>5, <2>6, <3>2, <5>1 DEF NamesUnique, UniqueIn
      <4> QED
        BY <4>2, <4>3
    <3> QED
      BY <3>1, <3>2
  <2>8. n \in Entries(tab, name)
    BY <2>1, <2>5 DEF Entries
  <2>9. IndexOf(tab, name) = n
    BY <2>3, <2>7, <2>8, IndexFound
  <2>10. \A g \in Bucket : \A k \in DOMAIN symbols[g] :
            k \in DOMAIN tab[g] /\ tab[g][k] = symbols[g][k]
    BY <2>4, <2>5
  <2>11. IndexOf(tab, name) \in Entries(tab, name)
    BY <2>8, <2>9
  <2> QED
    BY <2>3, <2>4, <2>7, <2>9, <2>10, <2>11 DEF new, tab
<1> QED
  BY <1>2, <1>3

\* Every call of the module is a Put of a symbol with the name it was made for.
LEMMA CallIsPut ==
    ASSUME SymbolsTypeOK, NamesUnique, NEW name \in Name
    PROVE  /\ Entry(Interned(name), name) \in Symbol
           /\ Entry(Interned(name), name).name = name
           /\ ~Known(name) => Entry(Interned(name), name) = NewSymbol(name)
<1>1. /\ Interned(name) \in Table
      /\ UniqueIn(Interned(name))
      /\ IndexOf(Interned(name), name) \in Entries(Interned(name), name)
  BY InternedTable DEF SymbolsTypeOK, Table
<1>2. /\ Entry(Interned(name), name) \in Symbol
      /\ Entry(Interned(name), name).name = name
  BY <1>1, IndexFound DEF Entry
<1>3. ASSUME ~Known(name)
      PROVE  Entry(Interned(name), name) = NewSymbol(name)
  <2>1. symbols[Hash[name]] \in Seq(Symbol)
    BY SymbolsAssumption DEF SymbolsTypeOK
  <2>2. /\ Interned(name)[Hash[name]] = Append(symbols[Hash[name]], NewSymbol(name))
        /\ IndexOf(Interned(name), name) = Len(symbols[Hash[name]]) + 1
    BY <1>3, InternedTable DEF SymbolsTypeOK, Table
  <2>3. NewSymbol(name) \in Symbol
    BY DEF NewSymbol, Symbol
  <2> QED
    BY <2>1, <2>2, <2>3 DEF Entry
<1> QED
  BY <1>2, <1>3

\* What a Put does: it interns the name, replaces the one entry of that name,
\* and leaves all others alone.
LEMMA PutTable ==
    ASSUME SymbolsTypeOK, NamesUnique, NEW name \in Name,
           NEW sym \in Symbol, sym.name = name, Put(name, sym)
    PROVE  /\ SymbolsTypeOK'
           /\ NamesUnique'
           /\ \A h \in Bucket : \A k \in DOMAIN symbols[h] :
                /\ k \in DOMAIN symbols'[h]
                /\ symbols'[h][k].name = symbols[h][k].name
                /\ \/ symbols'[h][k] = symbols[h][k]
                   \/ symbols[h][k] = Entry(Interned(name), name)
                        /\ symbols'[h][k] = sym
           /\ \A n \in Name \ {name} :
                /\ Entries(symbols', n) = Entries(symbols, n)
                /\ \A k \in Entries(symbols, n) :
                        symbols'[Hash[n]][k] = symbols[Hash[n]][k]
           /\ \E k \in Entries(symbols', name) : symbols'[Hash[name]][k] = sym
<1> DEFINE h == Hash[name]
           tab == Interned(name)
           m == IndexOf(tab, name)
<1>1. h \in Bucket /\ symbols \in Table /\ Hash \in [Name -> Bucket]
  BY SymbolsAssumption DEF SymbolsTypeOK, Table
<1>2. tab \in Table /\ UniqueIn(tab) /\ m \in Entries(tab, name)
  BY <1>1, InternedTable
<1>3. \A g \in Bucket : \A k \in DOMAIN symbols[g] :
            k \in DOMAIN tab[g] /\ tab[g][k] = symbols[g][k]
  BY <1>1, InternedTable
<1>4. m \in 1 .. Len(tab[h]) /\ tab[h][m].name = name
  BY <1>2, IndexFound
<1>5. symbols' = [tab EXCEPT ![h] = [tab[h] EXCEPT ![m] = sym]]
  BY DEF Put
<1>6. \A n \in Name : n # name /\ Hash[n] # h => Interned(name)[Hash[n]] = symbols[Hash[n]]
  BY <1>1, InternedTable
<1>7. ~Known(name) => tab[h] = Append(symbols[h], NewSymbol(name))
  BY <1>1, InternedTable
<1>8. Known(name) => tab = symbols
  BY DEF Interned
<1>9. Entry(tab, name) = tab[h][m]
  BY DEF Entry
<1> HIDE DEF tab, m
<1>10. tab[h] \in Seq(Symbol) /\ DOMAIN tab[h] = 1 .. Len(tab[h])
  BY <1>1, <1>2 DEF Table
<1>11. [tab[h] EXCEPT ![m] = sym] \in Seq(Symbol)
  BY <1>4, <1>10
<1>12. symbols' \in Table
  BY <1>1, <1>2, <1>5, <1>11 DEF Table
<1>13. /\ \A g \in Bucket : DOMAIN symbols'[g] = DOMAIN tab[g]
       /\ \A g \in Bucket : g # h => symbols'[g] = tab[g]
       /\ \A k \in DOMAIN tab[h] : k # m => symbols'[h][k] = tab[h][k]
       /\ symbols'[h][m] = sym
  BY <1>1, <1>2, <1>4, <1>5, <1>10 DEF Table
<1>14. \A g \in Bucket : \A k \in DOMAIN tab[g] :
            /\ symbols'[g][k].name = tab[g][k].name
            /\ symbols'[g][k] = tab[g][k]
                \/ (tab[g][k] = Entry(tab, name) /\ symbols'[g][k] = sym)
  BY <1>4, <1>9, <1>13
<1>15. UniqueIn(symbols')
  BY <1>2, <1>13, <1>14 DEF UniqueIn
<1>16. block' \in [Bucket -> Nat]
  BY <1>1 DEF Put, BlocksAfter, SymbolsTypeOK
<1>17. m \in Entries(symbols', name) /\ symbols'[Hash[name]][m] = sym
  BY <1>1, <1>4, <1>10, <1>13 DEF Entries
<1>18. ASSUME NEW n \in Name \ {name}
       PROVE  /\ Entries(symbols', n) = Entries(symbols, n)
              /\ \A k \in Entries(symbols, n) :
                    symbols'[Hash[n]][k] = symbols[Hash[n]][k]
  <2>1. Hash[n] \in Bucket
    BY <1>1
  <2>2. Entries(tab, n) = Entries(symbols, n)
    <3>1. CASE Known(name)
      BY <1>8, <3>1
    <3>2. CASE ~Known(name) /\ Hash[n] # h
      BY <1>6, <3>2 DEF Entries, tab
    <3>3. CASE ~Known(name) /\ Hash[n] = h
      <4>1. NewSymbol(name) \in Symbol /\ NewSymbol(name).name = name
        BY DEF NewSymbol, Symbol
      <4>2. symbols[h] \in Seq(Symbol)
        BY <1>1 DEF Table
      <4>3. /\ DOMAIN tab[h] = 1 .. Len(symbols[h]) + 1
            /\ DOMAIN symbols[h] = 1 .. Len(symbols[h])
            /\ Len(symbols[h]) \in Nat
            /\ tab[h][Len(symbols[h]) + 1].name = name
            /\ \A k \in 1 .. Len(symbols[h]) : tab[h][k] = symbols[h][k]
        BY <1>7, <3>3, <4>1, <4>2
      <4> QED
        BY <3>3, <4>3 DEF Entries
    <3> QED
      BY <3>1, <3>2, <3>3
  <2>3. \A k \in Entries(tab, n) : symbols'[Hash[n]][k] = tab[Hash[n]][k]
    BY <1>4, <1>13, <2>1 DEF Entries
  <2>4. Entries(symbols', n) = Entries(tab, n)
    BY <1>13, <1>14, <2>1 DEF Entries
  <2>5. \A k \in Entries(symbols, n) : tab[Hash[n]][k] = symbols[Hash[n]][k]
    BY <1>3, <2>1 DEF Entries
  <2> QED
    BY <2>2, <2>3, <2>4, <2>5
<1>19. \A g \in Bucket : \A k \in DOMAIN symbols[g] :
            /\ k \in DOMAIN symbols'[g]
            /\ symbols'[g][k].name = symbols[g][k].name
            /\ \/ symbols'[g][k] = symbols[g][k]
               \/ symbols[g][k] = Entry(tab, name) /\ symbols'[g][k] = sym
  BY <1>3, <1>13, <1>14
<1>20. SymbolsTypeOK' /\ NamesUnique'
  BY <1>12, <1>15, <1>16 DEF SymbolsTypeOK, NamesUnique, Table
<1> QED
  BY <1>17, <1>18, <1>19, <1>20 DEF tab

\* The three ways the table is used are Puts of a symbol of that name.
LEMMA CallPuts ==
    ASSUME SymbolsTypeOK, NamesUnique, NEW name \in Name,
           \/ GetOrCreateSymbol(name)
           \/ MakeGlobal(name)
           \/ \E section \in ProgSections, value \in Nat :
                    DefineLabel(name, section, value)
    PROVE  \E sym \in Symbol :
                /\ sym.name = name
                /\ sym.binding >= Entry(Interned(name), name).binding
                /\ Put(name, sym)
<1> DEFINE old == Entry(Interned(name), name)
<1>1. old \in Symbol /\ old.name = name
  BY CallIsPut
<1> HIDE DEF old
<1>2. CASE GetOrCreateSymbol(name)
  BY <1>1, <1>2 DEF GetOrCreateSymbol, old, Symbol
<1>3. CASE MakeGlobal(name)
  <2>1. /\ [old EXCEPT !.binding = 16] \in Symbol
        /\ [old EXCEPT !.binding = 16].name = name
        /\ [old EXCEPT !.binding = 16].binding >= old.binding
    BY <1>1 DEF Symbol
  <2>2. Put(name, [old EXCEPT !.binding = 16])
    BY <1>3 DEF MakeGlobal, old
  <2> QED
    BY <2>1, <2>2 DEF old
<1>4. ASSUME NEW section \in ProgSections, NEW value \in Nat,
             DefineLabel(name, section, value)
      PROVE  \E sym \in Symbol :
                /\ sym.name = name
                /\ sym.binding >= old.binding
                /\ Put(name, sym)
  <2> DEFINE new == [name |-> name, section |-> section, value |-> value,
                     binding |-> old.binding]
  <2>1. new \in Symbol /\ new.name = name /\ new.binding >= old.binding
    BY <1>1 DEF Symbol
  <2>2. Put(name, new)
    BY <1>4 DEF DefineLabel, old
  <2> QED
    BY <2>1, <2>2
<1> QED
  BY <1>2, <1>3, <1>4 DEF old

\* The empty table is well formed.
LEMMA SymbolsInitOK == SymbolsInit => SymbolsTypeOK /\ NamesUnique
  BY SymbolsAssumption DEF SymbolsInit, SymbolsTypeOK, NamesUnique, UniqueIn
=============================================================================
