----------------------- MODULE AssemblerContentProofs -----------------------
(***************************************************************************)
(* What the sections of the object hold.  The two tables are made by three *)
(* loops over the symbols: calc_strtab and calc_symtab count, fill_strtab  *)
(* copies the names, fill_symtab computes their places again.  That the    *)
(* three agree is what the theorems rest on: a section is never overrun    *)
(* (NoOverrun), every byte is stored once (ObjectComplete), and every      *)
(* symbol and every section header finds its name (TablesNamed).           *)
(***************************************************************************)
EXTENDS AssemblerProofs, FiniteSetTheorems

-----------------------------------------------------------------------------
(***************************************************************************)
(* The way of the loops through the table.  A stop is a slot with a symbol *)
(* or the end of a bucket; the last stop is behind all buckets.            *)
(***************************************************************************)

EndSlot == <<SYMBOLMAP_ENTRIES, 1>>

Stops == {s \in Nat \X Nat :
            \/ s[1] \in Bucket /\ s[2] \in 1 .. Len(symbols[s[1]]) + 1
            \/ s = EndSlot}

Before(s, t) == s[1] < t[1] \/ (s[1] = t[1] /\ s[2] < t[2])

NextStop(s) == IF IsSlot(s) THEN <<s[1], s[2] + 1>> ELSE <<s[1] + 1, 1>>

\* What the symbol at a stop, if there is one, adds to the lengths of the names
\* and to the number of symbols.
Room(s) == IF IsSlot(s) THEN NameSz[SymbolAt(s).name] ELSE 0
One(s) == IF IsSlot(s) THEN 1 ELSE 0

\* What a stop is.
LEMMA StopFacts ==
  ASSUME SymbolsTypeOK
  PROVE  /\ FirstSlot \in Stops /\ EndSlot \in Stops
         /\ \A s \in Stops :
                /\ s = <<s[1], s[2]>> /\ s[1] \in Nat /\ s[2] \in Nat
                /\ Room(s) \in Nat /\ One(s) \in Nat
                /\ IsSlot(s) => s[1] \in Bucket /\ SymbolAt(s) \in Symbol /\ Room(s) >= 1
                /\ s[1] \notin Bucket => s = EndSlot
                /\ s = EndSlot \/ Before(s, EndSlot)
                /\ ~Before(s, FirstSlot)
                /\ s # EndSlot => s[1] \in Bucket
         /\ ~IsSlot(EndSlot)
<1>1. SYMBOLMAP_ENTRIES \in Nat \ {0} /\ 0 \in Bucket /\ SYMBOLMAP_ENTRIES \notin Bucket
      /\ Bucket \subseteq Nat
  BY SymbolsAssumption DEF Bucket
<1>2. \A h \in Bucket : symbols[h] \in Seq(Symbol) /\ Len(symbols[h]) \in Nat
                         /\ DOMAIN symbols[h] = 1 .. Len(symbols[h])
  BY DEF SymbolsTypeOK
<1>3. FirstSlot \in Stops /\ EndSlot \in Stops /\ ~IsSlot(EndSlot)
  BY <1>1, <1>2 DEF FirstSlot, EndSlot, Stops, IsSlot
<1>4. ASSUME NEW s \in Stops
      PROVE  /\ s = <<s[1], s[2]>> /\ s[1] \in Nat /\ s[2] \in Nat
             /\ Room(s) \in Nat /\ One(s) \in Nat
             /\ IsSlot(s) => s[1] \in Bucket /\ SymbolAt(s) \in Symbol /\ Room(s) >= 1
             /\ s[1] \notin Bucket => s = EndSlot
             /\ s = EndSlot \/ Before(s, EndSlot)
             /\ ~Before(s, FirstSlot)
             /\ s # EndSlot => s[1] \in Bucket
  <2>1. s \in Nat \X Nat /\ s = <<s[1], s[2]>> /\ s[1] \in Nat /\ s[2] \in Nat
    BY DEF Stops
  <2>2. IsSlot(s) => s[1] \in Bucket /\ SymbolAt(s) \in Symbol
    BY <1>2 DEF IsSlot, SymbolAt
  <2>3. IsSlot(s) => NameSz[SymbolAt(s).name] \in Nat \ {0}
    BY <2>2, SymbolsAssumption DEF Symbol
  <2>4. s # EndSlot => s[1] \in Bucket /\ s[1] < SYMBOLMAP_ENTRIES
    BY <1>1 DEF Stops, Bucket
  <2>5. Room(s) \in Nat /\ One(s) \in Nat /\ (IsSlot(s) => Room(s) >= 1)
    BY <2>3 DEF Room, One
  <2>6. s[2] >= 1
    BY <1>2, <2>1 DEF Stops, EndSlot
  <2>7. ~Before(s, FirstSlot)
    BY <2>1, <2>6 DEF Before, FirstSlot
  <2>8. s = EndSlot \/ Before(s, EndSlot)
    BY <2>4 DEF Before, EndSlot
  <2> QED
    BY <2>1, <2>2, <2>4, <2>5, <2>7, <2>8
<1> QED
  BY <1>3, <1>4

\* The order of the stops is a strict and total one.
LEMMA StopOrder ==
  ASSUME SymbolsTypeOK
  PROVE  \A s, t \in Stops :
            /\ ~Before(s, s)
            /\ Before(s, t) \/ Before(t, s) \/ s = t
            /\ Before(s, t) => ~Before(t, s)
            /\ \A u \in Stops : Before(s, t) /\ Before(t, u) => Before(s, u)
<1>1. \A s \in Stops : s = <<s[1], s[2]>> /\ s[1] \in Nat /\ s[2] \in Nat
  BY StopFacts
<1>2. \A s, t \in Stops : Before(s, t) \/ Before(t, s) \/ s = t
  <2> SUFFICES ASSUME NEW s \in Stops, NEW t \in Stops, ~Before(s, t), ~Before(t, s)
               PROVE  s = t
    OBVIOUS
  <2>1. s[1] = t[1] /\ s[2] = t[2]
    BY <1>1 DEF Before
  <2> QED
    BY <1>1, <2>1
<1>3. \A s, t \in Stops : ~Before(s, s) /\ (Before(s, t) => ~Before(t, s))
  BY <1>1 DEF Before
<1>4. \A s, t, u \in Stops : Before(s, t) /\ Before(t, u) => Before(s, u)
  BY <1>1 DEF Before
<1> QED
  BY <1>2, <1>3, <1>4

\* From one stop a loop gets to the next.
LEMMA NextStopFacts ==
  ASSUME SymbolsTypeOK, NEW s \in Stops, s # EndSlot
  PROVE  /\ NextStop(s) \in Stops
         /\ Before(s, NextStop(s))
         /\ \A t \in Stops : Before(t, NextStop(s)) <=> t = s \/ Before(t, s)
<1>1. /\ SYMBOLMAP_ENTRIES \in Nat \ {0}
      /\ \A h \in Nat : h \in Bucket <=> h < SYMBOLMAP_ENTRIES
  BY SymbolsAssumption DEF Bucket
<1>2. \A h \in Bucket : Len(symbols[h]) \in Nat /\ DOMAIN symbols[h] = 1 .. Len(symbols[h])
  BY DEF SymbolsTypeOK
<1>3. /\ s = <<s[1], s[2]>> /\ s[1] \in Bucket /\ s[1] \in Nat /\ s[2] \in Nat
      /\ s[2] \in 1 .. Len(symbols[s[1]]) + 1
      /\ IsSlot(s) <=> s[2] \in 1 .. Len(symbols[s[1]])
  BY <1>2, StopFacts DEF Stops, IsSlot
<1>4. \A t \in Stops : /\ t = <<t[1], t[2]>> /\ t[1] \in Nat /\ t[2] \in Nat /\ t[2] >= 1
                       /\ t[1] \in Bucket => t[2] <= Len(symbols[t[1]]) + 1
  BY <1>1, <1>2, StopFacts DEF Stops, EndSlot
<1>5. CASE IsSlot(s)
  <2>1. NextStop(s) = <<s[1], s[2] + 1>>
    BY <1>5 DEF NextStop
  <2>2. NextStop(s) \in Stops
    BY <1>2, <1>3, <1>5, <2>1 DEF Stops
  <2>3. ASSUME NEW t \in Stops
        PROVE  Before(t, NextStop(s)) <=> t = s \/ Before(t, s)
    <3>1. t[2] < s[2] + 1 <=> t[2] = s[2] \/ t[2] < s[2]
      BY <1>3, <1>4
    <3>2. t[1] = s[1] /\ t[2] = s[2] <=> t = s
      BY <1>3, <1>4
    <3> QED
      BY <2>1, <3>1, <3>2 DEF Before
  <2> QED
    BY <1>3, <2>1, <2>2, <2>3 DEF Before
<1>6. CASE ~IsSlot(s)
  <2>1. NextStop(s) = <<s[1] + 1, 1>> /\ s[2] = Len(symbols[s[1]]) + 1
    BY <1>2, <1>3, <1>6 DEF NextStop
  <2>2. NextStop(s) \in Stops
    <3>1. CASE s[1] + 1 \in Bucket
      BY <1>2, <1>3, <2>1, <3>1 DEF Stops
    <3>2. CASE s[1] + 1 \notin Bucket
      BY <1>1, <1>3, <2>1, <3>2 DEF Stops, EndSlot
    <3> QED
      BY <3>1, <3>2
  <2>3. ASSUME NEW t \in Stops
        PROVE  Before(t, NextStop(s)) <=> t = s \/ Before(t, s)
    <3>1. Before(t, NextStop(s)) <=> t[1] <= s[1]
      BY <1>3, <1>4, <2>1 DEF Before
    <3>2. t[1] = s[1] => t[2] <= s[2]
      BY <1>3, <1>4, <2>1
    <3>3. t[1] = s[1] /\ t[2] = s[2] <=> t = s
      BY <1>3, <1>4
    <3> QED
      BY <1>3, <1>4, <3>1, <3>2, <3>3 DEF Before
  <2> QED
    BY <1>3, <2>1, <2>2, <2>3 DEF Before
<1> QED
  BY <1>5, <1>6

-----------------------------------------------------------------------------
(***************************************************************************)
(* The sums a loop has made on its way: addr[s] is where the name of the   *)
(* symbol at s goes in .strtab, rank[s] the number of symbols before it.   *)
(***************************************************************************)

\* addr and rank are right for the stops up to top: they grow from stop to stop
\* by what is there, and every rank below the last is that of a symbol.
Walked(addr, rank, top) ==
    /\ addr[FirstSlot] = 1 /\ rank[FirstSlot] = 0
    /\ \A s \in Stops : Before(s, top) =>
            /\ addr[NextStop(s)] = addr[s] + Room(s)
            /\ rank[NextStop(s)] = rank[s] + One(s)
    /\ \A s, t \in Stops : Before(s, t) /\ ~Before(top, t) =>
            /\ addr[s] + Room(s) <= addr[t]
            /\ rank[s] + One(s) <= rank[t]
    /\ \A r \in 0 .. rank[top] - 1 : \E s \in Stops :
            IsSlot(s) /\ Before(s, top) /\ rank[s] = r

\* A loop that has not started has made the sums 1 and 0.
LEMMA WalkStarts ==
  ASSUME SymbolsTypeOK
  PROVE  \E addr, rank \in [Stops -> Nat] :
            Walked(addr, rank, FirstSlot) /\ addr[FirstSlot] = 1 /\ rank[FirstSlot] = 0
<1> DEFINE addr == [s \in Stops |-> 1]
           rank == [s \in Stops |-> 0]
<1>1. FirstSlot \in Stops /\ \A s \in Stops : ~Before(s, FirstSlot)
  BY StopFacts
<1>2. \A s, t \in Stops : Before(s, t) => Before(FirstSlot, t)
  BY <1>1, StopOrder
<1>3. addr \in [Stops -> Nat] /\ rank \in [Stops -> Nat]
      /\ addr[FirstSlot] = 1 /\ rank[FirstSlot] = 0
  BY <1>1
<1> HIDE DEF addr, rank
<1>4. Walked(addr, rank, FirstSlot)
  BY <1>1, <1>2, <1>3 DEF Walked
<1> QED
  BY <1>3, <1>4

\* One iteration more.
LEMMA WalkOn ==
  ASSUME SymbolsTypeOK, NEW top \in Stops, top # EndSlot,
         NEW addr \in [Stops -> Nat], NEW rank \in [Stops -> Nat],
         Walked(addr, rank, top)
  PROVE  \E a, r \in [Stops -> Nat] :
            /\ Walked(a, r, NextStop(top))
            /\ a[NextStop(top)] = addr[top] + Room(top)
            /\ r[NextStop(top)] = rank[top] + One(top)
<1> DEFINE next == NextStop(top)
           a == [addr EXCEPT ![next] = addr[top] + Room(top)]
           r == [rank EXCEPT ![next] = rank[top] + One(top)]
<1>1. /\ next \in Stops /\ Before(top, next)
      /\ \A t \in Stops : Before(t, next) <=> t = top \/ Before(t, top)
  BY NextStopFacts
<1>2. /\ \A s \in Stops : Room(s) \in Nat /\ One(s) \in Nat /\ addr[s] \in Nat /\ rank[s] \in Nat
      /\ FirstSlot \in Stops /\ \A s \in Stops : ~Before(s, FirstSlot)
  BY StopFacts
<1>3. /\ a \in [Stops -> Nat] /\ r \in [Stops -> Nat]
      /\ a[next] = addr[top] + Room(top) /\ r[next] = rank[top] + One(top)
      /\ \A s \in Stops : s # next => a[s] = addr[s] /\ r[s] = rank[s]
  BY <1>1, <1>2
<1> HIDE DEF a, r, next
<1>4. \A s \in Stops : s = top \/ Before(s, top) => s # next
  BY <1>1, StopOrder
<1>5. FirstSlot # next
  BY <1>1, <1>2
<1>6. ASSUME NEW s \in Stops, Before(s, next)
      PROVE  a[NextStop(s)] = a[s] + Room(s) /\ r[NextStop(s)] = r[s] + One(s)
  <2>1. CASE s = top
    BY <1>3, <1>4, <2>1 DEF next
  <2>2. CASE Before(s, top)
    <3>1. s # EndSlot
      BY <2>2, StopFacts, StopOrder
    <3>2. NextStop(s) \in Stops /\ ~Before(top, NextStop(s))
      BY <2>2, <3>1, NextStopFacts, StopOrder
    <3>3. NextStop(s) # next
      BY <1>1, <3>2
    <3> QED
      BY <1>3, <1>4, <2>2, <3>2, <3>3 DEF Walked
  <2> QED
    BY <1>1, <1>6, <2>1, <2>2
<1>7. ASSUME NEW s \in Stops, NEW t \in Stops, Before(s, t), ~Before(next, t)
      PROVE  a[s] + Room(s) <= a[t] /\ r[s] + One(s) <= r[t]
  <2>1. CASE t = next
    <3>1. CASE s = top
      BY <1>2, <1>3, <1>4, <2>1, <3>1
    <3>2. CASE Before(s, top)
      <4>1. addr[s] + Room(s) <= addr[top] /\ rank[s] + One(s) <= rank[top]
        BY <3>2, StopOrder DEF Walked
      <4>2. a[s] = addr[s] /\ r[s] = rank[s]
        BY <1>3, <1>4, <3>2
      <4> QED
        BY <1>2, <1>3, <2>1, <4>1, <4>2
    <3> QED
      BY <1>1, <1>7, <2>1, <3>1, <3>2
  <2>2. CASE t # next
    <3>1. t = top \/ Before(t, top)
      BY <1>1, <1>7, <2>2, StopOrder
    <3>2. ~Before(top, t) /\ s # next /\ t # next
      BY <1>4, <1>7, <2>2, <3>1, StopOrder
    <3> QED
      BY <1>3, <1>7, <3>2 DEF Walked
  <2> QED
    BY <2>1, <2>2
<1>8. ASSUME NEW n \in 0 .. r[next] - 1
      PROVE  \E s \in Stops : IsSlot(s) /\ Before(s, next) /\ r[s] = n
  <2>1. CASE n \in 0 .. rank[top] - 1
    <3>1. PICK s \in Stops : IsSlot(s) /\ Before(s, top) /\ rank[s] = n
      BY <2>1 DEF Walked
    <3> QED
      BY <1>1, <1>3, <1>4, <3>1
  <2>2. CASE n \notin 0 .. rank[top] - 1
    <3>1. One(top) = 1 /\ n = rank[top]
      BY <1>2, <1>3, <1>8, <2>2 DEF One
    <3>2. IsSlot(top)
      BY <3>1 DEF One
    <3> QED
      BY <1>1, <1>3, <1>4, <3>1, <3>2
  <2> QED
    BY <2>1, <2>2
<1>9. Walked(a, r, next)
  <2>1. a[FirstSlot] = 1 /\ r[FirstSlot] = 0
    BY <1>2, <1>3, <1>5 DEF Walked
  <2> QED
    BY <1>6, <1>7, <1>8, <2>1 DEF Walked
<1> QED
  BY <1>3, <1>9 DEF next

-----------------------------------------------------------------------------
(***************************************************************************)
(* What the tables hold while they are made.                               *)
(***************************************************************************)

\* The names fill_strtab has copied when it reaches top, each with its place.
Copied(addr, top) ==
    {[at |-> addr[s], name |-> SymbolAt(s).name] :
        s \in {t \in Stops : IsSlot(t) /\ Before(t, top)}}

\* Where the name of section j goes, behind all the names of symbols.
NamePrefix ==
    [j \in 0 .. 5 |-> IF j = 0 THEN 0 ELSE IF j = 1 THEN 1 ELSE IF j = 2 THEN 9
                      ELSE IF j = 3 THEN 15 ELSE IF j = 4 THEN 21 ELSE 29]

NamesExtent(addr) ==
    [at |-> 0, len |-> addr[EndSlot], bytes |-> [names |-> Copied(addr, EndSlot)]]

SectionNameExtent(addr, j) ==
    [at    |-> addr[EndSlot] + NamePrefix[j],
     len   |-> SectionNameSz[j],
     bytes |-> [sectionname |-> j]]

\* .strtab holds the names of the symbols and those of the first n sections.
NamesOut(addr, n) ==
    /\ Len(contents[SECTION_STRTAB]) = n + 1
    /\ contents[SECTION_STRTAB][1] = NamesExtent(addr)
    /\ \A j \in 0 .. n - 1 :
        /\ contents[SECTION_STRTAB][j + 2] = SectionNameExtent(addr, j)
        /\ nameoffset[j] = addr[EndSlot] + NamePrefix[j]

SymbolExtent(addr, rank, s) ==
    [at    |-> (rank[s] + 1) * SYM_SIZE,
     len   |-> SYM_SIZE,
     bytes |-> SymtabEntry(addr[s], SymbolAt(s).binding, SymbolAt(s).section,
                           SymbolAt(s).value)]

BlankExtent == [at |-> 0, len |-> SYM_SIZE, bytes |-> SymtabEntry(0, 0, 0, 0)]

\* .symtab holds the blank entry and those of the symbols before top.
EntriesOut(addr, rank, top) ==
    /\ Len(contents[SECTION_SYMTAB]) = rank[top] + 1
    /\ contents[SECTION_SYMTAB][1] = BlankExtent
    /\ \A s \in Stops : IsSlot(s) /\ Before(s, top) =>
            contents[SECTION_SYMTAB][rank[s] + 2] = SymbolExtent(addr, rank, s)

\* The sizes are those the first loop found.
Sized(addr, rank) ==
    /\ size[SECTION_STRTAB] = addr[EndSlot] + SectionNamesSz
    /\ size[SECTION_SYMTAB] = (rank[EndSlot] + 1) * SYM_SIZE
    /\ info = rank[EndSlot]

\* The names and the entries are out as far as the program has got.
Drawn(addr, rank) ==
    /\ pc \in {"instructions", "data", "strtab"} => contents[SECTION_STRTAB] = <<>>
    /\ pc \in {"instructions", "data", "strtab", "names"} =>
            contents[SECTION_SYMTAB] = <<>>
    /\ pc = "strtab" => cursor = addr[slot] /\ strbuf = Copied(addr, slot)
    /\ pc = "names" => /\ i \in 0 .. 5
                       /\ cursor = addr[EndSlot] + NamePrefix[i]
                       /\ NamesOut(addr, i)
    /\ pc \in {"symtab", "flush"} =>
            NamesOut(addr, 5) /\ EntriesOut(addr, rank, slot)
    /\ pc = "symtab" => cursor = addr[slot] /\ count = rank[slot] + 1
    /\ pc = "flush" => slot = EndSlot

\* Nothing is written before the layout is done.
Untouched ==
    pc \in Reading \cup {"calc", "alloc"} => \A s \in Sections : contents[s] = <<>>

Made == {"alloc"} \cup Writing \cup {"flush"}

\* The inductive invariant of the tables: one walk accounts for the sizes, for
\* the names copied and for the entries.
TableInv ==
    /\ size[SECTION_NULL] = 0
    /\ Untouched
    /\ pc \in {"calc", "strtab", "symtab"} => slot \in Stops
    /\ pc = "calc" => \E addr, rank \in [Stops -> Nat] :
            Walked(addr, rank, slot) /\ cursor = addr[slot] /\ count = rank[slot]
    /\ pc \in Made => \E addr, rank \in [Stops -> Nat] :
            Walked(addr, rank, EndSlot) /\ Sized(addr, rank) /\ Drawn(addr, rank)

\* The names of the sections follow one another and fill their room.
LEMMA PrefixFacts ==
  /\ NamePrefix[0] = 0 /\ NamePrefix[5] = SectionNamesSz
  /\ \A j \in 0 .. 5 : NamePrefix[j] \in Nat
  /\ \A j \in 0 .. 4 : /\ NamePrefix[j + 1] = NamePrefix[j] + SectionNameSz[j]
                       /\ SectionNameSz[j] \in Nat \ {0}
                       /\ \A k \in 0 .. 4 :
                            j < k => NamePrefix[j] + SectionNameSz[j] <= NamePrefix[k]
<1>1. /\ SectionNameSz[0] = 1 /\ SectionNameSz[1] = 8 /\ SectionNameSz[2] = 6
      /\ SectionNameSz[3] = 6 /\ SectionNameSz[4] = 8 /\ SectionNamesSz = 29
  BY DEF SectionNameSz, SectionNamesSz, Sections, SECTION_COUNT, SECTION_NULL,
         SECTION_STRTAB, SECTION_TEXT, SECTION_DATA, SECTION_SYMTAB, ProgSections
<1>2. /\ NamePrefix[0] = 0 /\ NamePrefix[1] = 1 /\ NamePrefix[2] = 9
      /\ NamePrefix[3] = 15 /\ NamePrefix[4] = 21 /\ NamePrefix[5] = 29
  BY DEF NamePrefix
<1>3. \A j \in 0 .. 5 : j = 0 \/ j = 1 \/ j = 2 \/ j = 3 \/ j = 4 \/ j = 5
  OBVIOUS
<1>4. \A j \in 0 .. 5 : NamePrefix[j] \in Nat
  BY <1>2, <1>3
<1>5. ASSUME NEW j \in 0 .. 4
      PROVE  /\ NamePrefix[j + 1] = NamePrefix[j] + SectionNameSz[j]
             /\ SectionNameSz[j] \in Nat \ {0}
  <2>1. j = 0 \/ j = 1 \/ j = 2 \/ j = 3 \/ j = 4
    OBVIOUS
  <2> QED
    BY <1>1, <1>2, <2>1
<1>6. ASSUME NEW j \in 0 .. 4, NEW k \in 0 .. 4, j < k
      PROVE  NamePrefix[j] + SectionNameSz[j] <= NamePrefix[k]
  <2>1. j = 0 \/ j = 1 \/ j = 2 \/ j = 3 \/ j = 4
    OBVIOUS
  <2>2. k = 0 \/ k = 1 \/ k = 2 \/ k = 3 \/ k = 4
    OBVIOUS
  <2> QED
    BY <1>1, <1>2, <1>6, <2>1, <2>2
<1> QED
  BY <1>1, <1>2, <1>4, <1>5, <1>6

\* A step that leaves the symbols alone leaves the way through them alone.
LEMMA WalkKept ==
  ASSUME UNCHANGED symbols
  PROVE  /\ Stops' = Stops
         /\ \A addr, rank :
                /\ Walked(addr, rank, slot)' <=> Walked(addr, rank, slot')
                /\ Walked(addr, rank, EndSlot)' <=> Walked(addr, rank, EndSlot)
                /\ Copied(addr, slot)' = Copied(addr, slot')
                /\ Copied(addr, EndSlot)' = Copied(addr, EndSlot)
<1>1. Stops' = Stops
  BY DEF Stops, EndSlot, Bucket
<1>2. ASSUME NEW addr, NEW rank
      PROVE  /\ Walked(addr, rank, slot)' <=> Walked(addr, rank, slot')
             /\ Walked(addr, rank, EndSlot)' <=> Walked(addr, rank, EndSlot)
  BY <1>1 DEF Walked, IsSlot, SymbolAt, Room, One, NextStop, Before, EndSlot
<1>3. ASSUME NEW addr
      PROVE  /\ Copied(addr, slot)' = Copied(addr, slot')
             /\ Copied(addr, EndSlot)' = Copied(addr, EndSlot)
  BY <1>1 DEF Copied, IsSlot, SymbolAt, Before, EndSlot
<1> QED
  BY <1>1, <1>2, <1>3
-----------------------------------------------------------------------------
(***************************************************************************)
(* The writes fit.                                                         *)
(***************************************************************************)

\* What Append does.
LEMMA AppendFacts ==
  ASSUME NEW T, NEW seq \in Seq(T), NEW e
  PROVE  /\ Len(seq) \in Nat
         /\ Len(Append(seq, e)) = Len(seq) + 1
         /\ Append(seq, e)[Len(seq) + 1] = e
         /\ \A n \in 1 .. Len(seq) : Append(seq, e)[n] = seq[n]
  OBVIOUS

\* A write that fits is stored behind the others of its section.
LEMMA WriteStored ==
  ASSUME OutputTypeOK, NEW bytes, NEW len, NEW pos, pos.section \in Sections,
         Fits(len, pos), WriteSectionData(bytes, len, pos)
  PROVE  /\ contents'[pos.section] =
                Append(contents[pos.section],
                       [at |-> pos.offset, len |-> len, bytes |-> bytes])
         /\ \A s \in Sections \ {pos.section} : contents'[s] = contents[s]
         /\ UNCHANGED processVars
  BY DEF OutputTypeOK, WriteSectionData

\* The items fit: instructions are as long as they were counted.
LEMMA ItemsFit ==
  ASSUME TypeInv, ItemsInv
  PROVE  /\ \A k \in DOMAIN instructions :
                /\ instructions[k].position.section \in ProgSections
                /\ EmittedSize[instructions[k].form] = IdataSize[instructions[k].form]
                /\ Fits(EmittedSize[instructions[k].form], instructions[k].position)
         /\ \A k \in DOMAIN dataitems :
                /\ dataitems[k].position.section \in ProgSections
                /\ Fits(dataitems[k].size, dataitems[k].position)
<1>1. ASSUME NEW k \in DOMAIN instructions
      PROVE  /\ instructions[k].position.section \in ProgSections
             /\ EmittedSize[instructions[k].form] = IdataSize[instructions[k].form]
             /\ Fits(EmittedSize[instructions[k].form], instructions[k].position)
  <2> DEFINE item == [list |-> "instructions", index |-> k,
                      position |-> instructions[k].position,
                      len |-> IdataSize[instructions[k].form]]
  <2>1. instructions[k] \in Instruction
    BY DEF TypeInv, TypeOK, BytecodeTypeOK
  <2>2. /\ instructions[k].position.section \in ProgSections
        /\ instructions[k].form \in Forms
    BY <2>1 DEF Instruction, ProgPosition
  <2>3. EmittedSize[instructions[k].form] = IdataSize[instructions[k].form]
    BY <2>2 DEF EmittedSize, IdataSize, UpperSize, LowerSize
  <2>4. item \in Items
    BY DEF Items
  <2>5. item.position.offset + item.len <= size[item.position.section]
    BY <2>2, <2>4 DEF ItemsInv, ItemsEnd
  <2> QED
    BY <2>2, <2>3, <2>5 DEF Fits
<1>2. ASSUME NEW k \in DOMAIN dataitems
      PROVE  /\ dataitems[k].position.section \in ProgSections
             /\ Fits(dataitems[k].size, dataitems[k].position)
  <2> DEFINE item == [list |-> "dataitems", index |-> k,
                      position |-> dataitems[k].position,
                      len |-> dataitems[k].size]
  <2>1. dataitems[k] \in RawData
    BY DEF TypeInv, TypeOK, BytecodeTypeOK
  <2>2. dataitems[k].position.section \in ProgSections
    BY <2>1 DEF RawData, ProgPosition
  <2>3. item \in Items
    BY DEF Items
  <2>4. item.position.offset + item.len <= size[item.position.section]
    BY <2>2, <2>3 DEF ItemsInv, ItemsEnd
  <2> QED
    BY <2>2, <2>4 DEF Fits
<1> QED
  BY <1>1, <1>2

\* Where a loop over the symbols is, as a stop.
LEMMA SlotStops ==
  ASSUME SymbolsTypeOK, slot \in Stops
  PROVE  /\ IsSlot(slot) =>
                /\ slot # EndSlot /\ NextStop(slot) = <<slot[1], slot[2] + 1>>
                /\ Room(slot) = NameSz[SymbolAt(slot).name] /\ One(slot) = 1
         /\ slot[1] \in Bucket /\ ~IsSlot(slot) =>
                /\ slot # EndSlot /\ NextStop(slot) = <<slot[1] + 1, 1>>
                /\ Room(slot) = 0 /\ One(slot) = 0
         /\ slot[1] \notin Bucket => slot = EndSlot
<1>1. EndSlot[1] \notin Bucket /\ ~IsSlot(EndSlot)
  BY StopFacts, SymbolsAssumption DEF EndSlot, Bucket
<1> QED
  BY <1>1, StopFacts DEF NextStop, Room, One

\* The tables fit: the names end where the section names begin, and no entry is
\* behind the last symbol's.
LEMMA TablesFit ==
  ASSUME TypeInv, TableInv
  PROVE  /\ pc = "strtab" /\ slot[1] \notin Bucket =>
                Fits(cursor, [section |-> SECTION_STRTAB, offset |-> 0])
         /\ pc = "names" /\ i < SECTION_COUNT =>
                Fits(SectionNameSz[i], [section |-> SECTION_STRTAB, offset |-> cursor])
         /\ pc = "names" =>
                Fits(SYM_SIZE, [section |-> SECTION_SYMTAB, offset |-> 0])
         /\ pc = "symtab" /\ IsSlot(slot) =>
                Fits(SYM_SIZE, [section |-> SECTION_SYMTAB, offset |-> count * SYM_SIZE])
<1> SUFFICES ASSUME pc \in {"strtab", "names", "symtab"}
             PROVE  /\ pc = "strtab" /\ slot[1] \notin Bucket =>
                        Fits(cursor, [section |-> SECTION_STRTAB, offset |-> 0])
                    /\ pc = "names" /\ i < SECTION_COUNT =>
                        Fits(SectionNameSz[i],
                             [section |-> SECTION_STRTAB, offset |-> cursor])
                    /\ pc = "names" =>
                        Fits(SYM_SIZE, [section |-> SECTION_SYMTAB, offset |-> 0])
                    /\ pc = "symtab" /\ IsSlot(slot) =>
                        Fits(SYM_SIZE,
                             [section |-> SECTION_SYMTAB, offset |-> count * SYM_SIZE])
  OBVIOUS
<1>1. PICK addr \in [Stops -> Nat], rank \in [Stops -> Nat] :
            Walked(addr, rank, EndSlot) /\ Sized(addr, rank) /\ Drawn(addr, rank)
  BY DEF TableInv, Made, Writing
<1>2. SymbolsTypeOK /\ EndSlot \in Stops /\ addr[EndSlot] \in Nat /\ rank[EndSlot] \in Nat
  BY StopFacts DEF TypeInv, TypeOK
<1>3. /\ size[SECTION_STRTAB] = addr[EndSlot] + 29
      /\ size[SECTION_SYMTAB] = (rank[EndSlot] + 1) * 24
  BY <1>1, SectionFacts DEF Sized, SYM_SIZE
<1>4. ASSUME pc = "strtab", slot[1] \notin Bucket
      PROVE  Fits(cursor, [section |-> SECTION_STRTAB, offset |-> 0])
  <2>1. slot = EndSlot
    BY <1>2, <1>4, SlotStops DEF TableInv
  <2>2. cursor = addr[EndSlot]
    BY <1>1, <1>4, <2>1 DEF Drawn
  <2> QED
    BY <1>2, <1>3, <2>2 DEF Fits
<1>5. ASSUME pc = "names", i < SECTION_COUNT
      PROVE  Fits(SectionNameSz[i], [section |-> SECTION_STRTAB, offset |-> cursor])
  <2>1. i \in 0 .. 4 /\ cursor = addr[EndSlot] + NamePrefix[i]
    BY <1>1, <1>5, SectionFacts DEF Drawn
  <2>2. NamePrefix[i] + SectionNameSz[i] <= 29
    <3>1. \A j \in 0 .. 4 : NamePrefix[j] + SectionNameSz[j] <= 29
      BY SectionFacts DEF NamePrefix, SectionNameSz, Sections, ProgSections,
                          SECTION_NULL, SECTION_COUNT, SECTION_TEXT, SECTION_DATA
    <3> QED
      BY <2>1, <3>1
  <2>3. NamePrefix[i] \in Nat /\ SectionNameSz[i] \in Nat
    BY <2>1, PrefixFacts
  <2>4. cursor + SectionNameSz[i] <= size[SECTION_STRTAB]
    BY <1>2, <1>3, <2>1, <2>2, <2>3
  <2> QED
    BY <2>4 DEF Fits
<1>6. Fits(SYM_SIZE, [section |-> SECTION_SYMTAB, offset |-> 0])
  BY <1>2, <1>3 DEF Fits, SYM_SIZE
<1>7. ASSUME pc = "symtab", IsSlot(slot)
      PROVE  Fits(SYM_SIZE, [section |-> SECTION_SYMTAB, offset |-> count * SYM_SIZE])
  <2>1. slot \in Stops /\ count = rank[slot] + 1 /\ rank[slot] \in Nat
    BY <1>1, <1>7 DEF Drawn, TableInv
  <2>2. slot # EndSlot /\ One(slot) = 1
    BY <1>2, <1>7, <2>1, SlotStops
  <2>3. Before(slot, EndSlot) /\ ~Before(EndSlot, EndSlot)
    BY <1>2, <2>1, <2>2, StopFacts, StopOrder
  <2>4. rank[slot] + 1 <= rank[EndSlot]
    BY <1>1, <1>2, <2>1, <2>2, <2>3 DEF Walked
  <2>5. count * 24 + 24 <= size[SECTION_SYMTAB]
    BY <1>2, <1>3, <2>1, <2>4
  <2> QED
    BY <2>5 DEF Fits, SYM_SIZE
<1> QED
  BY <1>4, <1>5, <1>6, <1>7

-----------------------------------------------------------------------------
(***************************************************************************)
(* The steps.                                                              *)
(***************************************************************************)

\* Reading the source writes nothing and does not touch the null section.
LEMMA TableRead ==
  ASSUME TypeInv, TableInv, ReadLine \/ ParseLine
  PROVE  TableInv'
<1>1. /\ pc \in Reading /\ pc' \in {"getl", "line", "copy"}
      /\ UNCHANGED contents
  BY DEF ReadLine, ParseLine, EndOfLine, ParseLabel, ParseGlobal, ParseSection,
         ParseSectionUnknown, ParseAscii, ParseAscizUnquoted, ParseAsciiUnquoted,
         ParseError, ParseAsmSymbol, ParseAsmPlain, AddAsm, Unread, At, Goto, Reading,
         outputVars
<1>2. size'[SECTION_NULL] = size[SECTION_NULL]
  <2>1. ASSUME NEW section \in ProgSections, NEW len, IncOutputSize(section, len)
        PROVE  size'[SECTION_NULL] = size[SECTION_NULL]
    BY <2>1, SectionFacts DEF IncOutputSize, TypeInv, TypeOK, OutputTypeOK
  <2>2. position.section \in ProgSections /\ GetOutputPos.section \in ProgSections
    BY PositionType DEF TypeInv, TypeOK, ControlTypeOK, ProgPosition
  <2>3. \A form, sym : AddAsm(form, sym) => size'[SECTION_NULL] = size[SECTION_NULL]
    BY <2>1, <2>2 DEF AddAsm
  <2>4. \A str, nullterm : ParseAscii(str, nullterm) =>
            size'[SECTION_NULL] = size[SECTION_NULL]
    BY <2>1, <2>2 DEF ParseAscii
  <2> QED
    BY <2>3, <2>4
       DEF ReadLine, ParseLine, EndOfLine, ParseLabel, ParseGlobal, ParseSection,
           ParseSectionUnknown, ParseAscizUnquoted, ParseAsciiUnquoted, ParseError,
           ParseAsmSymbol, ParseAsmPlain, outputVars
<1> QED
  BY <1>1, <1>2 DEF TableInv, Untouched, Made, Writing, Reading

\* The first loop walks from the first stop to the last and sets the sizes.
LEMMA TableCalc ==
  ASSUME TypeInv, TableInv,
         EndOfInput \/ CalcSymbol \/ (pc = "calc" /\ NextBucket) \/ CalcDone
  PROVE  TableInv'
<1>1. SymbolsTypeOK /\ FirstSlot \in Stops
  BY StopFacts DEF TypeInv, TypeOK
<1>2. UNCHANGED <<symbols, contents>> /\ pc \in Reading \cup {"calc"}
  BY DEF EndOfInput, CalcSymbol, NextBucket, CalcDone, symbolVars, outputVars, At,
         Reading
<1>3. Stops' = Stops
  BY <1>2, WalkKept
<1>4. \A s \in Sections : contents'[s] = <<>>
  BY <1>2 DEF TableInv, Untouched
<1>5. ASSUME pc' = "calc", size' = size, slot' \in Stops,
             \E addr, rank \in [Stops -> Nat] :
                Walked(addr, rank, slot') /\ cursor' = addr[slot'] /\ count' = rank[slot']
      PROVE  TableInv'
  <2>1. \E addr, rank \in [Stops -> Nat] :
            Walked(addr, rank, slot)' /\ cursor' = addr[slot'] /\ count' = rank[slot']
    BY <1>2, <1>5, WalkKept
  <2> QED
    BY <1>3, <1>4, <1>5, <2>1 DEF TableInv, Untouched, Made, Writing
<1>6. CASE EndOfInput
  <2>1. pc' = "calc" /\ size' = size /\ slot' = FirstSlot /\ cursor' = 1 /\ count' = 0
    BY <1>6 DEF EndOfInput, Goto, outputVars
  <2> QED
    BY <1>1, <1>5, <2>1, WalkStarts
<1>7. CASE CalcSymbol \/ (pc = "calc" /\ NextBucket)
  <2>1. pc = "calc" /\ pc' = "calc" /\ size' = size /\ slot \in Stops
    BY <1>7 DEF CalcSymbol, NextBucket, At, outputVars, TableInv
  <2>2. PICK addr \in [Stops -> Nat], rank \in [Stops -> Nat] :
            Walked(addr, rank, slot) /\ cursor = addr[slot] /\ count = rank[slot]
    BY <2>1 DEF TableInv
  <2>3. /\ slot # EndSlot /\ slot' = NextStop(slot)
        /\ cursor' = addr[slot] + Room(slot) /\ count' = rank[slot] + One(slot)
    <3>1. CASE CalcSymbol
      BY <1>1, <2>1, <2>2, <3>1, SlotStops DEF CalcSymbol
    <3>2. CASE NextBucket
      <4>1. addr[slot] \in Nat /\ rank[slot] \in Nat
        BY <2>1
      <4> QED
        BY <1>1, <2>1, <2>2, <3>2, <4>1, SlotStops DEF NextBucket
    <3> QED
      BY <1>7, <3>1, <3>2
  <2>4. slot' \in Stops
    BY <1>1, <2>1, <2>3, NextStopFacts
  <2>5. \E a, r \in [Stops -> Nat] :
            Walked(a, r, slot') /\ cursor' = a[slot'] /\ count' = r[slot']
    BY <1>1, <2>1, <2>2, <2>3, WalkOn
  <2> QED
    BY <1>5, <2>1, <2>4, <2>5
<1>8. CASE CalcDone
  <2>1. /\ pc = "calc" /\ pc' = "alloc" /\ slot \in Stops /\ slot[1] \notin Bucket
        /\ slot' = slot /\ info' = count
        /\ size' = [size EXCEPT ![SECTION_STRTAB] = SectionNamesSz + cursor,
                                ![SECTION_SYMTAB] = (count + 1) * SYM_SIZE]
    BY <1>8 DEF CalcDone, At, Goto, TableInv
  <2>2. PICK addr \in [Stops -> Nat], rank \in [Stops -> Nat] :
            Walked(addr, rank, slot) /\ cursor = addr[slot] /\ count = rank[slot]
    BY <2>1 DEF TableInv
  <2>3. slot = EndSlot /\ addr[EndSlot] \in Nat
    BY <1>1, <2>1, SlotStops
  <2>4. /\ size'[SECTION_STRTAB] = SectionNamesSz + cursor
        /\ size'[SECTION_SYMTAB] = (count + 1) * SYM_SIZE
        /\ size'[SECTION_NULL] = size[SECTION_NULL]
    <3>1. size \in [Sections -> Nat]
      BY DEF TypeInv, TypeOK, OutputTypeOK
    <3>2. /\ {SECTION_STRTAB, SECTION_SYMTAB, SECTION_NULL} \subseteq Sections
          /\ SECTION_NULL # SECTION_STRTAB /\ SECTION_NULL # SECTION_SYMTAB
          /\ SECTION_STRTAB # SECTION_SYMTAB
      BY SectionFacts
    <3> DEFINE m == (count + 1) * SYM_SIZE
               n == SectionNamesSz + cursor
    <3>3. size' = [size EXCEPT ![SECTION_STRTAB] = n, ![SECTION_SYMTAB] = m]
      BY <2>1
    <3> HIDE DEF m, n
    <3>4. /\ size'[SECTION_STRTAB] = n /\ size'[SECTION_SYMTAB] = m
          /\ size'[SECTION_NULL] = size[SECTION_NULL]
      BY <3>1, <3>2, <3>3
    <3> QED
      BY <3>4 DEF m, n
  <2>5. Sized(addr, rank)'
    BY <2>1, <2>2, <2>3, <2>4, SectionFacts DEF Sized, EndSlot
  <2>6. Walked(addr, rank, EndSlot)'
    BY <1>2, <2>2, <2>3, WalkKept
  <2>7. Drawn(addr, rank)'
    BY <2>1 DEF Drawn
  <2>8. addr \in [Stops' -> Nat] /\ rank \in [Stops' -> Nat]
    BY <1>3
  <2> QED
    BY <1>4, <2>1, <2>4, <2>5, <2>6, <2>7, <2>8 DEF TableInv, Untouched
<1> QED
  BY <1>6, <1>7, <1>8

\* Behind the first loop a step keeps the walk, and the sizes; what it draws is
\* all there is to show.
LEMMA TableKept ==
  ASSUME TableInv, UNCHANGED <<symbols, size, info>>,
         pc \in Made, pc' \in Made \cup {"copy"}, Untouched',
         pc' \in {"strtab", "symtab"} => slot' \in Stops,
         \A addr, rank \in [Stops -> Nat] :
            Walked(addr, rank, EndSlot) /\ Sized(addr, rank) /\ Drawn(addr, rank) =>
                Drawn(addr, rank)'
  PROVE  TableInv'
<1>1. Stops' = Stops
  BY WalkKept
<1>2. PICK addr \in [Stops -> Nat], rank \in [Stops -> Nat] :
            Walked(addr, rank, EndSlot) /\ Sized(addr, rank) /\ Drawn(addr, rank)
  BY DEF TableInv
<1>3. Walked(addr, rank, EndSlot)' /\ Sized(addr, rank)' /\ Drawn(addr, rank)'
  <2>1. Walked(addr, rank, EndSlot)'
    BY <1>2, WalkKept
  <2>2. Sized(addr, rank)'
    BY <1>2 DEF Sized, EndSlot
  <2> QED
    BY <1>2, <2>1, <2>2
<1>4. addr \in [Stops' -> Nat] /\ rank \in [Stops' -> Nat]
  BY <1>1
<1>5. pc' # "calc" /\ size'[SECTION_NULL] = 0
  BY DEF TableInv, Made, Writing
<1> QED
  BY <1>1, <1>3, <1>4, <1>5 DEF TableInv

\* What the tables hold depends on nothing a step leaves alone.
LEMMA DrawnKept ==
  ASSUME UNCHANGED <<symbols, nameoffset>>,
         contents'[SECTION_STRTAB] = contents[SECTION_STRTAB],
         contents'[SECTION_SYMTAB] = contents[SECTION_SYMTAB]
  PROVE  \A addr, rank :
            /\ \A n : NamesOut(addr, n)' <=> NamesOut(addr, n)
            /\ EntriesOut(addr, rank, slot)' <=> EntriesOut(addr, rank, slot')
<1>1. Stops' = Stops /\ \A addr : Copied(addr, EndSlot)' = Copied(addr, EndSlot)
  BY WalkKept
<1>2. ASSUME NEW addr, NEW n
      PROVE  NamesOut(addr, n)' <=> NamesOut(addr, n)
  <2>1. NamesExtent(addr)' = NamesExtent(addr)
    BY <1>1 DEF NamesExtent, EndSlot
  <2> QED
    BY <2>1 DEF NamesOut, SectionNameExtent, EndSlot
<1>3. ASSUME NEW addr, NEW rank
      PROVE  EntriesOut(addr, rank, slot)' <=> EntriesOut(addr, rank, slot')
  BY <1>1 DEF EntriesOut, IsSlot, Before, SymbolExtent, SymbolAt, BlankExtent,
              SymtabEntry
<1> QED
  BY <1>2, <1>3

\* alloc_output and the loops over the items leave the tables empty.
LEMMA TableItems ==
  ASSUME TypeInv, ItemsInv, TableInv,
         \/ AllocSection \/ AllocDone
         \/ WriteNextInstruction \/ InstructionsDone \/ WriteNextData
  PROVE  TableInv'
<1>1. /\ UNCHANGED <<symbols, size, info>>
      /\ pc \in {"alloc", "instructions", "data"}
      /\ pc' \in {"alloc", "instructions", "data"}
      /\ pc = "instructions" \/ pc = "data" => pc' # "alloc"
      /\ pc' = "alloc" => AllocSection
  BY DEF AllocSection, AllocDone, WriteNextInstruction, InstructionsDone,
         WriteNextData, At, Goto, symbolVars, outputVars
<1>2. ASSUME NEW pos, pos.section \in ProgSections, NEW bytes, NEW len,
             WriteSectionData(bytes, len, pos)
      PROVE  \A s \in Sections \ ProgSections : contents'[s] = contents[s]
  BY <1>2, SectionFacts DEF WriteSectionData, TypeInv, TypeOK, OutputTypeOK
<1>3. pc # "alloc" => \A s \in Sections \ ProgSections : contents'[s] = contents[s]
  <2>1. CASE WriteNextInstruction
    <3>1. i \in DOMAIN instructions
      BY <2>1 DEF WriteNextInstruction, At, TypeInv, TypeOK, BytecodeTypeOK,
                  ControlTypeOK, LoopsFromOne
    <3>2. instructions[i].position.section \in ProgSections
      BY <3>1, ItemsFit
    <3>3. WriteInstruction(instructions[i])
      BY <2>1 DEF WriteNextInstruction
    <3> QED
      BY <1>2, <3>2, <3>3 DEF WriteInstruction, Emit
  <2>2. CASE WriteNextData
    <3>1. i \in DOMAIN dataitems
      BY <2>2 DEF WriteNextData, At, TypeInv, TypeOK, BytecodeTypeOK,
                  ControlTypeOK, LoopsFromOne
    <3>2. dataitems[i].position.section \in ProgSections
      BY <3>1, ItemsFit
    <3>3. WriteData(dataitems[i])
      BY <2>2 DEF WriteNextData
    <3> QED
      BY <1>2, <3>2, <3>3 DEF WriteData
  <2> QED
    BY <2>1, <2>2 DEF AllocSection, AllocDone, InstructionsDone, At, outputVars
<1>4. pc = "alloc" => \A s \in Sections : contents'[s] = <<>>
  BY DEF AllocSection, AllocDone, Allocate, WriteNextInstruction, InstructionsDone,
         WriteNextData, At, TableInv, Untouched, TypeInv, TypeOK, OutputTypeOK
<1>5. {SECTION_STRTAB, SECTION_SYMTAB} \subseteq Sections \ ProgSections
  BY SectionFacts
<1>6. pc' = "alloc" => pc = "alloc"
  BY <1>1
<1>7. \A addr, rank : Drawn(addr, rank) => Drawn(addr, rank)'
  BY <1>1, <1>3, <1>4, <1>5 DEF Drawn
<1> QED
  BY <1>1, <1>4, <1>6, <1>7, TableKept DEF Untouched, Made, Writing, Reading

\* One iteration more of create_symtab_str_buf.
LEMMA CopiedOn ==
  ASSUME SymbolsTypeOK, NEW s \in Stops, s # EndSlot, NEW addr
  PROVE  /\ IsSlot(s) => Copied(addr, NextStop(s)) =
                Copied(addr, s) \cup {[at |-> addr[s], name |-> SymbolAt(s).name]}
         /\ ~IsSlot(s) => Copied(addr, NextStop(s)) = Copied(addr, s)
<1>1. \A t \in Stops : Before(t, NextStop(s)) <=> t = s \/ Before(t, s)
  BY NextStopFacts
<1>2. CASE IsSlot(s)
  <2>1. {t \in Stops : IsSlot(t) /\ Before(t, NextStop(s))} =
            {t \in Stops : IsSlot(t) /\ Before(t, s)} \cup {s}
    BY <1>1, <1>2
  <2> QED
    BY <1>2, <2>1 DEF Copied
<1>3. CASE ~IsSlot(s)
  <2>1. {t \in Stops : IsSlot(t) /\ Before(t, NextStop(s))} =
            {t \in Stops : IsSlot(t) /\ Before(t, s)}
    BY <1>1, <1>3
  <2> QED
    BY <1>3, <2>1 DEF Copied
<1> QED
  BY <1>2, <1>3

\* fill_strtab copies the names to where the first loop counted them.
LEMMA TableNames ==
  ASSUME TypeInv, TableInv,
         \/ DataDone \/ CopyName \/ (pc = "strtab" /\ NextBucket) \/ FillStrtab
         \/ FillSectionName
  PROVE  TableInv'
<1>1. /\ UNCHANGED <<symbols, size, info>>
      /\ pc \in {"data", "strtab", "names"} /\ pc' \in {"strtab", "names"}
  BY DEF DataDone, CopyName, NextBucket, FillStrtab, FillSectionName, At, Goto,
         symbolVars, outputVars
<1>2. SymbolsTypeOK /\ OutputTypeOK /\ FirstSlot \in Stops /\ EndSlot \in Stops
      /\ \A s \in Stops : ~Before(s, FirstSlot)
  BY StopFacts DEF TypeInv, TypeOK
<1>3. ASSUME pc' = "strtab" => slot' \in Stops,
             ASSUME NEW addr \in [Stops -> Nat], NEW rank \in [Stops -> Nat],
                    Walked(addr, rank, EndSlot), Drawn(addr, rank)
             PROVE  Drawn(addr, rank)'
      PROVE  TableInv'
  BY <1>1, <1>3, TableKept DEF Untouched, Made, Writing, Reading
<1>4. CASE DataDone
  <2>1. /\ pc = "data" /\ pc' = "strtab" /\ slot' = FirstSlot /\ cursor' = 1
        /\ strbuf' = {} /\ contents' = contents
    BY <1>4 DEF DataDone, At, Goto, outputVars
  <2>2. ASSUME NEW addr \in [Stops -> Nat], NEW rank \in [Stops -> Nat],
               Walked(addr, rank, EndSlot), Drawn(addr, rank)
        PROVE  Drawn(addr, rank)'
    <3>1. Copied(addr, slot)' = Copied(addr, FirstSlot)
      BY <1>1, <2>1, WalkKept
    <3>2. Copied(addr, FirstSlot) = {} /\ addr[FirstSlot] = 1
      BY <1>2, <2>2 DEF Copied, Walked
    <3> QED
      BY <2>1, <2>2, <3>1, <3>2 DEF Drawn
  <2> QED
    BY <1>2, <1>3, <2>1, <2>2
<1>5. CASE CopyName \/ (pc = "strtab" /\ NextBucket)
  <2>1. /\ pc = "strtab" /\ pc' = "strtab" /\ slot \in Stops /\ contents' = contents
    BY <1>5 DEF CopyName, NextBucket, At, outputVars, TableInv
  <2>2. slot # EndSlot /\ slot' = NextStop(slot)
    BY <1>2, <1>5, <2>1, SlotStops DEF CopyName, NextBucket
  <2>3. slot' \in Stops
    BY <1>2, <2>1, <2>2, NextStopFacts
  <2>4. ASSUME NEW addr \in [Stops -> Nat], NEW rank \in [Stops -> Nat],
               Walked(addr, rank, EndSlot), Drawn(addr, rank)
        PROVE  Drawn(addr, rank)'
    <3>1. cursor = addr[slot] /\ strbuf = Copied(addr, slot)
      BY <2>1, <2>4 DEF Drawn
    <3>2. cursor' = addr[slot] + Room(slot)
      <4>1. addr[slot] \in Nat
        BY <2>1
      <4> QED
        BY <1>2, <1>5, <2>1, <3>1, <4>1, SlotStops DEF CopyName, NextBucket
    <3>3. Before(slot, EndSlot)
      BY <1>2, <2>1, <2>2, StopFacts
    <3>4. cursor' = addr[slot']
      BY <2>1, <2>2, <2>4, <3>2, <3>3 DEF Walked
    <3>5. strbuf' = Copied(addr, slot')
      BY <1>2, <1>5, <2>1, <2>2, <3>1, CopiedOn DEF CopyName, NextBucket
    <3>6. Copied(addr, slot)' = Copied(addr, slot')
      BY <1>1, WalkKept
    <3> QED
      BY <2>1, <2>4, <3>4, <3>5, <3>6 DEF Drawn
  <2> QED
    BY <1>3, <2>3, <2>4
<1>6. CASE FillStrtab
  <2> DEFINE pos == [section |-> SECTION_STRTAB, offset |-> 0]
  <2>1. /\ pc = "strtab" /\ pc' = "names" /\ slot \in Stops /\ slot[1] \notin Bucket
        /\ i' = 0 /\ cursor' = cursor /\ UNCHANGED nameoffset
        /\ WriteSectionData([names |-> strbuf], cursor, pos)
    BY <1>6 DEF FillStrtab, At, Goto, TableInv
  <2>2. slot = EndSlot /\ Fits(cursor, pos)
    BY <1>2, <2>1, SlotStops, TablesFit
  <2>3. pos.section = SECTION_STRTAB /\ pos.offset = 0
        /\ SECTION_STRTAB \in Sections /\ SECTION_SYMTAB \in Sections \ {SECTION_STRTAB}
    BY SectionFacts
  <2> HIDE DEF pos
  <2>4. /\ contents'[SECTION_STRTAB] =
                Append(contents[SECTION_STRTAB],
                       [at |-> 0, len |-> cursor, bytes |-> [names |-> strbuf]])
        /\ contents'[SECTION_SYMTAB] = contents[SECTION_SYMTAB]
    BY <1>2, <2>1, <2>2, <2>3, WriteStored
  <2>5. ASSUME NEW addr \in [Stops -> Nat], NEW rank \in [Stops -> Nat],
               Walked(addr, rank, EndSlot), Drawn(addr, rank)
        PROVE  Drawn(addr, rank)'
    <3>1. /\ cursor = addr[EndSlot] /\ strbuf = Copied(addr, EndSlot)
          /\ contents[SECTION_STRTAB] = <<>> /\ contents[SECTION_SYMTAB] = <<>>
      BY <2>1, <2>2, <2>5 DEF Drawn
    <3>2. NamesExtent(addr)' = [at |-> 0, len |-> cursor, bytes |-> [names |-> strbuf]]
      BY <1>1, <3>1, WalkKept DEF NamesExtent, EndSlot
    <3>3. NamesOut(addr, 0)'
      BY <2>4, <3>1, <3>2 DEF NamesOut
    <3>4. cursor' = addr[EndSlot] + NamePrefix[0]
      BY <1>2, <2>1, <2>5, <3>1, PrefixFacts
    <3> QED
      BY <2>1, <2>4, <3>1, <3>3, <3>4 DEF Drawn, EndSlot
  <2> QED
    BY <1>3, <2>1, <2>5
<1>7. CASE FillSectionName
  <2> DEFINE pos == [section |-> SECTION_STRTAB, offset |-> cursor]
  <2>1. /\ pc = "names" /\ pc' = "names" /\ i \in Nat /\ i < 5
        /\ i' = i + 1 /\ cursor' = cursor + SectionNameSz[i]
        /\ nameoffset' = [nameoffset EXCEPT ![i] = cursor]
        /\ WriteSectionData([sectionname |-> i], SectionNameSz[i], pos)
        /\ i < SECTION_COUNT
    BY <1>7, SectionFacts DEF FillSectionName, At, TypeInv, TypeOK, ControlTypeOK
  <2>2. Fits(SectionNameSz[i], pos)
    BY <2>1, TablesFit
  <2>3. pos.section = SECTION_STRTAB /\ pos.offset = cursor
        /\ SECTION_STRTAB \in Sections /\ SECTION_SYMTAB \in Sections \ {SECTION_STRTAB}
    BY SectionFacts
  <2> HIDE DEF pos
  <2> DEFINE ext == [at |-> cursor, len |-> SectionNameSz[i],
                     bytes |-> [sectionname |-> i]]
  <2>4. /\ contents'[SECTION_STRTAB] = Append(contents[SECTION_STRTAB], ext)
        /\ contents'[SECTION_SYMTAB] = contents[SECTION_SYMTAB]
    BY <1>2, <2>1, <2>2, <2>3, WriteStored
  <2>5. contents[SECTION_STRTAB] \in Seq(Extent) /\ DOMAIN nameoffset = 0 .. 4
    BY <1>2, SectionFacts DEF OutputTypeOK
  <2>6. ASSUME NEW addr \in [Stops -> Nat], NEW rank \in [Stops -> Nat],
               Walked(addr, rank, EndSlot), Drawn(addr, rank)
        PROVE  Drawn(addr, rank)'
    <3>1. /\ cursor = addr[EndSlot] + NamePrefix[i] /\ NamesOut(addr, i)
          /\ contents[SECTION_SYMTAB] = <<>>
      BY <2>1, <2>6 DEF Drawn
    <3>2. ext = SectionNameExtent(addr, i)
      BY <3>1 DEF SectionNameExtent
    <3> HIDE DEF ext
    <3>3. /\ Len(contents'[SECTION_STRTAB]) = i + 2
          /\ contents'[SECTION_STRTAB][i + 2] = SectionNameExtent(addr, i)
          /\ \A n \in 1 .. i + 1 :
                contents'[SECTION_STRTAB][n] = contents[SECTION_STRTAB][n]
      <4> DEFINE old == contents[SECTION_STRTAB]
                 new == contents'[SECTION_STRTAB]
      <4>1. old \in Seq(Extent) /\ Len(old) = i + 1 /\ new = Append(old, ext)
        BY <2>4, <2>5, <3>1 DEF NamesOut
      <4> HIDE DEF old, new
      <4>2. Len(new) = Len(old) + 1 /\ new[Len(old) + 1] = ext
            /\ \A n \in 1 .. Len(old) : new[n] = old[n]
        BY <4>1, AppendFacts
      <4>3. Len(old) + 1 = i + 2
        BY <2>1, <4>1
      <4> QED
        BY <3>2, <4>1, <4>2, <4>3 DEF old, new
    <3>4. NamesExtent(addr)' = NamesExtent(addr)
      BY <1>1, WalkKept DEF NamesExtent, EndSlot
    <3>5. /\ nameoffset'[i] = addr[EndSlot] + NamePrefix[i]
          /\ \A j \in 0 .. i - 1 : nameoffset'[j] = nameoffset[j]
      BY <2>1, <2>5, <3>1
    <3>6. NamesOut(addr, i)'
      <4>1. contents'[SECTION_STRTAB][1] = NamesExtent(addr)
        BY <2>1, <3>1, <3>3 DEF NamesOut
      <4>2. ASSUME NEW j \in 0 .. i
            PROVE  /\ contents'[SECTION_STRTAB][j + 2] = SectionNameExtent(addr, j)
                   /\ nameoffset'[j] = addr[EndSlot] + NamePrefix[j]
        <5>1. CASE j = i
          BY <3>3, <3>5, <5>1
        <5>2. CASE j # i
          <6>1. j \in 0 .. i - 1 /\ j + 2 \in 1 .. i + 1
            BY <2>1, <5>2
          <6> QED
            BY <3>1, <3>3, <3>5, <6>1 DEF NamesOut
        <5> QED
          BY <5>1, <5>2
      <4>3. 0 .. i' - 1 = 0 .. i /\ Len(contents'[SECTION_STRTAB]) = i' + 1
        BY <2>1, <3>3
      <4> QED
        BY <3>4, <4>1, <4>2, <4>3 DEF NamesOut, SectionNameExtent, EndSlot
    <3>7. cursor' = addr[EndSlot] + NamePrefix[i + 1] /\ i' \in 0 .. 5
      <4>1. /\ i \in 0 .. 4 /\ addr[EndSlot] \in Nat /\ NamePrefix[i] \in Nat
            /\ SectionNameSz[i] \in Nat
            /\ NamePrefix[i + 1] = NamePrefix[i] + SectionNameSz[i]
        BY <1>2, <2>1, PrefixFacts
      <4> QED
        BY <2>1, <3>1, <4>1
    <3> QED
      BY <2>1, <2>4, <3>1, <3>6, <3>7 DEF Drawn, EndSlot
  <2> QED
    BY <1>3, <2>1, <2>6
<1> QED
  BY <1>4, <1>5, <1>6, <1>7

\* fill_symtab gives each symbol the entry its rank wants, with the place of its
\* name as fill_strtab chose it.
LEMMA TableEntries ==
  ASSUME TypeInv, TableInv,
         \/ FillSymtabBlank \/ FillSymtabEntry \/ (pc = "symtab" /\ NextBucket)
         \/ FillSymtabDone
  PROVE  TableInv'
<1>1. /\ UNCHANGED <<symbols, size, info, nameoffset>>
      /\ pc \in {"names", "symtab"} /\ pc' \in {"symtab", "flush"}
  BY DEF FillSymtabBlank, FillSymtabEntry, NextBucket, FillSymtabDone, At, Goto,
         symbolVars, outputVars
<1>2. SymbolsTypeOK /\ OutputTypeOK /\ FirstSlot \in Stops /\ EndSlot \in Stops
      /\ \A s \in Stops : ~Before(s, FirstSlot)
  BY StopFacts DEF TypeInv, TypeOK
<1>3. ASSUME pc' = "symtab" => slot' \in Stops,
             ASSUME NEW addr \in [Stops -> Nat], NEW rank \in [Stops -> Nat],
                    Walked(addr, rank, EndSlot), Drawn(addr, rank)
             PROVE  Drawn(addr, rank)'
      PROVE  TableInv'
  BY <1>1, <1>3, TableKept DEF Untouched, Made, Writing, Reading
<1>4. Stops' = Stops
  BY <1>1, WalkKept
<1>5. \A addr : NamesExtent(addr)' = NamesExtent(addr)
  BY <1>1, WalkKept DEF NamesExtent, EndSlot
<1>6. CASE FillSymtabBlank
  <2> DEFINE pos == [section |-> SECTION_SYMTAB, offset |-> 0]
  <2>1. /\ pc = "names" /\ pc' = "symtab" /\ i = 5
        /\ cursor' = 1 /\ count' = 1 /\ slot' = FirstSlot
        /\ WriteSectionData(SymtabEntry(0, 0, 0, 0), SYM_SIZE, pos)
    BY <1>6, SectionFacts DEF FillSymtabBlank, At, Goto
  <2>2. Fits(SYM_SIZE, pos)
    BY <2>1, TablesFit
  <2>3. pos.section = SECTION_SYMTAB /\ pos.offset = 0
        /\ SECTION_SYMTAB \in Sections /\ SECTION_STRTAB \in Sections \ {SECTION_SYMTAB}
    BY SectionFacts
  <2> HIDE DEF pos
  <2>4. /\ contents'[SECTION_SYMTAB] = Append(contents[SECTION_SYMTAB], BlankExtent)
        /\ contents'[SECTION_STRTAB] = contents[SECTION_STRTAB]
    BY <1>2, <2>1, <2>2, <2>3, WriteStored DEF BlankExtent
  <2>5. ASSUME NEW addr \in [Stops -> Nat], NEW rank \in [Stops -> Nat],
               Walked(addr, rank, EndSlot), Drawn(addr, rank)
        PROVE  Drawn(addr, rank)'
    <3>1. NamesOut(addr, 5) /\ contents[SECTION_SYMTAB] = <<>>
      BY <2>1, <2>5 DEF Drawn
    <3>2. NamesOut(addr, 5)'
      BY <1>1, <1>5, <2>4, <3>1 DEF NamesOut, SectionNameExtent, EndSlot
    <3>3. rank[FirstSlot] = 0 /\ addr[FirstSlot] = 1
      BY <2>5 DEF Walked
    <3>4. EntriesOut(addr, rank, slot)'
      <4>1. Len(contents'[SECTION_SYMTAB]) = 1 /\ contents'[SECTION_SYMTAB][1] = BlankExtent
        BY <2>4, <3>1
      <4>2. \A s \in Stops' : ~Before(s, slot')
        BY <1>2, <1>4, <2>1
      <4> QED
        BY <2>1, <3>3, <4>1, <4>2 DEF EntriesOut, Before, BlankExtent, SymtabEntry
    <3> QED
      BY <2>1, <3>2, <3>3, <3>4 DEF Drawn
  <2> QED
    BY <1>2, <1>3, <2>1, <2>5
<1>7. CASE FillSymtabEntry
  <2> DEFINE pos == [section |-> SECTION_SYMTAB, offset |-> count * SYM_SIZE]
             sym == SymbolAt(slot)
             entry == SymtabEntry(cursor, sym.binding, sym.section, sym.value)
  <2>1. /\ pc = "symtab" /\ pc' = "symtab" /\ slot \in Stops /\ IsSlot(slot)
        /\ cursor' = cursor + NameSz[sym.name] /\ count' = count + 1
        /\ WriteSectionData(entry, SYM_SIZE, pos)
    BY <1>7 DEF FillSymtabEntry, At, TableInv
  <2>2. /\ slot # EndSlot /\ slot' = NextStop(slot)
        /\ Room(slot) = NameSz[sym.name] /\ One(slot) = 1
    BY <1>2, <1>7, <2>1, SlotStops DEF FillSymtabEntry
  <2>3. /\ slot' \in Stops /\ Before(slot, EndSlot)
        /\ \A t \in Stops : Before(t, slot') <=> t = slot \/ Before(t, slot)
    BY <1>2, <2>1, <2>2, NextStopFacts, StopFacts
  <2>4. Fits(SYM_SIZE, pos)
    BY <2>1, TablesFit
  <2>5. pos.section = SECTION_SYMTAB /\ pos.offset = count * SYM_SIZE
        /\ SECTION_SYMTAB \in Sections /\ SECTION_STRTAB \in Sections \ {SECTION_SYMTAB}
    BY SectionFacts
  <2> HIDE DEF pos, entry
  <2> DEFINE ext == [at |-> count * SYM_SIZE, len |-> SYM_SIZE, bytes |-> entry]
  <2>6. /\ contents'[SECTION_SYMTAB] = Append(contents[SECTION_SYMTAB], ext)
        /\ contents'[SECTION_STRTAB] = contents[SECTION_STRTAB]
    BY <1>2, <2>1, <2>4, <2>5, WriteStored
  <2>7. contents[SECTION_SYMTAB] \in Seq(Extent)
    BY <1>2, SectionFacts DEF OutputTypeOK
  <2>8. ASSUME NEW addr \in [Stops -> Nat], NEW rank \in [Stops -> Nat],
               Walked(addr, rank, EndSlot), Drawn(addr, rank)
        PROVE  Drawn(addr, rank)'
    <3>1. /\ NamesOut(addr, 5) /\ EntriesOut(addr, rank, slot)
          /\ cursor = addr[slot] /\ count = rank[slot] + 1
      BY <2>1, <2>8 DEF Drawn
    <3>2. NamesOut(addr, 5)'
      BY <1>1, <1>5, <2>6, <3>1 DEF NamesOut, SectionNameExtent, EndSlot
    <3>3. addr[slot'] = addr[slot] + Room(slot) /\ rank[slot'] = rank[slot] + 1
      BY <2>1, <2>2, <2>3, <2>8 DEF Walked
    <3>4. ext = SymbolExtent(addr, rank, slot)
      BY <3>1 DEF SymbolExtent, entry
    <3> HIDE DEF ext
    <3>5. /\ Len(contents'[SECTION_SYMTAB]) = rank[slot] + 2
          /\ contents'[SECTION_SYMTAB][rank[slot] + 2] = SymbolExtent(addr, rank, slot)
          /\ \A n \in 1 .. rank[slot] + 1 :
                contents'[SECTION_SYMTAB][n] = contents[SECTION_SYMTAB][n]
      <4> DEFINE old == contents[SECTION_SYMTAB]
                 new == contents'[SECTION_SYMTAB]
      <4>1. /\ old \in Seq(Extent) /\ Len(old) = rank[slot] + 1
            /\ new = Append(old, ext) /\ rank[slot] \in Nat
        BY <2>1, <2>6, <2>7, <3>1 DEF EntriesOut
      <4> HIDE DEF old, new
      <4>2. Len(new) = Len(old) + 1 /\ new[Len(old) + 1] = ext
            /\ \A n \in 1 .. Len(old) : new[n] = old[n]
        BY <4>1, AppendFacts
      <4>3. Len(old) + 1 = rank[slot] + 2
        BY <4>1
      <4> QED
        BY <3>4, <4>1, <4>2, <4>3 DEF old, new
    <3>6. EntriesOut(addr, rank, slot)'
      <4>1. contents'[SECTION_SYMTAB][1] = BlankExtent
        <5>1. rank[slot] \in Nat
          BY <2>1
        <5>2. 1 \in 1 .. rank[slot] + 1
          BY <5>1
        <5>3. contents[SECTION_SYMTAB][1] = BlankExtent
          BY <3>1 DEF EntriesOut
        <5> QED
          BY <3>5, <5>2, <5>3
      <4>2. ASSUME NEW s \in Stops, IsSlot(s), Before(s, slot')
            PROVE  contents'[SECTION_SYMTAB][rank[s] + 2] = SymbolExtent(addr, rank, s)
        <5>1. CASE s = slot
          BY <3>5, <5>1
        <5>2. CASE s # slot
          <6>1. Before(s, slot)
            BY <2>3, <4>2, <5>2
          <6>2. contents[SECTION_SYMTAB][rank[s] + 2] = SymbolExtent(addr, rank, s)
            BY <3>1, <4>2, <6>1 DEF EntriesOut
          <6>3. ~Before(EndSlot, slot) /\ One(s) = 1
            BY <1>2, <2>1, <2>3, <4>2, StopOrder DEF One
          <6>4. rank[s] + 1 <= rank[slot]
            BY <2>1, <2>8, <6>1, <6>3 DEF Walked
          <6>5. rank[s] + 2 \in 1 .. rank[slot] + 1
            <7>1. rank[s] \in Nat /\ rank[slot] \in Nat
              BY <2>1
            <7> QED
              BY <6>4, <7>1
          <6> QED
            BY <3>5, <6>2, <6>5
        <5> QED
          BY <5>1, <5>2
      <4>3. Len(contents'[SECTION_SYMTAB]) = rank[slot'] + 1
        <5>1. rank[slot] \in Nat
          BY <2>1
        <5> QED
          BY <3>3, <3>5, <5>1
      <4>4. \A s \in Stops : /\ IsSlot(s)' <=> IsSlot(s)
                             /\ SymbolExtent(addr, rank, s)' = SymbolExtent(addr, rank, s)
        BY <1>1 DEF IsSlot, SymbolExtent, SymbolAt, SymtabEntry
      <4> QED
        BY <1>4, <4>1, <4>2, <4>3, <4>4 DEF EntriesOut, Before, BlankExtent, SymtabEntry
    <3>7. cursor' = addr[slot'] /\ count' = rank[slot'] + 1
      BY <2>1, <2>2, <3>1, <3>3
    <3> QED
      BY <2>1, <3>2, <3>6, <3>7 DEF Drawn
  <2> QED
    BY <1>3, <2>3, <2>8
<1>8. CASE pc = "symtab" /\ NextBucket
  <2>1. /\ pc' = "symtab" /\ slot \in Stops /\ slot[1] \in Bucket /\ ~IsSlot(slot)
        /\ slot' = <<slot[1] + 1, 1>> /\ UNCHANGED <<contents, cursor, count>>
    BY <1>8 DEF NextBucket, outputVars, TableInv
  <2>2. slot # EndSlot /\ slot' = NextStop(slot) /\ Room(slot) = 0 /\ One(slot) = 0
    BY <1>2, <2>1, SlotStops
  <2>3. /\ slot' \in Stops /\ Before(slot, EndSlot)
        /\ \A t \in Stops : Before(t, slot') <=> t = slot \/ Before(t, slot)
    BY <1>2, <2>1, <2>2, NextStopFacts, StopFacts
  <2>4. ASSUME NEW addr \in [Stops -> Nat], NEW rank \in [Stops -> Nat],
               Walked(addr, rank, EndSlot), Drawn(addr, rank)
        PROVE  Drawn(addr, rank)'
    <3>1. /\ NamesOut(addr, 5) /\ EntriesOut(addr, rank, slot)
          /\ cursor = addr[slot] /\ count = rank[slot] + 1
      BY <1>8, <2>4 DEF Drawn
    <3>2. NamesOut(addr, 5)'
      BY <1>1, <1>5, <2>1, <3>1 DEF NamesOut, SectionNameExtent, EndSlot
    <3>3. addr[slot'] = addr[slot] + 0 /\ rank[slot'] = rank[slot] + 0
      BY <2>1, <2>2, <2>3, <2>4 DEF Walked
    <3>4. addr[slot'] = addr[slot] /\ rank[slot'] = rank[slot]
      <4>1. addr[slot] \in Nat /\ rank[slot] \in Nat
        BY <2>1
      <4> QED
        BY <3>3, <4>1
    <3>5. \A s \in Stops : /\ IsSlot(s)' <=> IsSlot(s)
                           /\ SymbolExtent(addr, rank, s)' = SymbolExtent(addr, rank, s)
      BY <1>1 DEF IsSlot, SymbolExtent, SymbolAt, SymtabEntry
    <3>6. \A s \in Stops : IsSlot(s) /\ Before(s, slot') => Before(s, slot)
      BY <2>1, <2>3
    <3>7. EntriesOut(addr, rank, slot)'
      BY <1>4, <2>1, <3>1, <3>4, <3>5, <3>6
         DEF EntriesOut, Before, BlankExtent, SymtabEntry
    <3> QED
      BY <1>8, <2>1, <3>1, <3>2, <3>4, <3>7 DEF Drawn
  <2> QED
    BY <1>3, <2>3, <2>4
<1>9. CASE FillSymtabDone
  <2>1. /\ pc = "symtab" /\ pc' = "flush" /\ slot \in Stops /\ slot[1] \notin Bucket
        /\ UNCHANGED <<contents, slot>>
    BY <1>9 DEF FillSymtabDone, At, Goto, outputVars, loopVars, TableInv
  <2>2. slot = EndSlot
    BY <1>2, <2>1, SlotStops
  <2>3. ASSUME NEW addr \in [Stops -> Nat], NEW rank \in [Stops -> Nat],
               Walked(addr, rank, EndSlot), Drawn(addr, rank)
        PROVE  Drawn(addr, rank)'
    <3>1. NamesOut(addr, 5) /\ EntriesOut(addr, rank, slot)
      BY <2>1, <2>3 DEF Drawn
    <3>2. NamesOut(addr, 5)'
      BY <1>1, <1>5, <2>1, <3>1 DEF NamesOut, SectionNameExtent, EndSlot
    <3>3. \A s \in Stops : /\ IsSlot(s)' <=> IsSlot(s)
                           /\ SymbolExtent(addr, rank, s)' = SymbolExtent(addr, rank, s)
      BY <1>1 DEF IsSlot, SymbolExtent, SymbolAt, SymtabEntry
    <3>4. EntriesOut(addr, rank, slot)'
      BY <1>4, <2>1, <3>1, <3>3 DEF EntriesOut, Before, BlankExtent, SymtabEntry
    <3> QED
      BY <2>1, <2>2, <3>2, <3>4 DEF Drawn, EndSlot
  <2> QED
    BY <1>3, <2>1, <2>3
<1> QED
  BY <1>6, <1>7, <1>8, <1>9

\* A step that leaves the output, the symbols and the loops alone leaves the
\* invariant alone.
LEMMA TableSame ==
  ASSUME TableInv, UNCHANGED <<outputVars, symbolVars, pc, loopVars>>
  PROVE  TableInv'
<1>1. /\ UNCHANGED <<symbols, size, info, nameoffset, contents>>
      /\ UNCHANGED <<pc, i, cursor, count, slot, strbuf>>
  BY DEF outputVars, symbolVars, loopVars
<1>2. Stops' = Stops
  BY <1>1, WalkKept
<1>3. Untouched'
  BY <1>1 DEF TableInv, Untouched
<1>4. CASE pc \in Made
  <2>1. ASSUME NEW addr \in [Stops -> Nat], NEW rank \in [Stops -> Nat],
               Walked(addr, rank, EndSlot), Drawn(addr, rank)
        PROVE  Drawn(addr, rank)'
    <3>1. /\ EntriesOut(addr, rank, slot)' <=> EntriesOut(addr, rank, slot)
          /\ Copied(addr, slot)' = Copied(addr, slot)
      BY <1>1, DrawnKept, WalkKept
    <3>2. NamesExtent(addr)' = NamesExtent(addr)
      BY <1>1, WalkKept DEF NamesExtent, EndSlot
    <3>3. /\ NamesOut(addr, i)' <=> NamesOut(addr, i)
          /\ NamesOut(addr, 5)' <=> NamesOut(addr, 5)
      BY <1>1, <3>2 DEF NamesOut, SectionNameExtent, EndSlot
    <3> QED
      BY <1>1, <2>1, <3>1, <3>3 DEF Drawn, EndSlot
  <2>2. pc' \in {"strtab", "symtab"} => slot' \in Stops
    BY <1>1 DEF TableInv
  <2> QED
    BY <1>1, <1>3, <1>4, <2>1, <2>2, TableKept
<1>5. CASE pc = "calc"
  <2>1. \E addr, rank \in [Stops -> Nat] :
            Walked(addr, rank, slot') /\ cursor = addr[slot] /\ count = rank[slot]
    BY <1>1, <1>5 DEF TableInv
  <2>2. \E addr, rank \in [Stops -> Nat] :
            Walked(addr, rank, slot)' /\ cursor' = addr[slot'] /\ count' = rank[slot']
    BY <1>1, <2>1, WalkKept
  <2> QED
    BY <1>1, <1>2, <1>3, <1>5, <2>2 DEF TableInv, Made, Writing
<1>6. CASE pc \notin Made \cup {"calc"}
  BY <1>1, <1>3, <1>6 DEF TableInv, Made, Writing
<1> QED
  BY <1>4, <1>5, <1>6

\* Every step preserves the invariant.
LEMMA TableNext == TypeInv /\ ItemsInv /\ TableInv /\ [Next]_vars => TableInv'
<1> SUFFICES ASSUME TypeInv, ItemsInv, TableInv, [Next]_vars
             PROVE  TableInv'
  OBVIOUS
<1>1. CASE ReadLine \/ ParseLine
  BY <1>1, TableRead
<1>2. CASE NextBucket
  BY <1>2, TableCalc, TableNames, TableEntries DEF NextBucket
<1>3. CASE EndOfInput \/ CalcSymbol \/ CalcDone
  BY <1>3, TableCalc
<1>4. CASE \/ AllocSection \/ AllocDone
           \/ WriteNextInstruction \/ InstructionsDone \/ WriteNextData
  BY <1>4, TableItems
<1>5. CASE DataDone \/ CopyName \/ FillStrtab \/ FillSectionName
  BY <1>5, TableNames
<1>6. CASE FillSymtabBlank \/ FillSymtabEntry \/ FillSymtabDone
  BY <1>6, TableEntries
<1>7. CASE FlushOutput
  <2>1. pc' = "copy" /\ UNCHANGED size
    BY <1>7 DEF FlushOutput, Goto, outputVars
  <2> QED
    BY <2>1 DEF TableInv, Untouched, Made, Writing, Reading
<1>8. CASE CopyFiles \/ XmallocFails \/ MallocFails \/ UNCHANGED vars
  BY <1>8, TableSame DEF CopyFiles, XmallocFails, MallocFails, vars
<1> QED
  BY <1>1, <1>2, <1>3, <1>4, <1>5, <1>6, <1>7, <1>8 DEF Next, Terminated

\* The invariant holds at the start.
LEMMA TableInit == Init => TableInv
<1> SUFFICES ASSUME Init PROVE TableInv
  OBVIOUS
<1>1. /\ pc = "getl" /\ \A s \in Sections : contents[s] = <<>>
      /\ size[SECTION_NULL] = 0
  BY SectionFacts DEF Init, OutputInit
<1> QED
  BY <1>1 DEF TableInv, Untouched, Made, Writing

-----------------------------------------------------------------------------
(* The theorem about NoOverrun.                                            *)

\* A write that fits reports nothing.
LEMMA FitReports ==
  ASSUME NEW bytes, NEW len, NEW pos, Fits(len, pos), WriteSectionData(bytes, len, pos)
  PROVE  UNCHANGED logged
  BY DEF WriteSectionData, processVars

\* A logged diagnostic is this one only if it was logged before or now.
LEMMA LoggerOther ==
  ASSUME NoOverrun, NEW level, NEW id, id # "error_internal", Logger(level, id)
  PROVE  NoOverrun'
  BY DEF NoOverrun, Logger

\* No step makes a write that does not fit.
LEMMA OverrunNext ==
  TypeInv /\ ItemsInv /\ TableInv /\ NoOverrun /\ [Next]_vars => NoOverrun'
<1> SUFFICES ASSUME TypeInv, ItemsInv, TableInv, NoOverrun, [Next]_vars
             PROVE  NoOverrun'
  OBVIOUS
<1>1. ASSUME UNCHANGED logged PROVE NoOverrun'
  BY <1>1 DEF NoOverrun
<1>2. CASE ReadLine \/ ParseLine
  <2>1. \/ UNCHANGED logged
        \/ \E level \in Levels, id \in ErrorIds \ {"error_internal"} : Logger(level, id)
    BY <1>2
       DEF ReadLine, ParseLine, EndOfLine, ParseLabel, ParseGlobal, ParseSection,
           ParseSectionUnknown, ParseAscii, ParseAscizUnquoted, ParseAsciiUnquoted,
           ParseError, ParseAsmSymbol, ParseAsmPlain, AddAsm, processVars, Levels,
           ErrorIds
  <2> QED
    BY <1>1, <2>1, LoggerOther
<1>3. CASE \/ EndOfInput \/ CalcSymbol \/ NextBucket \/ CalcDone
           \/ AllocSection \/ AllocDone \/ InstructionsDone \/ DataDone
           \/ CopyName \/ FillSymtabDone \/ FlushOutput \/ CopyFiles \/ UNCHANGED vars
  BY <1>1, <1>3 DEF EndOfInput, CalcSymbol, NextBucket, CalcDone, AllocSection,
                    AllocDone, InstructionsDone, DataDone, CopyName, FillSymtabDone,
                    FlushOutput, CopyFiles, vars, processVars
<1>4. CASE WriteNextInstruction
  <2>1. i \in DOMAIN instructions /\ WriteInstruction(instructions[i])
    BY <1>4 DEF WriteNextInstruction, At, TypeInv, TypeOK, BytecodeTypeOK,
                ControlTypeOK, LoopsFromOne
  <2>2. ASSUME NEW operand, Emit(instructions[i], operand) PROVE NoOverrun'
    BY <1>1, <2>1, <2>2, ItemsFit, FitReports DEF Emit
  <2>3. Fault => NoOverrun'
    BY <1>1 DEF Fault
  <2> QED
    BY <2>1, <2>2, <2>3, LoggerOther DEF WriteInstruction
<1>5. CASE WriteNextData
  <2>1. i \in DOMAIN dataitems /\ WriteData(dataitems[i])
    BY <1>5 DEF WriteNextData, At, TypeInv, TypeOK, BytecodeTypeOK,
                ControlTypeOK, LoopsFromOne
  <2> QED
    BY <1>1, <2>1, ItemsFit, FitReports DEF WriteData
<1>6. CASE FillStrtab \/ FillSectionName \/ FillSymtabBlank
  BY <1>1, <1>6, TablesFit, FitReports
     DEF FillStrtab, FillSectionName, FillSymtabBlank, At
<1>7. CASE FillSymtabEntry
  BY <1>1, <1>7, TablesFit, FitReports DEF FillSymtabEntry, At
<1>8. CASE XmallocFails \/ MallocFails
  BY <1>1, <1>8, LoggerOther DEF XmallocFails, Die, MallocFails, Fault
<1> QED
  BY <1>2, <1>3, <1>4, <1>5, <1>6, <1>7, <1>8 DEF Next, Terminated

\* Whatever the source, the names, their lengths and the way they hash, no write
\* of an instruction, a string, a name or a symbol reaches past the end of the
\* section sized for it: the check in write_sectiondata never fires.
THEOREM NoOverrunSafe == Spec => []NoOverrun
<1>1. Init => ItemsInv /\ TableInv /\ NoOverrun
  BY ItemsInit, TableInit DEF Init, ProcessInit, NoOverrun
<1> QED
  BY <1>1, TypeInvInit, TypeInvNext, ItemsNext, TableNext, OverrunNext, PTL DEF Spec

-----------------------------------------------------------------------------
(***************************************************************************)
(* The items are written, each once.                                       *)
(***************************************************************************)

\* write_all has passed the item.
Done(item) ==
    IF item.list = "instructions"
    THEN pc = "instructions" => item.index < i
    ELSE pc # "instructions" /\ (pc = "data" => item.index < i)

\* The extent w is where the item is to go in section s.
Fills(item, s, w) ==
    /\ item.position.section = s
    /\ w.at = item.position.offset
    /\ w.len = item.len

Reaches(w, x) == w.at <= x /\ x < w.at + w.len

\* The writes to a section are those of the items passed, and no byte belongs
\* to two of them.
StoredIn(s) ==
    /\ \A w \in DOMAIN contents[s] :
            \E item \in Items : Done(item) /\ Fills(item, s, contents[s][w])
    /\ \A item \in Items : Done(item) /\ item.position.section = s =>
            \E w \in DOMAIN contents[s] : Fills(item, s, contents[s][w])
    /\ \A v, w \in DOMAIN contents[s] : \A x \in Nat :
            Reaches(contents[s][v], x) /\ Reaches(contents[s][w], x) => v = w

\* As long as the process runs: an item that ends it is passed without a write.
StoredInv ==
    Running /\ pc \in Writing \cup {"flush"} => \A s \in ProgSections : StoredIn(s)

\* What an item is filled with reaches the bytes the item is to cover.
LEMMA FillsCovers ==
  ASSUME NEW item, NEW s, NEW w, NEW x, Fills(item, s, w)
  PROVE  Reaches(w, x) <=> Covers(item, s, x)
  BY DEF Fills, Reaches, Covers

\* A step that passes no item and writes to the tables at most.
LEMMA StoredKept ==
  ASSUME StoredInv, UNCHANGED itemVars,
         \A s \in ProgSections : contents'[s] = contents[s],
         Running' => Running,
         pc' \in Writing \cup {"flush"} => pc \in Writing \cup {"flush"},
         \A item \in Items : Done(item)' <=> Done(item)
  PROVE  StoredInv'
<1>1. Items' = Items
  BY DEF itemVars, Items
<1>2. ASSUME NEW s \in ProgSections, StoredIn(s) PROVE StoredIn(s)'
  BY <1>1, <1>2 DEF StoredIn, Fills, Reaches
<1> QED
  BY <1>2 DEF StoredInv

\* A step that passes one item and writes it.
LEMMA ItemStored ==
  ASSUME TypeInv, ItemsEnd, BytesOwned, StoredInv, Running,
         pc \in Writing \cup {"flush"}, UNCHANGED itemVars,
         NEW item \in Items, ~Done(item),
         \A other \in Items : Done(other)' <=> Done(other) \/ other = item,
         NEW bytes,
         contents'[item.position.section] =
            Append(contents[item.position.section],
                   [at |-> item.position.offset, len |-> item.len, bytes |-> bytes]),
         \A s \in Sections \ {item.position.section} : contents'[s] = contents[s]
  PROVE  StoredInv'
<1>1. Items' = Items
  BY DEF itemVars, Items
<1> SUFFICES ASSUME NEW s \in ProgSections PROVE StoredIn(s)'
  BY DEF StoredInv
<1>2. StoredIn(s) /\ s \in Sections
  BY SectionFacts DEF StoredInv
<1>3. CASE s # item.position.section
  <2>1. contents'[s] = contents[s]
    BY <1>2, <1>3
  <2>2. \A other \in Items : other.position.section = s =>
            (Done(other)' <=> Done(other))
    BY <1>3
  <2>3. \A w : \A other \in Items : Fills(other, s, w) => other.position.section = s
    BY DEF Fills
  <2> QED
    BY <1>1, <1>2, <2>1, <2>2, <2>3 DEF StoredIn, Fills, Reaches
<1>4. CASE s = item.position.section
  <2> DEFINE ext == [at |-> item.position.offset, len |-> item.len, bytes |-> bytes]
             old == contents[s]
             new == contents'[s]
  <2>1. old \in Seq(Extent) /\ new = Append(old, ext)
    BY <1>2, <1>4 DEF TypeInv, TypeOK, OutputTypeOK
  <2>2. Fills(item, s, ext)
    BY <1>4 DEF Fills
  <2>3. /\ item.position.offset \in Nat /\ item.len \in Nat /\ size[s] \in Nat
        /\ item.position.offset + item.len <= size[s]
    BY <1>4, ItemType DEF ItemsEnd
  <2> HIDE DEF ext, old, new
  <2>4. /\ DOMAIN old = 1 .. Len(old) /\ Len(old) \in Nat
        /\ DOMAIN new = DOMAIN old \cup {Len(old) + 1}
        /\ Len(old) + 1 \notin DOMAIN old
        /\ new[Len(old) + 1] = ext
        /\ \A w \in DOMAIN old : new[w] = old[w]
    BY <2>1
  <2>5. /\ \A w \in DOMAIN old : \E o \in Items : Done(o) /\ Fills(o, s, old[w])
        /\ \A o \in Items : Done(o) /\ o.position.section = s =>
                \E w \in DOMAIN old : Fills(o, s, old[w])
        /\ \A v, w \in DOMAIN old : \A x \in Nat :
                Reaches(old[v], x) /\ Reaches(old[w], x) => v = w
    BY <1>2 DEF StoredIn, old
  <2>6. \A w \in DOMAIN new : \E o \in Items : Done(o)' /\ Fills(o, s, new[w])
    BY <2>2, <2>4, <2>5
  <2>7. \A o \in Items : Done(o)' /\ o.position.section = s =>
            \E w \in DOMAIN new : Fills(o, s, new[w])
    BY <2>2, <2>4, <2>5
  <2>8. ASSUME NEW w \in DOMAIN old, NEW x \in Nat, Reaches(old[w], x), Reaches(ext, x)
        PROVE  FALSE
    <3>1. PICK o \in Items : Done(o) /\ Fills(o, s, old[w])
      BY <2>5
    <3>2. Covers(o, s, x) /\ Covers(item, s, x)
      BY <2>2, <2>8, <3>1, FillsCovers
    <3>3. x \in 0 .. size[s] - 1
      BY <2>3, <3>2 DEF Covers
    <3>4. o = item
      BY <3>2, <3>3 DEF BytesOwned
    <3> QED
      BY <3>1, <3>4
  <2>9. \A v, w \in DOMAIN new : \A x \in Nat :
            Reaches(new[v], x) /\ Reaches(new[w], x) => v = w
    BY <2>4, <2>5, <2>8
  <2> QED
    BY <1>1, <2>6, <2>7, <2>9 DEF StoredIn, Fills, Reaches, new
<1> QED
  BY <1>3, <1>4

\* An item is told by its list and its index.
LEMMA ItemIndex ==
  ASSUME TypeInv
  PROVE  /\ \A item \in Items :
                /\ item.index \in Nat \ {0}
                /\ item.list = "instructions" => item.index <= Len(instructions)
                /\ item.list # "instructions" => item.index <= Len(dataitems)
         /\ \A item, other \in Items :
                item.list = other.list /\ item.index = other.index => item = other
         /\ Len(instructions) \in Nat /\ Len(dataitems) \in Nat
<1>1. instructions \in Seq(Instruction) /\ dataitems \in Seq(RawData)
  BY DEF TypeInv, TypeOK, BytecodeTypeOK
<1>2. /\ DOMAIN instructions = 1 .. Len(instructions) /\ Len(instructions) \in Nat
      /\ DOMAIN dataitems = 1 .. Len(dataitems) /\ Len(dataitems) \in Nat
  BY <1>1
<1>3. \A item \in Items :
        \/ \E k \in DOMAIN instructions :
            item = [list |-> "instructions", index |-> k,
                    position |-> instructions[k].position,
                    len |-> IdataSize[instructions[k].form]]
        \/ \E k \in DOMAIN dataitems :
            item = [list |-> "dataitems", index |-> k,
                    position |-> dataitems[k].position,
                    len |-> dataitems[k].size]
  BY DEF Items
<1>4. \A item \in Items :
        \/ /\ item.list = "instructions" /\ item.index \in DOMAIN instructions
           /\ item = [list |-> "instructions", index |-> item.index,
                      position |-> instructions[item.index].position,
                      len |-> IdataSize[instructions[item.index].form]]
        \/ /\ item.list = "dataitems" /\ item.index \in DOMAIN dataitems
           /\ item = [list |-> "dataitems", index |-> item.index,
                      position |-> dataitems[item.index].position,
                      len |-> dataitems[item.index].size]
  BY <1>3
<1>5. \A item \in Items :
        /\ item.index \in Nat \ {0}
        /\ item.list = "instructions" => item.index <= Len(instructions)
        /\ item.list # "instructions" => item.index <= Len(dataitems)
  BY <1>2, <1>4
<1>6. ASSUME NEW item \in Items, NEW other \in Items,
             item.list = other.list, item.index = other.index
      PROVE  item = other
  <2>1. CASE item.list = "instructions"
    BY <1>4, <1>6, <2>1
  <2>2. CASE item.list = "dataitems"
    BY <1>4, <1>6, <2>2
  <2> QED
    BY <1>4, <2>1, <2>2
<1> QED
  BY <1>2, <1>5, <1>6

\* One iteration of write_all.
LEMMA StoredItem ==
  ASSUME TypeInv, ItemsInv, StoredInv, WriteNextInstruction \/ WriteNextData
  PROVE  StoredInv'
<1>1. /\ Running /\ pc \in Writing /\ pc # "copy" /\ pc' = pc /\ i' = i + 1
      /\ i \in Nat \ {0} /\ UNCHANGED itemVars
  BY DEF WriteNextInstruction, WriteNextData, At, Writing, TypeInv, TypeOK,
         ControlTypeOK, LoopsFromOne
<1>2. BytesOwned /\ ItemsEnd /\ OutputTypeOK
  BY <1>1 DEF ItemsInv, TypeInv, TypeOK
<1>3. \A j \in Nat : j < i + 1 <=> j < i \/ j = i
  BY <1>1
<1>4. ASSUME ~Running' PROVE StoredInv'
  BY <1>4 DEF StoredInv
<1>5. CASE WriteNextInstruction
  <2> DEFINE insn == instructions[i]
             item == [list |-> "instructions", index |-> i,
                      position |-> insn.position, len |-> IdataSize[insn.form]]
  <2>1. pc = "instructions" /\ i \in DOMAIN instructions /\ WriteInstruction(insn)
    BY <1>5 DEF WriteNextInstruction, At, TypeInv, TypeOK, BytecodeTypeOK,
                ControlTypeOK, LoopsFromOne
  <2>2. item \in Items /\ item.list = "instructions" /\ item.index = i
        /\ item.position = insn.position /\ item.len = IdataSize[insn.form]
    BY <2>1 DEF Items
  <2>3. /\ insn.position.section \in ProgSections
        /\ EmittedSize[insn.form] = IdataSize[insn.form]
        /\ Fits(EmittedSize[insn.form], insn.position)
    BY <2>1, ItemsFit
  <2> HIDE DEF item, insn
  <2>4. ~Done(item)
    BY <1>1, <2>1, <2>2 DEF Done
  <2>5. \A other \in Items : Done(other)' <=> Done(other) \/ other = item
    BY <1>1, <1>3, <2>1, <2>2, ItemIndex DEF Done
  <2>6. ASSUME NEW operand, Emit(insn, operand) PROVE StoredInv'
    <3> DEFINE bytes == [form |-> insn.form, operand |-> operand]
    <3>1. WriteSectionData(bytes, EmittedSize[insn.form], insn.position)
      BY <2>6 DEF Emit
    <3>2. insn.position.section \in Sections
      BY <2>3, SectionFacts
    <3> HIDE DEF bytes
    <3>3. /\ contents'[insn.position.section] =
                Append(contents[insn.position.section],
                       [at |-> insn.position.offset, len |-> EmittedSize[insn.form],
                        bytes |-> bytes])
          /\ \A s \in Sections \ {insn.position.section} : contents'[s] = contents[s]
      BY <1>2, <2>3, <3>1, <3>2, WriteStored
    <3>4. /\ contents'[item.position.section] =
                Append(contents[item.position.section],
                       [at |-> item.position.offset, len |-> item.len, bytes |-> bytes])
          /\ \A s \in Sections \ {item.position.section} : contents'[s] = contents[s]
      BY <2>2, <2>3, <3>3
    <3> QED
      BY <1>1, <1>2, <2>2, <2>4, <2>5, <3>4, ItemStored
  <2>7. ASSUME NEW id, Logger("ERROR", id) \/ Fault PROVE ~Running'
    BY <2>7 DEF Logger, Fatal, Fault, Running
  <2> QED
    BY <1>4, <2>1, <2>6, <2>7 DEF WriteInstruction
<1>6. CASE WriteNextData
  <2> DEFINE data == dataitems[i]
             item == [list |-> "dataitems", index |-> i,
                      position |-> data.position, len |-> data.size]
             bytes == [str |-> data.str, nullterm |-> data.nullterm]
  <2>1. pc = "data" /\ i \in DOMAIN dataitems /\ WriteData(data)
    BY <1>6 DEF WriteNextData, At, TypeInv, TypeOK, BytecodeTypeOK,
                ControlTypeOK, LoopsFromOne
  <2>2. item \in Items /\ item.list = "dataitems" /\ item.index = i
        /\ item.position = data.position /\ item.len = data.size
    BY <2>1 DEF Items
  <2>3. data.position.section \in ProgSections /\ Fits(data.size, data.position)
    BY <2>1, ItemsFit
  <2>4. \A other \in Items : other.list = "instructions" \/ other.list = item.list
    BY <2>2 DEF Items
  <2>5. WriteSectionData(bytes, data.size, data.position)
    BY <2>1 DEF WriteData
  <2>6. data.position.section \in Sections
    BY <2>3, SectionFacts
  <2> HIDE DEF item, data, bytes
  <2>7. ~Done(item)
    BY <1>1, <2>1, <2>2 DEF Done
  <2>8. \A other \in Items : Done(other)' <=> Done(other) \/ other = item
    BY <1>1, <1>3, <2>1, <2>2, <2>4, ItemIndex DEF Done
  <2>9. /\ contents'[data.position.section] =
                Append(contents[data.position.section],
                       [at |-> data.position.offset, len |-> data.size, bytes |-> bytes])
        /\ \A s \in Sections \ {data.position.section} : contents'[s] = contents[s]
    BY <1>2, <2>3, <2>5, <2>6, WriteStored
  <2> QED
    BY <1>1, <1>2, <2>2, <2>7, <2>8, <2>9, ItemStored
<1> QED
  BY <1>5, <1>6

\* Every step preserves the invariant.
LEMMA StoredNext ==
  TypeInv /\ ItemsInv /\ TableInv /\ StoredInv /\ [Next]_vars => StoredInv'
<1> SUFFICES ASSUME TypeInv, ItemsInv, TableInv, StoredInv, [Next]_vars
             PROVE  StoredInv'
  OBVIOUS
<1>1. ASSUME pc' \notin Writing \cup {"flush"} PROVE StoredInv'
  BY <1>1 DEF StoredInv
<1>2. CASE ReadLine \/ ParseLine \/ EndOfInput
  BY <1>1, <1>2, ReadingOutside
<1>3. CASE CalcSymbol \/ CalcDone \/ AllocSection \/ FlushOutput
  BY <1>1, <1>3 DEF CalcSymbol, CalcDone, AllocSection, FlushOutput, At, Goto, Writing
<1>4. CASE AllocDone
  <2>1. /\ pc = "alloc" /\ pc' = "instructions" /\ i' = 1
        /\ UNCHANGED <<contents, itemVars>>
    BY <1>4 DEF AllocDone, At, Goto
  <2>2. Items' = Items
    BY <2>1 DEF Items, itemVars
  <2>3. \A item \in Items : ~Done(item)'
    BY <2>1, ItemIndex DEF Done
  <2>4. \A s \in ProgSections : contents'[s] = <<>>
    BY <2>1, SectionFacts DEF TableInv, Untouched
  <2> QED
    BY <2>2, <2>3, <2>4 DEF StoredInv, StoredIn
<1>5. CASE InstructionsDone
  <2>1. /\ pc = "instructions" /\ pc' = "data" /\ i' = 1 /\ i > Len(instructions)
        /\ i \in Nat /\ UNCHANGED <<status, contents, itemVars>>
    BY <1>5 DEF InstructionsDone, At, Goto, outputVars, processVars, TypeInv, TypeOK,
                ControlTypeOK
  <2>2. \A item \in Items : Done(item)' <=> Done(item)
    BY <2>1, ItemIndex DEF Done
  <2> QED
    BY <2>1, <2>2, StoredKept DEF Running, Writing
<1>6. CASE DataDone
  <2>1. /\ pc = "data" /\ pc' = "strtab" /\ i > Len(dataitems)
        /\ i \in Nat /\ UNCHANGED <<status, contents, itemVars>>
    BY <1>6 DEF DataDone, At, Goto, outputVars, processVars, TypeInv, TypeOK,
                ControlTypeOK
  <2>2. \A item \in Items : Done(item)' <=> Done(item)
    BY <2>1, ItemIndex DEF Done
  <2> QED
    BY <2>1, <2>2, StoredKept DEF Running, Writing
<1>7. CASE WriteNextInstruction \/ WriteNextData
  BY <1>7, StoredItem
<1>8. CASE \/ CopyName \/ FillStrtab \/ FillSectionName \/ FillSymtabBlank
           \/ FillSymtabEntry \/ FillSymtabDone
           \/ (pc \in {"strtab", "symtab"} /\ NextBucket)
  <2>1. /\ Running /\ pc \in {"strtab", "names", "symtab"}
        /\ pc' \in {"strtab", "names", "symtab", "flush"} /\ UNCHANGED itemVars
    BY <1>8 DEF CopyName, FillStrtab, FillSectionName, FillSymtabBlank,
                FillSymtabEntry, FillSymtabDone, NextBucket, At, Goto
  <2>2. \A s \in ProgSections : contents'[s] = contents[s]
    <3>1. ASSUME NEW bytes, NEW len, NEW pos,
                 pos.section \in {SECTION_STRTAB, SECTION_SYMTAB},
                 WriteSectionData(bytes, len, pos)
          PROVE  \A s \in ProgSections : contents'[s] = contents[s]
      <4>1. \A s \in ProgSections : s \in Sections /\ s # pos.section
        BY <3>1, SectionFacts
      <4>2. DOMAIN contents = Sections
        BY DEF TypeInv, TypeOK, OutputTypeOK
      <4> QED
        BY <3>1, <4>1, <4>2 DEF WriteSectionData
    <3> QED
      BY <1>8, <3>1 DEF CopyName, FillStrtab, FillSectionName, FillSymtabBlank,
                        FillSymtabEntry, FillSymtabDone, NextBucket, outputVars
  <2>3. \A item \in Items : Done(item)' <=> Done(item)
    BY <2>1 DEF Done
  <2> QED
    BY <2>1, <2>2, <2>3, StoredKept DEF Writing
<1>9. CASE pc = "calc" /\ NextBucket
  BY <1>1, <1>9 DEF NextBucket, Writing
<1>10. CASE CopyFiles \/ XmallocFails \/ MallocFails \/ UNCHANGED vars
  <2>1. UNCHANGED <<contents, itemVars, pc, i>>
    BY <1>10 DEF CopyFiles, XmallocFails, MallocFails, vars, outputVars, loopVars
  <2>2. Running' => Running
    BY <1>10 DEF CopyFiles, XmallocFails, MallocFails, At, Running, vars, processVars
  <2>3. \A item \in Items : Done(item)' <=> Done(item)
    BY <2>1 DEF Done
  <2> QED
    BY <2>1, <2>2, <2>3, StoredKept
<1> QED
  BY <1>2, <1>3, <1>4, <1>5, <1>6, <1>7, <1>8, <1>9, <1>10 DEF Next, Terminated, NextBucket

-----------------------------------------------------------------------------
(***************************************************************************)
(* The theorem about ObjectComplete.                                       *)
(***************************************************************************)

\* The writes that reach a byte of the object about to be flushed.
Writers(s, x) == {w \in DOMAIN contents[s] : Reaches(contents[s][w], x)}

LEMMA WritersOfImage ==
  \A s, x : Text!WritesTo(Image, s, x) = Writers(s, x)
  BY DEF Text!WritesTo, Image, Writers, Reaches

\* Behind the names of the symbols, all in one write, each section name has its
\* own.
LEMMA StrtabWriters ==
  ASSUME OutputTypeOK, NEW addr, addr[EndSlot] \in Nat, NamesOut(addr, 5)
  PROVE  /\ \A x \in 0 .. addr[EndSlot] - 1 : Writers(SECTION_STRTAB, x) = {1}
         /\ \A j \in 0 .. 4 : \A n \in 0 .. SectionNameSz[j] - 1 :
                Writers(SECTION_STRTAB, addr[EndSlot] + NamePrefix[j] + n) = {j + 2}
<1> DEFINE tab == contents[SECTION_STRTAB]
           end == addr[EndSlot]
<1>1. DOMAIN tab = 1 .. 6 /\ end \in Nat
  <2>1. tab \in Seq(Extent)
    BY SectionFacts DEF OutputTypeOK
  <2> QED
    BY <2>1 DEF NamesOut
<1>2. /\ tab[1].at = 0 /\ tab[1].len = end
      /\ \A j \in 0 .. 4 : /\ tab[j + 2].at = end + NamePrefix[j]
                           /\ tab[j + 2].len = SectionNameSz[j]
  BY DEF NamesOut, NamesExtent, SectionNameExtent
<1>3. \A s, x : Writers(s, x) = {w \in DOMAIN contents[s] : Reaches(contents[s][w], x)}
  BY DEF Writers
<1>4. \A w \in 1 .. 6 : w = 1 \/ \E j \in 0 .. 4 : w = j + 2
  <2> SUFFICES ASSUME NEW w \in 1 .. 6, w # 1 PROVE \E j \in 0 .. 4 : w = j + 2
    OBVIOUS
  <2>1. w - 2 \in 0 .. 4 /\ w = (w - 2) + 2
    OBVIOUS
  <2> QED
    BY <2>1
<1>5. \A j \in 0 .. 4 : j + 2 \in 1 .. 6 /\ j + 2 # 1
  OBVIOUS
<1> HIDE DEF tab, end
<1>6. ASSUME NEW x \in 0 .. end - 1 PROVE {w \in DOMAIN tab : Reaches(tab[w], x)} = {1}
  <2>1. Reaches(tab[1], x)
    BY <1>1, <1>2 DEF Reaches
  <2>2. \A j \in 0 .. 4 : ~Reaches(tab[j + 2], x)
    BY <1>1, <1>2, PrefixFacts DEF Reaches
  <2> QED
    BY <1>1, <1>4, <2>1, <2>2
<1>7. ASSUME NEW j \in 0 .. 4, NEW n \in 0 .. SectionNameSz[j] - 1
      PROVE  {w \in DOMAIN tab : Reaches(tab[w], end + NamePrefix[j] + n)} = {j + 2}
  <2> DEFINE x == end + NamePrefix[j] + n
  <2>1. /\ NamePrefix[j] \in Nat /\ SectionNameSz[j] \in Nat
        /\ n \in Nat /\ n < SectionNameSz[j]
    BY PrefixFacts
  <2>2. Reaches(tab[j + 2], x) /\ ~Reaches(tab[1], x)
    BY <1>1, <1>2, <2>1 DEF Reaches
  <2>3. ASSUME NEW k \in 0 .. 4, k # j PROVE ~Reaches(tab[k + 2], x)
    <3>1. /\ NamePrefix[k] \in Nat /\ SectionNameSz[k] \in Nat
          /\ j < k => NamePrefix[j] + SectionNameSz[j] <= NamePrefix[k]
          /\ k < j => NamePrefix[k] + SectionNameSz[k] <= NamePrefix[j]
      BY PrefixFacts
    <3>2. j < k \/ k < j
      BY <2>3
    <3> QED
      BY <1>1, <1>2, <2>1, <3>1, <3>2 DEF Reaches
  <2> QED
    BY <1>1, <1>4, <1>5, <2>2, <2>3
<1> QED
  BY <1>3, <1>6, <1>7 DEF tab, end

\* The entries follow one another, the blank one first.
LEMMA SymtabExtents ==
  ASSUME SymbolsTypeOK, OutputTypeOK,
         NEW addr \in [Stops -> Nat], NEW rank \in [Stops -> Nat],
         Walked(addr, rank, EndSlot), EntriesOut(addr, rank, EndSlot)
  PROVE  /\ DOMAIN contents[SECTION_SYMTAB] = 1 .. rank[EndSlot] + 1
         /\ \A w \in 1 .. rank[EndSlot] + 1 :
                /\ contents[SECTION_SYMTAB][w].at = (w - 1) * SYM_SIZE
                /\ contents[SECTION_SYMTAB][w].len = SYM_SIZE
<1> DEFINE tab == contents[SECTION_SYMTAB]
<1>1. EndSlot \in Stops /\ rank[EndSlot] \in Nat
  BY StopFacts
<1>2. DOMAIN tab = 1 .. rank[EndSlot] + 1
  <2>1. tab \in Seq(Extent)
    BY SectionFacts DEF OutputTypeOK
  <2> QED
    BY <2>1 DEF EntriesOut
<1>3. ASSUME NEW w \in 1 .. rank[EndSlot] + 1
      PROVE  tab[w].at = (w - 1) * SYM_SIZE /\ tab[w].len = SYM_SIZE
  <2>1. CASE w = 1
    BY <2>1 DEF EntriesOut, BlankExtent, SYM_SIZE
  <2>2. CASE w # 1
    <3>1. w - 2 \in 0 .. rank[EndSlot] - 1
      BY <1>1, <2>2
    <3>2. PICK s \in Stops : IsSlot(s) /\ Before(s, EndSlot) /\ rank[s] = w - 2
      BY <3>1 DEF Walked
    <3>3. rank[s] + 2 = w /\ rank[s] + 1 = w - 1
      BY <3>1, <3>2
    <3>4. tab[w] = SymbolExtent(addr, rank, s)
      BY <3>2, <3>3 DEF EntriesOut
    <3> QED
      BY <3>3, <3>4 DEF SymbolExtent
  <2> QED
    BY <2>1, <2>2
<1> QED
  BY <1>2, <1>3

LEMMA SymtabWriters ==
  ASSUME SymbolsTypeOK, OutputTypeOK,
         NEW addr \in [Stops -> Nat], NEW rank \in [Stops -> Nat],
         Walked(addr, rank, EndSlot), EntriesOut(addr, rank, EndSlot)
  PROVE  \A x \in 0 .. (rank[EndSlot] + 1) * SYM_SIZE - 1 :
            \E w : Writers(SECTION_SYMTAB, x) = {w}
<1> DEFINE tab == contents[SECTION_SYMTAB]
           n == rank[EndSlot]
<1>1. n \in Nat
  BY StopFacts
<1>2. /\ DOMAIN tab = 1 .. n + 1
      /\ \A w \in 1 .. n + 1 : tab[w].at = (w - 1) * 24 /\ tab[w].len = 24
  BY SymtabExtents DEF SYM_SIZE
<1>3. \A x : Writers(SECTION_SYMTAB, x) = {w \in DOMAIN tab : Reaches(tab[w], x)}
  BY DEF Writers
<1> HIDE DEF tab, n
<1>4. ASSUME NEW x \in 0 .. (n + 1) * 24 - 1
      PROVE  {w \in DOMAIN tab : Reaches(tab[w], x)} = {x \div 24 + 1}
  <2> DEFINE q == x \div 24
  <2>1. q \in Nat /\ 24 * q <= x /\ x < 24 * q + 24
    OBVIOUS
  <2> HIDE DEF q
  <2>2. q + 1 \in 1 .. n + 1
    BY <1>1, <2>1
  <2>3. ASSUME NEW w \in 1 .. n + 1
        PROVE  Reaches(tab[w], x) <=> w = q + 1
    <3>1. Reaches(tab[w], x) <=> (w - 1) * 24 <= x /\ x < (w - 1) * 24 + 24
      BY <1>2 DEF Reaches
    <3>2. (w - 1) * 24 <= x /\ x < (w - 1) * 24 + 24 <=> w = q + 1
      BY <1>1, <2>1
    <3> QED
      BY <3>1, <3>2
  <2> QED
    BY <1>2, <2>2, <2>3 DEF q
<1> QED
  BY <1>3, <1>4 DEF n, SYM_SIZE

\* The invariants, when the last symbol is out, are what the property asks for.
LEMMA StoredGives ==
  TypeInv /\ ItemsInv /\ TableInv /\ StoredInv => ObjectComplete
<1> SUFFICES ASSUME TypeInv, ItemsInv, TableInv, StoredInv, At("flush"),
                    NEW s \in Sections, NEW x \in 0 .. size[s] - 1
             PROVE  Cardinality(Text!WritesTo(Image, s, x)) = 1
  BY DEF ObjectComplete
<1>1. pc = "flush" /\ Running /\ SymbolsTypeOK /\ OutputTypeOK
  BY DEF At, TypeInv, TypeOK
<1>2. PICK addr \in [Stops -> Nat], rank \in [Stops -> Nat] :
            Walked(addr, rank, EndSlot) /\ Sized(addr, rank) /\ Drawn(addr, rank)
  BY <1>1 DEF TableInv, Made
<1>3. /\ NamesOut(addr, 5) /\ EntriesOut(addr, rank, EndSlot)
      /\ addr[EndSlot] \in Nat /\ rank[EndSlot] \in Nat
  BY <1>1, <1>2, StopFacts DEF Drawn
<1>4. ASSUME NEW w, Writers(s, x) = {w}
      PROVE  Cardinality(Text!WritesTo(Image, s, x)) = 1
  <2>1. Text!WritesTo(Image, s, x) = {w}
    BY <1>4, WritersOfImage
  <2>2. Cardinality({w}) = 1
    BY FS_Singleton
  <2> QED
    BY <2>1, <2>2
<1>5. CASE s = SECTION_NULL
  BY <1>5 DEF TableInv
<1>6. CASE s = SECTION_STRTAB
  <2> DEFINE end == addr[EndSlot]
  <2>1. x \in 0 .. end + 29 - 1 /\ end \in Nat
    BY <1>2, <1>3, <1>6, SectionFacts DEF Sized
  <2>2. CASE x < end
    <3>1. x \in 0 .. end - 1
      BY <2>1, <2>2
    <3> QED
      BY <1>1, <1>3, <1>4, <1>6, <3>1, StrtabWriters
  <2>3. CASE x >= end
    <3>1. \E j \in 0 .. 4 : \E n \in 0 .. SectionNameSz[j] - 1 : x - end = NamePrefix[j] + n
      <4> DEFINE y == x - end
      <4>1. y \in 0 .. 28
        BY <2>1, <2>3
      <4> HIDE DEF y
      <4>2. y \in 0 .. 0 \/ y \in 1 .. 8 \/ y \in 9 .. 14 \/ y \in 15 .. 20 \/ y \in 21 .. 28
        BY <4>1
      <4>3. /\ NamePrefix[0] = 0 /\ NamePrefix[1] = 1 /\ NamePrefix[2] = 9
            /\ NamePrefix[3] = 15 /\ NamePrefix[4] = 21
        BY DEF NamePrefix
      <4>4. /\ SectionNameSz[0] = 1 /\ SectionNameSz[1] = 8 /\ SectionNameSz[2] = 6
            /\ SectionNameSz[3] = 6 /\ SectionNameSz[4] = 8
        BY SectionFacts DEF SectionNameSz
      <4>5. ASSUME NEW j \in 0 .. 4, NEW lo, NEW hi, lo \in Nat, hi \in Nat,
                   NamePrefix[j] = lo, SectionNameSz[j] = hi - lo + 1, y \in lo .. hi
            PROVE  \E k \in 0 .. 4 : \E n \in 0 .. SectionNameSz[k] - 1 :
                        y = NamePrefix[k] + n
        <5>1. y - lo \in 0 .. SectionNameSz[j] - 1 /\ y = NamePrefix[j] + (y - lo)
          BY <4>5
        <5> QED
          BY <5>1
      <4>6. \E k \in 0 .. 4 : \E n \in 0 .. SectionNameSz[k] - 1 : y = NamePrefix[k] + n
        <5>1. CASE y \in 0 .. 0
          BY <4>3, <4>4, <4>5, <5>1
        <5>2. CASE y \in 1 .. 8
          BY <4>3, <4>4, <4>5, <5>2
        <5>3. CASE y \in 9 .. 14
          BY <4>3, <4>4, <4>5, <5>3
        <5>4. CASE y \in 15 .. 20
          BY <4>3, <4>4, <4>5, <5>4
        <5>5. CASE y \in 21 .. 28
          BY <4>3, <4>4, <4>5, <5>5
        <5> QED
          BY <4>2, <5>1, <5>2, <5>3, <5>4, <5>5
      <4> QED
        BY <4>6 DEF y
    <3>2. PICK j \in 0 .. 4 : \E n \in 0 .. SectionNameSz[j] - 1 : x - end = NamePrefix[j] + n
      BY <3>1
    <3>3. PICK n \in 0 .. SectionNameSz[j] - 1 : x - end = NamePrefix[j] + n
      BY <3>2
    <3>4. x = end + NamePrefix[j] + n
      <4>1. NamePrefix[j] \in Nat /\ SectionNameSz[j] \in Nat
        BY PrefixFacts
      <4> QED
        BY <2>1, <3>3, <4>1
    <3>5. Writers(SECTION_STRTAB, x) = {j + 2}
      BY <1>1, <1>3, <3>4, StrtabWriters
    <3> QED
      BY <1>4, <1>6, <3>5
  <2> QED
    BY <2>1, <2>2, <2>3
<1>7. CASE s = SECTION_SYMTAB
  <2>1. x \in 0 .. (rank[EndSlot] + 1) * SYM_SIZE - 1
    BY <1>2, <1>7 DEF Sized
  <2> QED
    BY <1>1, <1>2, <1>3, <1>4, <1>7, <2>1, SymtabWriters
<1>8. CASE s \in ProgSections
  <2>1. StoredIn(s) /\ BytesOwned
    BY <1>1, <1>8 DEF StoredInv, ItemsInv
  <2>2. PICK item \in Items : Covers(item, s, x)
    BY <1>8, <2>1 DEF BytesOwned
  <2>3. Done(item) /\ item.position.section = s
    BY <1>1, <2>2 DEF Done, Covers
  <2>4. PICK w \in DOMAIN contents[s] : Fills(item, s, contents[s][w])
    BY <2>1, <2>2, <2>3 DEF StoredIn
  <2>5. Reaches(contents[s][w], x)
    BY <2>2, <2>4, FillsCovers
  <2>6. x \in Nat
    BY <1>8, ItemType
  <2>7. Writers(s, x) = {w}
    BY <2>1, <2>5, <2>6 DEF StoredIn, Writers
  <2> QED
    BY <1>4, <2>7
<1> QED
  BY <1>5, <1>6, <1>7, <1>8, SectionFacts

\* Whatever the source, when flush_output is about to send the object to its
\* stream every byte of every section has been stored, and stored once: malloc
\* hands out the contents uninitialized, and no item, name or symbol is written
\* over another.
THEOREM CompleteSafe == Spec => []ObjectComplete
<1>1. Init => ItemsInv /\ TableInv /\ StoredInv
  BY ItemsInit, TableInit DEF Init, StoredInv, Writing
<1> QED
  BY <1>1, TypeInvInit, TypeInvNext, ItemsNext, TableNext, StoredNext, StoredGives,
     PTL DEF Spec

-----------------------------------------------------------------------------
(***************************************************************************)
(* The names of the source are those in the table.                         *)
(***************************************************************************)

\* The table knows a name if the text read so far uses it, and only then.
NamesInv == \A name \in Name : Known(name) <=> name \in Text!NamesIn(source)

\* The unit mentions the name.
Mentions(u, name) ==
    /\ u.unit \in {"label", "globl", "insn"}
    /\ u.unit = "insn" => u.name # NoSymbol
    /\ u.name = name

\* The names of a text are what its units mention.
LEMMA NamesAreMentioned ==
  ASSUME NEW src
  PROVE  \A name : name \in Text!NamesIn(src) <=>
            \E k \in DOMAIN src : Mentions(src[k], name)
  BY DEF Text!NamesIn, Text!UnitsOf, Text!SymbolRefs, Mentions

LEMMA NamesGrow ==
  ASSUME source \in Seq(Unit), NEW u, source' = Append(source, u)
  PROVE  \A name : name \in Text!NamesIn(source)' <=>
            name \in Text!NamesIn(source) \/ Mentions(u, name)
<1>1. /\ DOMAIN source' = DOMAIN source \cup {Len(source) + 1}
      /\ source'[Len(source) + 1] = u
      /\ \A k \in DOMAIN source : source'[k] = source[k]
  <2> DEFINE T == Unit \cup {u}
  <2>1. source \in Seq(T)
    OBVIOUS
  <2> HIDE DEF T
  <2> QED
    BY <2>1
<1>2. \A name : name \in Text!NamesIn(source') <=>
            \E k \in DOMAIN source' : Mentions(source'[k], name)
  BY NamesAreMentioned
<1>3. Text!NamesIn(source)' = Text!NamesIn(source')
  BY DEF Text!NamesIn, Text!UnitsOf, Text!SymbolRefs
<1> QED
  BY <1>1, <1>2, <1>3, NamesAreMentioned

\* A call makes its name known and no other.
LEMMA CallKnows ==
  ASSUME TypeInv, NEW name \in Name, Calls(name)
  PROVE  \A n \in Name : Known(n)' <=> Known(n) \/ n = name
<1>1. SymbolsTypeOK /\ NamesUnique
  BY DEF TypeInv, TypeOK
<1>2. PICK sym \in Symbol : sym.name = name /\ Put(name, sym)
  BY <1>1, CallPuts DEF Calls
<1>3. /\ \A n \in Name \ {name} : Entries(symbols', n) = Entries(symbols, n)
      /\ Entries(symbols', name) # {}
  BY <1>1, <1>2, PutTable
<1> QED
  BY <1>3 DEF Known, Entries

\* A line with a call mentions the name it is made for.
LEMMA NamesCall ==
  ASSUME TypeInv, NamesInv, NEW name \in Name, Calls(name), NEW u,
         source' = Append(source, u), \A n : Mentions(u, n) <=> n = name
  PROVE  NamesInv'
<1>1. source \in Seq(Unit)
  BY DEF TypeInv, TypeOK, ControlTypeOK
<1> QED
  BY <1>1, NamesGrow, CallKnows DEF NamesInv

\* A line without one mentions none.
LEMMA NamesKept ==
  ASSUME TypeInv, NamesInv, UNCHANGED symbols,
         \/ source' = source
         \/ \E u : source' = Append(source, u) /\ \A n : ~Mentions(u, n)
  PROVE  NamesInv'
<1>1. source \in Seq(Unit)
  BY DEF TypeInv, TypeOK, ControlTypeOK
<1>2. \A n \in Name : Known(n)' <=> Known(n)
  BY DEF Known, Entries
<1>3. \A n : n \in Text!NamesIn(source)' <=> n \in Text!NamesIn(source)
  <2>1. CASE source' = source
    BY <2>1 DEF Text!NamesIn, Text!UnitsOf, Text!SymbolRefs
  <2>2. ASSUME NEW u, source' = Append(source, u), \A n : ~Mentions(u, n)
        PROVE  \A n : n \in Text!NamesIn(source)' <=> n \in Text!NamesIn(source)
    BY <1>1, <2>2, NamesGrow
  <2> QED
    BY <2>1, <2>2
<1> QED
  BY <1>2, <1>3 DEF NamesInv

\* The table starts empty, like the text.
LEMMA NamesInit == Init => NamesInv
<1> SUFFICES ASSUME Init PROVE NamesInv
  OBVIOUS
<1>1. source = <<>> /\ \A h \in Bucket : symbols[h] = <<>>
  BY DEF Init, SymbolsInit
<1>2. \A n : n \notin Text!NamesIn(source)
  BY <1>1, NamesAreMentioned
<1>3. \A n \in Name : ~Known(n)
  BY <1>1, SymbolsAssumption DEF Known, Entries
<1> QED
  BY <1>2, <1>3 DEF NamesInv

\* Every step preserves the link: only labels, .global lines and references in
\* instructions touch the table, and the source is read to its end before the
\* table is used.
LEMMA NamesNext == TypeInv /\ NamesInv /\ [Next]_vars => NamesInv'
<1> SUFFICES ASSUME TypeInv, NamesInv, [Next]_vars
             PROVE  NamesInv'
  OBVIOUS
<1>1. ASSUME NEW name \in Name, ParseLabel(name) PROVE NamesInv'
  <2>1. \A n : Mentions(Text!LabelUnit(name), n) <=> n = name
    BY DEF Mentions, Text!LabelUnit
  <2>2. Calls(name) /\ source' = Append(source, Text!LabelUnit(name))
    BY <1>1, PositionType DEF ParseLabel, Unread, Calls, TypeInv, TypeOK, ProgPosition
  <2> QED
    BY <2>1, <2>2, NamesCall
<1>2. ASSUME NEW name \in Name, ParseGlobal(name) PROVE NamesInv'
  <2>1. \A n : Mentions(Text!GlobalUnit(name), n) <=> n = name
    BY DEF Mentions, Text!GlobalUnit
  <2>2. Calls(name) /\ source' = Append(source, Text!GlobalUnit(name))
    BY <1>2 DEF ParseGlobal, Unread, Calls
  <2> QED
    BY <2>1, <2>2, NamesCall
<1>3. ASSUME NEW form \in SymForms, NEW name \in Name, ParseAsmSymbol(form, name)
      PROVE  NamesInv'
  <2>1. \A n : Mentions(Text!InsnUnit(form, name), n) <=> n = name
    BY SymbolsAssumption DEF Mentions, Text!InsnUnit
  <2>2. Calls(name) /\ source' = Append(source, Text!InsnUnit(form, name))
    BY <1>3 DEF ParseAsmSymbol, Unread, Calls
  <2> QED
    BY <2>1, <2>2, NamesCall
<1>4. ASSUME NEW form \in Forms \ SymForms, ParseAsmPlain(form) PROVE NamesInv'
  <2>1. \A n : ~Mentions(Text!InsnUnit(form, NoSymbol), n)
    BY DEF Mentions, Text!InsnUnit
  <2>2. symbols' = symbols /\ source' = Append(source, Text!InsnUnit(form, NoSymbol))
    BY <1>4 DEF ParseAsmPlain, Unread, symbolVars
  <2> QED
    BY <2>1, <2>2, NamesKept
<1>5. ASSUME NEW section \in ProgSections, ParseSection(section) PROVE NamesInv'
  <2>1. \A n : ~Mentions(Text!SectionUnit(section), n)
    BY DEF Mentions, Text!SectionUnit
  <2>2. symbols' = symbols /\ source' = Append(source, Text!SectionUnit(section))
    BY <1>5 DEF ParseSection, Unread, symbolVars
  <2> QED
    BY <2>1, <2>2, NamesKept
<1>6. ASSUME NEW str \in Strings, NEW nullterm \in BOOLEAN, ParseAscii(str, nullterm)
      PROVE  NamesInv'
  <2>1. \A n : ~Mentions(Text!DataUnit(str, nullterm), n)
    BY DEF Mentions, Text!DataUnit
  <2>2. symbols' = symbols /\ source' = Append(source, Text!DataUnit(str, nullterm))
    BY <1>6 DEF ParseAscii, Unread, symbolVars
  <2> QED
    BY <2>1, <2>2, NamesKept
<1>7. CASE ParseSectionUnknown \/ ParseAscizUnquoted
  <2>1. \A n : ~Mentions(Text!BadUnit, n)
    BY DEF Mentions, Text!BadUnit
  <2>2. symbols' = symbols /\ source' = Append(source, Text!BadUnit)
    BY <1>7 DEF ParseSectionUnknown, ParseAscizUnquoted, Unread, symbolVars
  <2> QED
    BY <2>1, <2>2, NamesKept
<1>8. CASE ReadLine \/ EndOfLine \/ ParseAsciiUnquoted \/ ParseError
  BY <1>8, NamesKept
     DEF ReadLine, EndOfLine, ParseAsciiUnquoted, ParseError, symbolVars, inputVars
<1>9. CASE ~(ReadLine \/ ParseLine)
  <2>1. UNCHANGED <<symbols, source>>
    BY <1>9 DEF Next, EndOfInput, CalcSymbol, NextBucket, CalcDone, AllocSection,
         AllocDone, WriteNextInstruction, InstructionsDone, WriteNextData, DataDone,
         CopyName, FillStrtab, FillSectionName, FillSymtabBlank, FillSymtabEntry,
         FillSymtabDone, FlushOutput, CopyFiles, XmallocFails, MallocFails,
         Terminated, vars, symbolVars, inputVars
  <2> QED
    BY <2>1, NamesKept
<1> QED
  BY <1>1, <1>2, <1>3, <1>4, <1>5, <1>6, <1>7, <1>8, <1>9 DEF ParseLine

-----------------------------------------------------------------------------
(***************************************************************************)
(* The theorem about TablesNamed.                                          *)
(***************************************************************************)

\* The slots with a symbol and the names of the source are the same in number,
\* rank by rank.
LEMMA SlotNames ==
  ASSUME TypeInv, NamesInv
  PROVE  /\ \A s \in Stops : IsSlot(s) => SymbolAt(s).name \in Text!NamesIn(source)
         /\ \A n \in Text!NamesIn(source) :
                \E s \in Stops : IsSlot(s) /\ SymbolAt(s).name = n
         /\ \A s, t \in Stops :
                IsSlot(s) /\ IsSlot(t) /\ SymbolAt(s).name = SymbolAt(t).name => s = t
<1>1. SymbolsTypeOK /\ NamesUnique /\ source \in Seq(Unit)
  BY DEF TypeInv, TypeOK, ControlTypeOK
<1>2. \A s \in Stops : IsSlot(s) =>
        /\ s = <<s[1], s[2]>> /\ s[1] \in Bucket /\ s[2] \in DOMAIN symbols[s[1]]
        /\ SymbolAt(s) = symbols[s[1]][s[2]] /\ SymbolAt(s) \in Symbol
        /\ SymbolAt(s).name \in Name /\ Hash[SymbolAt(s).name] = s[1]
  BY <1>1, StopFacts DEF IsSlot, SymbolAt, NamesUnique, UniqueIn, Symbol
<1>3. ASSUME NEW s \in Stops, IsSlot(s)
      PROVE  SymbolAt(s).name \in Text!NamesIn(source)
  <2>1. s[2] \in Entries(symbols, SymbolAt(s).name)
    BY <1>2, <1>3 DEF Entries
  <2> QED
    BY <1>2, <1>3, <2>1 DEF NamesInv, Known
<1>4. ASSUME NEW n \in Text!NamesIn(source)
      PROVE  \E s \in Stops : IsSlot(s) /\ SymbolAt(s).name = n
  <2>1. n \in Name
    <3>1. PICK k \in DOMAIN source : Mentions(source[k], n)
      BY NamesAreMentioned
    <3>2. source[k] \in Unit
      BY <1>1
    <3> QED
      BY <3>1, <3>2 DEF Mentions, Unit, GoodUnit, Text!LabelUnit, Text!GlobalUnit,
           Text!SectionUnit, Text!DataUnit, Text!InsnUnit, Text!BadUnit
  <2>2. PICK k \in Entries(symbols, n) : TRUE
    BY <2>1 DEF NamesInv, Known
  <2>3. Hash[n] \in Bucket /\ Hash[n] \in Nat
    BY <2>1, SymbolsAssumption DEF Bucket
  <2>4. symbols[Hash[n]] \in Seq(Symbol) /\ k \in DOMAIN symbols[Hash[n]]
        /\ symbols[Hash[n]][k].name = n
    BY <1>1, <2>2, <2>3 DEF SymbolsTypeOK, Entries
  <2>5. k \in Nat /\ k \in 1 .. Len(symbols[Hash[n]]) + 1
    BY <2>4
  <2>6. <<Hash[n], k>> \in Stops
    BY <2>3, <2>5 DEF Stops
  <2>7. IsSlot(<<Hash[n], k>>) /\ SymbolAt(<<Hash[n], k>>).name = n
    BY <2>3, <2>4 DEF IsSlot, SymbolAt
  <2> QED
    BY <2>6, <2>7
<1>5. ASSUME NEW s \in Stops, NEW t \in Stops, IsSlot(s), IsSlot(t),
             SymbolAt(s).name = SymbolAt(t).name
      PROVE  s = t
  <2>1. s[1] = t[1]
    BY <1>2, <1>5
  <2>2. s[2] = t[2]
    BY <1>1, <1>2, <1>5, <2>1 DEF NamesUnique, UniqueIn
  <2> QED
    BY <1>2, <1>5, <2>1, <2>2
<1> QED
  BY <1>3, <1>4, <1>5

\* Two symbols have neither a rank nor a place in .strtab in common.
LEMMA WalkDistinct ==
  ASSUME SymbolsTypeOK,
         NEW addr \in [Stops -> Nat], NEW rank \in [Stops -> Nat],
         Walked(addr, rank, EndSlot)
  PROVE  /\ \A s, t \in Stops : IsSlot(s) /\ IsSlot(t) =>
                (rank[s] = rank[t] => s = t) /\ (addr[s] = addr[t] => s = t)
         /\ \A s \in Stops : IsSlot(s) =>
                /\ Before(s, EndSlot)
                /\ rank[s] < rank[EndSlot] /\ addr[s] < addr[EndSlot]
<1>1. EndSlot \in Stops /\ \A s \in Stops : ~Before(EndSlot, s)
  <2>1. EndSlot \in Stops /\ \A s \in Stops : s = EndSlot \/ Before(s, EndSlot)
    BY StopFacts
  <2> QED
    BY <2>1, StopOrder
<1>2. \A s \in Stops : IsSlot(s) =>
        Before(s, EndSlot) /\ Room(s) \in Nat /\ Room(s) >= 1 /\ One(s) = 1
  BY StopFacts DEF One
<1>3. ASSUME NEW s \in Stops, NEW t \in Stops, IsSlot(s), Before(s, t)
      PROVE  rank[s] < rank[t] /\ addr[s] < addr[t]
  <2>1. addr[s] + Room(s) <= addr[t] /\ rank[s] + One(s) <= rank[t]
    BY <1>1, <1>3 DEF Walked
  <2> QED
    BY <1>2, <1>3, <2>1
<1>4. ASSUME NEW s \in Stops, NEW t \in Stops, IsSlot(s), IsSlot(t),
             rank[s] = rank[t] \/ addr[s] = addr[t]
      PROVE  s = t
  <2>1. ~Before(s, t) /\ ~Before(t, s)
    BY <1>3, <1>4
  <2> QED
    BY <2>1, StopOrder
<1> QED
  BY <1>1, <1>2, <1>3, <1>4

\* So the last rank is the number of names.
LEMMA NamesCounted ==
  ASSUME TypeInv, NamesInv,
         NEW addr \in [Stops -> Nat], NEW rank \in [Stops -> Nat],
         Walked(addr, rank, EndSlot)
  PROVE  Cardinality(Text!NamesIn(source)) = rank[EndSlot]
<1> DEFINE names == Text!NamesIn(source)
           R == rank[EndSlot]
           at(r) == CHOOSE s \in Stops : IsSlot(s) /\ rank[s] = r - 1
           f == [r \in 1 .. R |-> SymbolAt(at(r)).name]
<1>1. SymbolsTypeOK /\ R \in Nat
  <2>1. SymbolsTypeOK
    BY DEF TypeInv, TypeOK
  <2> QED
    BY <2>1, StopFacts
<1>2. \A s \in Stops : IsSlot(s) => rank[s] \in Nat /\ rank[s] < R
  BY <1>1, WalkDistinct
<1>3. ASSUME NEW r \in 1 .. R
      PROVE  at(r) \in Stops /\ IsSlot(at(r)) /\ rank[at(r)] = r - 1
  <2>1. r - 1 \in 0 .. R - 1
    BY <1>1
  <2>2. \E s \in Stops : IsSlot(s) /\ rank[s] = r - 1
    BY <2>1 DEF Walked
  <2> QED
    BY <2>2
<1> HIDE DEF at, R, names
<1>4. f \in [1 .. R -> names]
  BY <1>3, SlotNames DEF names
<1>5. \A q, r \in 1 .. R : f[q] = f[r] => q = r
  <2> SUFFICES ASSUME NEW q \in 1 .. R, NEW r \in 1 .. R, f[q] = f[r]
               PROVE  q = r
    OBVIOUS
  <2>1. at(q) = at(r)
    BY <1>3, SlotNames
  <2>2. q - 1 = r - 1
    BY <1>3, <2>1
  <2> QED
    BY <1>1, <2>2
<1>6. \A n \in names : \E r \in 1 .. R : f[r] = n
  <2> SUFFICES ASSUME NEW n \in names PROVE \E r \in 1 .. R : f[r] = n
    OBVIOUS
  <2>1. PICK s \in Stops : IsSlot(s) /\ SymbolAt(s).name = n
    BY SlotNames DEF names
  <2> DEFINE r == rank[s] + 1
  <2>2. r \in 1 .. R /\ r - 1 = rank[s]
    BY <1>1, <1>2, <2>1
  <2>3. at(r) = s
    BY <1>1, <1>3, <2>1, <2>2, WalkDistinct
  <2> HIDE DEF r
  <2> QED
    BY <2>1, <2>2, <2>3
<1> HIDE DEF f
<1>7. f \in Bijection(1 .. R, names)
  BY <1>4, <1>5, <1>6 DEF Bijection, Injection, Surjection, IsInjective
<1>8. ExistsBijection(1 .. R, names)
  BY <1>7 DEF ExistsBijection
<1>9. IsFiniteSet(1 .. R) /\ Cardinality(1 .. R) = R
  <2>1. 1 \in Int /\ R \in Int
    BY <1>1
  <2>2. IsFiniteSet(1 .. R) /\ Cardinality(1 .. R) = IF 1 > R THEN 0 ELSE R - 1 + 1
    BY <2>1, FS_Interval
  <2> QED
    BY <1>1, <2>2
<1>10. Cardinality(names) = Cardinality(1 .. R)
  BY <1>8, <1>9, FS_Bijection
<1> QED
  BY <1>9, <1>10 DEF names, R

\* What was stored at a byte that one write reaches.
LEMMA LastOfOne ==
  ASSUME NEW s, NEW x, NEW w \in Nat, Writers(s, x) = {w}
  PROVE  Text!LastWrite(Image, s, x) = {contents[s][w]}
<1>1. Text!WritesTo(Image, s, x) = {w}
  BY WritersOfImage
<1>2. Image.contents = contents
  BY DEF Image
<1> QED
  BY <1>1, <1>2 DEF Text!LastWrite

\* What fill_symtab gives as the place of a name is where fill_strtab put it.
LEMMA NameFound ==
  ASSUME TypeInv, NamesInv,
         NEW addr \in [Stops -> Nat], NEW rank \in [Stops -> Nat],
         Walked(addr, rank, EndSlot), NamesOut(addr, 5),
         NEW s \in Stops, IsSlot(s)
  PROVE  Text!NamesAt(Image, addr[s]) = {SymbolAt(s).name}
<1>1. SymbolsTypeOK /\ OutputTypeOK /\ EndSlot \in Stops /\ addr[EndSlot] \in Nat
  BY StopFacts DEF TypeInv, TypeOK
<1>2. addr[s] \in 0 .. addr[EndSlot] - 1
  BY <1>1, WalkDistinct
<1>3. Text!LastWrite(Image, SECTION_STRTAB, addr[s]) = {NamesExtent(addr)}
  <2>1. Writers(SECTION_STRTAB, addr[s]) = {1}
    BY <1>1, <1>2, StrtabWriters
  <2>2. Text!LastWrite(Image, SECTION_STRTAB, addr[s]) = {contents[SECTION_STRTAB][1]}
    BY <2>1, LastOfOne
  <2> QED
    BY <2>2 DEF NamesOut
<1>4. NamesExtent(addr).at = 0 /\ NamesExtent(addr).bytes.names = Copied(addr, EndSlot)
      /\ "names" \in DOMAIN NamesExtent(addr).bytes
  BY DEF NamesExtent
<1>5. {c \in Copied(addr, EndSlot) : 0 + c.at = addr[s]} =
            {[at |-> addr[s], name |-> SymbolAt(s).name]}
  <2>1. \A c : c \in Copied(addr, EndSlot) <=>
            \E t \in Stops : /\ IsSlot(t) /\ Before(t, EndSlot)
                             /\ c = [at |-> addr[t], name |-> SymbolAt(t).name]
    BY DEF Copied
  <2>2. Before(s, EndSlot)
    BY <1>1, WalkDistinct
  <2>3. \A t \in Stops : IsSlot(t) /\ 0 + addr[t] = addr[s] => t = s
    BY <1>1, WalkDistinct
  <2>4. [at |-> addr[s], name |-> SymbolAt(s).name] \in Copied(addr, EndSlot)
    BY <2>1, <2>2
  <2>5. \A c \in Copied(addr, EndSlot) :
            0 + c.at = addr[s] => c = [at |-> addr[s], name |-> SymbolAt(s).name]
    BY <2>1, <2>3
  <2> QED
    BY <1>2, <2>4, <2>5
<1> HIDE DEF NamesExtent
<1>6. Text!NamesAt(Image, addr[s]) =
        UNION {{b.name : b \in {c \in w.bytes.names : w.at + c.at = addr[s]}} :
               w \in {v \in {NamesExtent(addr)} : "names" \in DOMAIN v.bytes}}
  BY <1>3 DEF Text!NamesAt, Text!SECTION_STRTAB, SECTION_STRTAB
<1>7. {v \in {NamesExtent(addr)} : "names" \in DOMAIN v.bytes} = {NamesExtent(addr)}
  BY <1>4
<1>8. {c \in NamesExtent(addr).bytes.names : NamesExtent(addr).at + c.at = addr[s]} =
            {[at |-> addr[s], name |-> SymbolAt(s).name]}
  BY <1>4, <1>5
<1>9. {b.name : b \in {[at |-> addr[s], name |-> SymbolAt(s).name]}} = {SymbolAt(s).name}
  OBVIOUS
<1> QED
  BY <1>6, <1>7, <1>8, <1>9

\* The invariants, when the last symbol is out, are what the property asks for.
LEMMA NamesGive == TypeInv /\ TableInv /\ NamesInv => TablesNamed
<1> SUFFICES ASSUME TypeInv, TableInv, NamesInv, At("flush")
             PROVE  Text!NamesMatch(source, Image) /\ Text!SectionNamesMatch(Image)
  BY DEF TablesNamed
<1>1. pc = "flush" /\ SymbolsTypeOK /\ OutputTypeOK
  BY DEF At, TypeInv, TypeOK
<1>2. PICK addr \in [Stops -> Nat], rank \in [Stops -> Nat] :
            Walked(addr, rank, EndSlot) /\ Sized(addr, rank) /\ Drawn(addr, rank)
  BY <1>1 DEF TableInv, Made
<1>3. /\ NamesOut(addr, 5) /\ EntriesOut(addr, rank, EndSlot)
      /\ addr[EndSlot] \in Nat /\ rank[EndSlot] \in Nat
  BY <1>1, <1>2, StopFacts DEF Drawn
<1>4. Text!NamesMatch(source, Image)
  <2> DEFINE number == Cardinality(Text!NamesIn(source))
             tab == contents[SECTION_SYMTAB]
  <2>1. number = rank[EndSlot]
    BY <1>2, NamesCounted
  <2> HIDE DEF number, tab
  <2>2. /\ size[SECTION_SYMTAB] = SYM_SIZE * (number + 1)
        /\ info = number
    BY <1>2, <1>3, <2>1 DEF Sized, SYM_SIZE
  <2>3. /\ DOMAIN tab = 1 .. number + 1
        /\ \A w \in 1 .. number + 1 : tab[w].at = (w - 1) * SYM_SIZE
    BY <1>1, <1>2, <1>3, <2>1, SymtabExtents DEF tab
  <2>4. {tab[w].at : w \in DOMAIN tab} = {SYM_SIZE * k : k \in 0 .. number}
    <3>1. ASSUME NEW w \in DOMAIN tab PROVE \E k \in 0 .. number : tab[w].at = SYM_SIZE * k
      <4>1. w - 1 \in 0 .. number /\ tab[w].at = SYM_SIZE * (w - 1)
        BY <1>3, <2>1, <2>3 DEF SYM_SIZE
      <4> QED
        BY <4>1
    <3>2. ASSUME NEW k \in 0 .. number PROVE \E w \in DOMAIN tab : tab[w].at = SYM_SIZE * k
      <4>1. k + 1 \in DOMAIN tab /\ tab[k + 1].at = ((k + 1) - 1) * SYM_SIZE
        BY <1>3, <2>1, <2>3
      <4>2. ((k + 1) - 1) * SYM_SIZE = SYM_SIZE * k
        BY DEF SYM_SIZE
      <4> QED
        BY <4>1, <4>2
    <3> QED
      BY <3>1, <3>2
  <2>5. ASSUME NEW n \in Text!NamesIn(source)
        PROVE  \E w \in DOMAIN tab :
                    tab[w].at # 0 /\ Text!NamesAt(Image, tab[w].bytes.name) = {n}
    <3>1. PICK s \in Stops : IsSlot(s) /\ SymbolAt(s).name = n
      BY SlotNames
    <3>2. Before(s, EndSlot) /\ rank[s] < rank[EndSlot] /\ rank[s] \in Nat
      BY <1>1, <1>2, <3>1, WalkDistinct
    <3>3. rank[s] + 2 \in DOMAIN tab
      BY <1>3, <2>1, <2>3, <3>2
    <3>4. tab[rank[s] + 2] = SymbolExtent(addr, rank, s)
      BY <1>3, <3>1, <3>2 DEF EntriesOut, tab
    <3>5. tab[rank[s] + 2].at # 0 /\ tab[rank[s] + 2].bytes.name = addr[s]
      BY <3>2, <3>4 DEF SymbolExtent, SymtabEntry, SYM_SIZE
    <3>6. Text!NamesAt(Image, addr[s]) = {n}
      BY <1>2, <1>3, <3>1, NameFound
    <3> QED
      BY <3>3, <3>5, <3>6
  <2>6. Text!SymtabWrites(Image) = {tab[w] : w \in DOMAIN tab}
    BY DEF Text!SymtabWrites, Image, tab, Text!SECTION_SYMTAB, SECTION_SYMTAB
  <2>7. {w.at : w \in Text!SymtabWrites(Image)} = {tab[w].at : w \in DOMAIN tab}
    BY <2>6
  <2>8. \A n \in Text!NamesIn(source) : \E w \in Text!SymtabWrites(Image) :
            w.at # 0 /\ Text!NamesAt(Image, w.bytes.name) = {n}
    BY <2>5, <2>6
  <2>9. /\ Image.size[Text!SECTION_SYMTAB] = Text!SYM_SIZE * (number + 1)
        /\ Image.info = number
        /\ {w.at : w \in Text!SymtabWrites(Image)} = {Text!SYM_SIZE * k : k \in 0 .. number}
    <3>1. Text!SYM_SIZE = SYM_SIZE /\ Text!SECTION_SYMTAB = SECTION_SYMTAB
      BY DEF Text!SYM_SIZE, SYM_SIZE, Text!SECTION_SYMTAB, SECTION_SYMTAB
    <3> QED
      BY <2>2, <2>4, <2>7, <3>1 DEF Image
  <2>10. \A S : Text!Cardinality(S) = Cardinality(S)
    BY DEF Text!Cardinality, Cardinality
  <2> QED
    BY <2>8, <2>9, <2>10 DEF Text!NamesMatch, number
<1>5. Text!SectionNamesMatch(Image)
  <2>1. ASSUME NEW s \in Sections
        PROVE  Text!LastWrite(Image, SECTION_STRTAB, nameoffset[s]) =
                    {SectionNameExtent(addr, s)}
               /\ nameoffset[s] = addr[EndSlot] + NamePrefix[s]
    <3>1. s \in 0 .. 4
      BY SectionFacts
    <3>2. nameoffset[s] = addr[EndSlot] + NamePrefix[s]
      BY <1>3, <3>1 DEF NamesOut
    <3>3. contents[SECTION_STRTAB][s + 2] = SectionNameExtent(addr, s)
      BY <1>3, <3>1 DEF NamesOut
    <3>4. 0 \in 0 .. SectionNameSz[s] - 1 /\ NamePrefix[s] \in Nat
      BY <3>1, PrefixFacts
    <3> DEFINE x == addr[EndSlot] + NamePrefix[s]
               w == s + 2
    <3>5. Writers(SECTION_STRTAB, x) = {w}
      <4>1. Writers(SECTION_STRTAB, addr[EndSlot] + NamePrefix[s] + 0) = {s + 2}
        BY <1>1, <1>3, <3>1, <3>4, StrtabWriters
      <4>2. x = addr[EndSlot] + NamePrefix[s] + 0
        BY <1>3, <3>4
      <4> HIDE DEF x
      <4> QED
        BY <4>1, <4>2
    <3>6. w \in Nat
      BY <3>1
    <3> HIDE DEF x, w
    <3>7. Text!LastWrite(Image, SECTION_STRTAB, x) = {contents[SECTION_STRTAB][w]}
      BY <3>5, <3>6, LastOfOne
    <3> QED
      BY <3>2, <3>3, <3>7 DEF x, w
  <2>2. /\ Text!Sections = Sections /\ Text!SECTION_STRTAB = SECTION_STRTAB
        /\ Text!SectionNameSz = SectionNameSz /\ Image.nameoffset = nameoffset
    BY DEF Text!Sections, Sections, Text!SECTION_COUNT, SECTION_COUNT,
           Text!SECTION_STRTAB, SECTION_STRTAB, Text!SectionNameSz, SectionNameSz,
           Text!SECTION_NULL, SECTION_NULL, Text!ProgSections, ProgSections,
           Text!SECTION_TEXT, SECTION_TEXT, Text!SECTION_DATA, SECTION_DATA, Image
  <2> QED
    BY <2>1, <2>2 DEF Text!SectionNamesMatch, SectionNameExtent
<1> QED
  BY <1>4, <1>5

\* Whatever the source and the way its names hash, collide or are left without a
\* label, the symbol table of the object has one entry for each name of the
\* source and none besides, each entry's offset into .strtab is where that name
\* was copied by another loop, and every section header's is that of its section.
THEOREM NamedSafe == Spec => []TablesNamed
<1>1. Init => ItemsInv /\ TableInv /\ NamesInv
  BY ItemsInit, TableInit, NamesInit
<1> QED
  BY <1>1, TypeInvInit, TypeInvNext, ItemsNext, TableNext, NamesNext, NamesGive,
     PTL DEF Spec

=============================================================================
