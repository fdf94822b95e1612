------------------------ MODULE AssemblerObjectProofs ------------------------
(***************************************************************************)
(* The assembler implements ObjectFile.tla, as long as no two names share  *)
(* a bucket and memory suffices.  Five invariants relate the program to    *)
(* the meaning of the text read so far: the section in use and the sizes   *)
(* (PlaceInv), the symbols (EntryInv), the items (UnitsInv), the bytes     *)
(* written (BytesInv), and what is in the two files (EndInv).  They rest   *)
(* on lemmas about that meaning, and those on lemmas about sums.           *)
(* Without either hypothesis: what the instructions and their pointers     *)
(* hold while the table grows (PointersTracked).                           *)
(***************************************************************************)
EXTENDS AssemblerContentProofs, WellFoundedInduction

-----------------------------------------------------------------------------
(***************************************************************************)
(* Sums over finite sets, as the module of folds defines them: a recursion *)
(* over the subsets of the set, which takes out one element at a time.     *)
(***************************************************************************)

\* g is the recursion for the sums of f over the subsets of S.
SumsUp(f, S, g) ==
    g = [s \in SUBSET S |-> IF s = {} THEN 0
                            ELSE LET x == CHOOSE x \in s : TRUE IN f[x] + g[s \ {x}]]

\* The sum of f over S.
Sum(f, S) == (CHOOSE g : SumsUp(f, S, g))[S]

\* The element a sum takes out first.
Taken(s) == CHOOSE x \in s : TRUE

\* What the recursion comes to at every subset.
Recurs(f, S, g) ==
    /\ g[{}] = 0
    /\ \A s \in SUBSET S : s # {} =>
            Taken(s) \in s /\ g[s] = f[Taken(s)] + g[s \ {Taken(s)}]

\* What the recursion says of its values.
LEMMA SumsUpMeans ==
  ASSUME NEW f, NEW S, NEW g, SumsUp(f, S, g)
  PROVE  Recurs(f, S, g)
<1>1. g = [s \in SUBSET S |-> IF s = {} THEN 0 ELSE f[Taken(s)] + g[s \ {Taken(s)}]]
  BY DEF SumsUp, Taken
<1>2. \A s : s # {} => Taken(s) \in s
  BY DEF Taken
<1>3. {} \in SUBSET S
  OBVIOUS
<1> DEFINE G(s) == IF s = {} THEN 0 ELSE f[Taken(s)] + g[s \ {Taken(s)}]
<1>5. \A s \in SUBSET S : g[s] = G(s)
  <2>1. g = [s \in SUBSET S |-> G(s)]
    BY <1>1
  <2> HIDE DEF G
  <2>2. \A s \in SUBSET S : [u \in SUBSET S |-> G(u)][s] = G(s)
    OBVIOUS
  <2> QED
    BY <2>1, <2>2
<1> QED
  BY <1>2, <1>3, <1>5 DEF Recurs

\* Sets of subsets of a finite set have minimal elements.
LEMMA SmallestSet ==
  ASSUME NEW S, IsFiniteSet(S), NEW B \in SUBSET (SUBSET S), B # {}
  PROVE  \E t \in B : \A u \in SUBSET t : u # t => u \notin B
<1>1. IsWellFoundedOn(StrictSubsetOrdering(S), SUBSET S)
  BY FS_StrictSubsetOrderingWellFounded, FS_FiniteSubsetsOfFinite
<1>2. PICK t \in B : \A u \in B : <<u, t>> \notin StrictSubsetOrdering(S)
  BY <1>1, WFMin
<1>3. ASSUME NEW u \in SUBSET t, u # t, u \in B PROVE FALSE
  <2>1. <<u, t>> \in (SUBSET S) \X (SUBSET S)
    BY <1>3
  <2>2. <<u, t>>[1] \subseteq <<u, t>>[2] /\ <<u, t>>[1] # <<u, t>>[2]
    BY <1>3
  <2>3. <<u, t>> \in StrictSubsetOrdering(S)
    BY <2>1, <2>2 DEF StrictSubsetOrdering
  <2> QED
    BY <1>2, <1>3, <2>3
<1> QED
  BY <1>2, <1>3

\* Two recursions agree where both are defined.
LEMMA SumsAgree ==
  ASSUME NEW S, IsFiniteSet(S), NEW T, NEW f, NEW g, NEW h,
         SumsUp(f, S, g), SumsUp(f, T, h), NEW v \in SUBSET S, v \in SUBSET T
  PROVE  g[v] = h[v]
<1>2. Recurs(f, S, g) /\ Recurs(f, T, h)
  BY SumsUpMeans
<1> DEFINE B == {u \in SUBSET S : u \in SUBSET T /\ g[u] # h[u]}
<1> SUFFICES ASSUME B # {} PROVE FALSE
  OBVIOUS
<1>1. PICK t \in B : \A u \in SUBSET t : u # t => u \notin B
  <2> HIDE DEF B
  <2>1. B \in SUBSET (SUBSET S)
    BY DEF B
  <2> QED
    BY <2>1, SmallestSet
<1>7. t \in SUBSET S /\ t \in SUBSET T /\ g[t] # h[t] /\ t # {}
  BY <1>1, <1>2 DEF Recurs
<1> DEFINE x == Taken(t)
<1>3. x \in t /\ g[t] = f[x] + g[t \ {x}] /\ h[t] = f[x] + h[t \ {x}]
  BY <1>2, <1>7 DEF Recurs
<1> HIDE DEF x
<1>4. t \ {x} \in SUBSET t /\ t \ {x} # t
  BY <1>3
<1>5. g[t \ {x}] = h[t \ {x}]
  BY <1>1, <1>4
<1> QED
  BY <1>1, <1>3, <1>5

\* There is a recursion for every finite set.
LEMMA SumsExist ==
  ASSUME NEW S, IsFiniteSet(S), NEW f
  PROVE  \E g : SumsUp(f, S, g)
<1> DEFINE B == {u \in SUBSET S : ~\E g : SumsUp(f, u, g)}
<1> SUFFICES ASSUME B # {} PROVE FALSE
  OBVIOUS
<1>1. PICK t \in B : \A u \in SUBSET t : u # t => u \notin B
  <2> HIDE DEF B
  <2>1. B \in SUBSET (SUBSET S)
    BY DEF B
  <2> QED
    BY <2>1, SmallestSet
<1>2. t \in SUBSET S /\ ~\E g : SumsUp(f, t, g)
  BY <1>1
<1>3. \A u \in SUBSET t : u # t => \E g : SumsUp(f, u, g)
  BY <1>1, <1>2
<1> HIDE DEF B
<1> DEFINE R(u) == CHOOSE g : SumsUp(f, u, g)
           h == [s \in SUBSET t |-> IF s = {} THEN 0
                                    ELSE f[Taken(s)] + R(s \ {Taken(s)})[s \ {Taken(s)}]]
<1>4. \A u \in SUBSET t : u # t => SumsUp(f, u, R(u))
  BY <1>3
<1>5. \A s \in SUBSET t : s # {} => Taken(s) \in s
  BY DEF Taken
<1>6. \A u \in SUBSET t : IsFiniteSet(u)
  BY <1>2, FS_Subset
<1>7. h[{}] = 0 /\ \A s \in SUBSET t : s # {} =>
        h[s] = f[Taken(s)] + R(s \ {Taken(s)})[s \ {Taken(s)}]
  OBVIOUS
<1> HIDE DEF h, R
<1>8. ASSUME NEW u \in SUBSET t, u # t PROVE h[u] = R(u)[u]
  <2>1. SumsUp(f, u, R(u))
    BY <1>4, <1>8
  <2>2. CASE u = {}
    BY <1>7, <2>1, <2>2, SumsUpMeans DEF Recurs
  <2>3. CASE u # {}
    <3> DEFINE v == u \ {Taken(u)}
    <3>1. v \in SUBSET u /\ v \in SUBSET t /\ v # t
      BY <1>8
    <3>2. R(u)[u] = f[Taken(u)] + R(u)[v]
      <4>1. Recurs(f, u, R(u)) /\ u \in SUBSET u
        BY <2>1, SumsUpMeans
      <4> QED
        BY <2>3, <4>1 DEF Recurs
    <3>3. h[u] = f[Taken(u)] + R(v)[v]
      BY <1>7, <2>3
    <3> HIDE DEF v
    <3>4. SumsUp(f, v, R(v)) /\ IsFiniteSet(u) /\ v \in SUBSET v
      BY <1>4, <1>6, <3>1
    <3>5. R(u)[v] = R(v)[v]
      BY <2>1, <3>1, <3>4, SumsAgree
    <3> QED
      BY <3>2, <3>3, <3>5
  <2> QED
    BY <2>2, <2>3
<1>9. h = [s \in SUBSET t |-> IF s = {} THEN 0 ELSE f[Taken(s)] + h[s \ {Taken(s)}]]
  <2>1. \A s \in SUBSET t : s # {} =>
            R(s \ {Taken(s)})[s \ {Taken(s)}] = h[s \ {Taken(s)}]
    <3> SUFFICES ASSUME NEW s \in SUBSET t, s # {}
                 PROVE  R(s \ {Taken(s)})[s \ {Taken(s)}] = h[s \ {Taken(s)}]
      OBVIOUS
    <3>1. s \ {Taken(s)} \in SUBSET t /\ s \ {Taken(s)} # t
      BY <1>5
    <3> QED
      BY <1>8, <3>1
  <2>2. h = [s \in SUBSET t |-> IF s = {} THEN 0
                                ELSE f[Taken(s)] + R(s \ {Taken(s)})[s \ {Taken(s)}]]
    BY DEF h
  <2> QED
    BY <2>1, <2>2
<1>10. SumsUp(f, t, h)
  BY <1>9 DEF SumsUp, Taken
<1> QED
  BY <1>2, <1>10

\* A sum over a finite set is 0, or one element and the sum over the others.
LEMMA SumStep ==
  ASSUME NEW S, IsFiniteSet(S), NEW f
  PROVE  /\ S = {} => Sum(f, S) = 0
         /\ S # {} => Taken(S) \in S /\ Sum(f, S) = f[Taken(S)] + Sum(f, S \ {Taken(S)})
<1> DEFINE g == CHOOSE g : SumsUp(f, S, g)
<1>1. SumsUp(f, S, g)
  BY SumsExist
<1>2. Sum(f, S) = g[S]
  BY DEF Sum
<1> HIDE DEF g
<1>3. S = {} => g[S] = 0
  BY <1>1, SumsUpMeans DEF Recurs
<1>4. ASSUME S # {}
      PROVE  Taken(S) \in S /\ g[S] = f[Taken(S)] + Sum(f, S \ {Taken(S)})
  <2> DEFINE T == S \ {Taken(S)}
             h == CHOOSE h : SumsUp(f, T, h)
  <2>1. Taken(S) \in S /\ g[S] = f[Taken(S)] + g[T]
    <3>1. S \in SUBSET S /\ Recurs(f, S, g)
      BY <1>1, SumsUpMeans
    <3> QED
      BY <1>4, <3>1 DEF Recurs
  <2>2. IsFiniteSet(T)
    BY FS_Subset
  <2>3. SumsUp(f, T, h) /\ Sum(f, T) = h[T]
    BY <2>2, SumsExist DEF Sum
  <2> HIDE DEF h
  <2>4. T \in SUBSET S /\ T \in SUBSET T
    OBVIOUS
  <2> HIDE DEF T
  <2>5. g[T] = h[T]
    BY <1>1, <2>3, <2>4, SumsAgree
  <2> QED
    BY <2>1, <2>3, <2>5 DEF T
<1> QED
  BY <1>2, <1>3, <1>4

\* Sums of natural numbers are natural numbers.
LEMMA SumType ==
  ASSUME NEW S, IsFiniteSet(S), NEW f, \A x \in S : f[x] \in Nat
  PROVE  Sum(f, S) \in Nat
<1> DEFINE B == {u \in SUBSET S : Sum(f, u) \notin Nat}
<1> SUFFICES ASSUME B # {} PROVE FALSE
  OBVIOUS
<1>1. PICK t \in B : \A u \in SUBSET t : u # t => u \notin B
  <2> HIDE DEF B
  <2>1. B \in SUBSET (SUBSET S)
    BY DEF B
  <2> QED
    BY <2>1, SmallestSet
<1>2. IsFiniteSet(t)
  BY <1>1, FS_Subset
<1>3. t # {}
  <2>1. Sum(f, t) \notin Nat
    BY <1>1
  <2>2. t = {} => Sum(f, t) = 0
    BY <1>2, SumStep
  <2> QED
    BY <2>1, <2>2
<1> DEFINE x == Taken(t)
<1>4. x \in t /\ Sum(f, t) = f[x] + Sum(f, t \ {x})
  BY <1>2, <1>3, SumStep
<1> HIDE DEF x
<1>5. Sum(f, t \ {x}) \in Nat
  BY <1>1, <1>4
<1> QED
  BY <1>1, <1>4, <1>5

\* One element more adds its value, whatever order the recursion takes.
LEMMA SumAdd ==
  ASSUME NEW S, IsFiniteSet(S), NEW f, \A y \in S : f[y] \in Nat,
         NEW x, x \notin S, f[x] \in Nat
  PROVE  Sum(f, S \cup {x}) = Sum(f, S) + f[x]
<1> DEFINE A == S \cup {x}
           B == {u \in SUBSET A :
                    \E z \in A \ u : Sum(f, u \cup {z}) # Sum(f, u) + f[z]}
<1>1. IsFiniteSet(A) /\ \A z \in A : f[z] \in Nat
  BY FS_AddElement
<1> SUFFICES ASSUME B # {} PROVE FALSE
  <2>1. S \in SUBSET A /\ x \in A \ S
    OBVIOUS
  <2> QED
    BY <2>1
<1>2. PICK s \in B : \A u \in SUBSET s : u # s => u \notin B
  <2> HIDE DEF A
  <2>1. B \in SUBSET (SUBSET A)
    OBVIOUS
  <2> HIDE DEF B
  <2> QED
    BY <1>1, <2>1, SmallestSet
<1>3. PICK z \in A \ s : Sum(f, s \cup {z}) # Sum(f, s) + f[z]
  OBVIOUS
<1>4. s \in SUBSET A
  OBVIOUS
<1>5. \A u \in SUBSET s : u # s =>
        \A w \in A \ u : Sum(f, u \cup {w}) = Sum(f, u) + f[w]
  BY <1>2, <1>4
<1> HIDE DEF A, B
<1> DEFINE t == s \cup {z}
           y == Taken(t)
<1>6. IsFiniteSet(s) /\ IsFiniteSet(t) /\ t # {}
  BY <1>1, <1>4, FS_Subset, FS_AddElement
<1>7. y \in t /\ Sum(f, t) = f[y] + Sum(f, t \ {y})
  BY <1>6, SumStep
<1>8. Sum(f, s) \in Nat /\ f[z] \in Nat
  <2>1. \A w \in s : f[w] \in Nat
    BY <1>1, <1>4
  <2> QED
    BY <1>1, <1>3, <1>6, <2>1, SumType
<1>9. Sum(f, t) # Sum(f, s) + f[z]
  BY <1>3
<1> HIDE DEF y
<1>10. CASE y = z
  <2>1. t \ {y} = s
    BY <1>3, <1>10
  <2>2. Sum(f, t) = f[z] + Sum(f, s)
    BY <1>7, <1>10, <2>1
  <2> QED
    BY <1>8, <1>9, <2>2
<1>11. CASE y # z
  <2> DEFINE u == s \ {y}
  <2>1. /\ y \in s /\ t \ {y} = u \cup {z} /\ u \cup {y} = s
        /\ u \in SUBSET s /\ u # s /\ y \in A \ u /\ z \in A \ u
    BY <1>3, <1>4, <1>7, <1>11
  <2> HIDE DEF t, u
  <2>2. Sum(f, u \cup {z}) = Sum(f, u) + f[z] /\ Sum(f, s) = Sum(f, u) + f[y]
    BY <1>5, <2>1
  <2>3. Sum(f, u) \in Nat /\ f[y] \in Nat
    <3>1. IsFiniteSet(u) /\ \A w \in u : f[w] \in Nat
      BY <1>1, <1>4, <1>6, <2>1, FS_Subset
    <3> QED
      BY <1>1, <2>1, <3>1, SumType
  <2>4. Sum(f, t) = f[y] + (Sum(f, u) + f[z])
    BY <1>7, <2>1, <2>2
  <2> QED
    BY <1>8, <1>9, <2>2, <2>3, <2>4 DEF t
<1> QED
  BY <1>10, <1>11

\* A sum depends on the values of the elements alone.
LEMMA SumCongr ==
  ASSUME NEW S, NEW f, NEW g, \A x \in S : f[x] = g[x]
  PROVE  Sum(f, S) = Sum(g, S)
<1>1. ASSUME NEW h PROVE SumsUp(f, S, h) <=> SumsUp(g, S, h)
  <2> DEFINE F(s) == IF s = {} THEN 0 ELSE LET x == CHOOSE x \in s : TRUE IN f[x] + h[s \ {x}]
             G(s) == IF s = {} THEN 0 ELSE LET x == CHOOSE x \in s : TRUE IN g[x] + h[s \ {x}]
  <2>1. \A s \in SUBSET S : F(s) = G(s)
    <3> SUFFICES ASSUME NEW s \in SUBSET S, s # {} PROVE F(s) = G(s)
      OBVIOUS
    <3>1. (CHOOSE x \in s : TRUE) \in S
      OBVIOUS
    <3> QED
      BY <3>1
  <2>2. [s \in SUBSET S |-> F(s)] = [s \in SUBSET S |-> G(s)]
    <3> HIDE DEF F, G
    <3> QED
      BY <2>1
  <2> QED
    BY <2>2 DEF SumsUp
<1>2. (CHOOSE h : SumsUp(f, S, h)) = (CHOOSE h : SumsUp(g, S, h))
  BY <1>1
<1> QED
  BY <1>2 DEF Sum

\* What each unit adds to its section.
Weight(src) == [j \in Int |-> Text!SizeOf(src[j])]

\* The abstract specification and the assembler mean the same by a source.
LEMMA SizeSame == \A u : Object!SizeOf(u) = Text!SizeOf(u)
  BY DEF Object!SizeOf, Text!SizeOf, Object!InsnSize, Text!InsnSize,
         Object!DataSize, Text!DataSize

\* The sums over a text are those defined here.
LEMMA TextSums ==
  ASSUME NEW src, NEW S \in SUBSET Int
  PROVE  Text!MapThenSumSet(LAMBDA j : Text!SizeOf(src[j]), S) = Sum(Weight(src), S)
<1> DEFINE P(g) == g = [s \in SUBSET S |->
                          IF s = {} THEN 0
                          ELSE LET x == CHOOSE x \in s : TRUE
                               IN Text!SizeOf(src[x]) + g[s \ {x}]]
           f == Weight(src)
<1>1. ASSUME NEW g PROVE P(g) <=> SumsUp(f, S, g)
  <2> DEFINE F(s) == IF s = {} THEN 0
                     ELSE LET x == CHOOSE x \in s : TRUE
                          IN Text!SizeOf(src[x]) + g[s \ {x}]
             G(s) == IF s = {} THEN 0
                     ELSE LET x == CHOOSE x \in s : TRUE IN f[x] + g[s \ {x}]
  <2>1. \A s \in SUBSET S : F(s) = G(s)
    <3> SUFFICES ASSUME NEW s \in SUBSET S, s # {} PROVE F(s) = G(s)
      OBVIOUS
    <3>1. (CHOOSE x \in s : TRUE) \in Int
      OBVIOUS
    <3> QED
      BY <3>1 DEF Weight
  <2>2. [s \in SUBSET S |-> F(s)] = [s \in SUBSET S |-> G(s)]
    <3> HIDE DEF F, G
    <3> QED
      BY <2>1
  <2> QED
    BY <2>2 DEF SumsUp
<1>2. (CHOOSE g : P(g)) = (CHOOSE g : SumsUp(f, S, g))
  <2> HIDE DEF P
  <2> QED
    BY <1>1
<1>3. Text!MapThenSumSet(LAMBDA j : Text!SizeOf(src[j]), S) = (CHOOSE g : P(g))[S]
  BY DEF Text!MapThenSumSet, Text!MapThenFoldSet
<1> QED
  BY <1>2, <1>3 DEF Sum

\* The address of a unit as such a sum.
LEMMA TextAddress ==
  ASSUME NEW src, NEW k \in Int
  PROVE  Text!AddressOf(src, k) =
            Sum(Weight(src), {j \in 1 .. k - 1 : Text!SectionAt(src, j) = Text!SectionAt(src, k)})
<1> DEFINE S == {j \in 1 .. k - 1 : Text!SectionAt(src, j) = Text!SectionAt(src, k)}
<1>1. S \in SUBSET Int
  OBVIOUS
<1>2. Text!AddressOf(src, k) = Text!MapThenSumSet(LAMBDA j : Text!SizeOf(src[j]), S)
  BY DEF Text!AddressOf
<1> HIDE DEF S
<1> QED
  BY <1>1, <1>2, TextSums DEF S

\* The size of a section as such a sum.
LEMMA TextSize ==
  ASSUME NEW src, DOMAIN src \in SUBSET Int, NEW s
  PROVE  Text!SectionSize(src, s) =
            Sum(Weight(src), {j \in DOMAIN src : Text!SectionAt(src, j) = s})
<1> DEFINE S == {j \in DOMAIN src : Text!SectionAt(src, j) = s}
<1>1. S \in SUBSET Int
  OBVIOUS
<1>2. Text!SectionSize(src, s) = Text!MapThenSumSet(LAMBDA j : Text!SizeOf(src[j]), S)
  BY DEF Text!SectionSize
<1> HIDE DEF S
<1> QED
  BY <1>1, <1>2, TextSums DEF S

\* The largest of finitely many positions.
LEMMA MaxFound ==
  ASSUME NEW n \in Nat, NEW S \in SUBSET (1 .. n), S # {}
  PROVE  Text!Max(S) \in S /\ \A y \in S : Text!Max(S) >= y
<1> DEFINE T == {d \in Nat : \E y \in S : d = n - y}
<1>1. T \in SUBSET Nat
  OBVIOUS
<1>2. \A y \in S : y \in Int /\ n - y \in T
  OBVIOUS
<1>3. T # {}
  BY <1>2
<1>4. \A d \in T : \E y \in S : d = n - y
  OBVIOUS
<1> HIDE DEF T
<1>5. PICK d \in T : \A e \in T : ~(<<e, d>> \in OpToRel(<, Nat))
  BY <1>1, <1>3, NatLessThanWellFounded, WFMin
<1>6. \A e \in T : ~(e < d)
  BY <1>1, <1>5 DEF OpToRel
<1>7. PICK x \in S : d = n - x
  BY <1>4
<1>8. \A y \in S : x >= y
  <2> TAKE y \in S
  <2>1. ~(n - y < n - x) /\ x \in Int /\ y \in Int
    BY <1>2, <1>6, <1>7
  <2> QED
    BY <2>1
<1> QED
  BY <1>8 DEF Text!Max

\* An element that bounds the set is its maximum.
LEMMA MaxIs ==
  ASSUME NEW S \in SUBSET Int, NEW x \in S, \A y \in S : x >= y
  PROVE  Text!Max(S) = x
<1>1. Text!Max(S) \in S /\ \A y \in S : Text!Max(S) >= y
  BY DEF Text!Max
<1>2. Text!Max(S) \in Int /\ x \in Int
  BY <1>1
<1> QED
  BY <1>1, <1>2

\* What a unit takes and where it can be.
LEMMA UnitFacts ==
  ASSUME NEW u \in Unit
  PROVE  /\ Text!SizeOf(u) \in Nat
         /\ u.unit \in {"label", "globl", "section", "data", "insn", "bad"}
         /\ u.unit = "section" => u.section \in ProgSections
         /\ u.unit \in {"label", "globl"} => u.name \in Name
         /\ u.unit = "data" => u.str \in Strings /\ u.nullterm \in BOOLEAN
         /\ u.unit = "insn" => u.form \in Forms /\ u.name \in Name \cup {NoSymbol}
<1>1. CASE \E n \in Name : u = Text!LabelUnit(n) \/ u = Text!GlobalUnit(n)
  BY <1>1 DEF Text!LabelUnit, Text!GlobalUnit, Text!SizeOf
<1>2. CASE \E s \in ProgSections : u = Text!SectionUnit(s)
  BY <1>2 DEF Text!SectionUnit, Text!SizeOf
<1>3. CASE \E str \in Strings, nt \in BOOLEAN : u = Text!DataUnit(str, nt)
  BY <1>3, BytecodeAssumption DEF Text!DataUnit, Text!SizeOf, Text!DataSize
<1>4. CASE \E f \in Forms, n \in Name \cup {NoSymbol} : u = Text!InsnUnit(f, n)
  BY <1>4 DEF Text!InsnUnit, Text!SizeOf, Text!InsnSize
<1>5. CASE u = Text!BadUnit
  BY <1>5 DEF Text!BadUnit, Text!SizeOf
<1>6. SymForms \subseteq Forms
  BY DEF Forms
<1> QED
  BY <1>1, <1>2, <1>3, <1>4, <1>5, <1>6 DEF Unit, GoodUnit

\* Every unit is in .text or in .data.
LEMMA SectionType ==
  ASSUME NEW src \in Seq(Unit), NEW k
  PROVE  Text!SectionAt(src, k) \in ProgSections
<1> DEFINE before == {j \in Text!UnitsOf(src, "section") : j < k}
<1>1. before \in SUBSET (1 .. Len(src)) /\ \A j \in before : src[j].unit = "section"
  BY DEF Text!UnitsOf
<1>2. CASE before = {}
  BY <1>2, SectionFacts DEF Text!SectionAt, Text!SECTION_TEXT
<1>3. CASE before # {}
  <2>1. Text!Max(before) \in before
    <3> HIDE DEF before
    <3>1. Len(src) \in Nat
      OBVIOUS
    <3> QED
      BY <1>1, <1>3, <3>1, MaxFound
  <2>2. src[Text!Max(before)] \in Unit /\ src[Text!Max(before)].unit = "section"
    BY <1>1, <2>1
  <2>3. src[Text!Max(before)].section \in ProgSections
    BY <2>2, UnitFacts
  <2> QED
    BY <1>3, <2>3 DEF Text!SectionAt
<1> QED
  BY <1>2, <1>3

\* What one more unit does to a source.
LEMMA OneMore ==
  ASSUME NEW src \in Seq(Unit), NEW u \in Unit
  PROVE  /\ Append(src, u) \in Seq(Unit) /\ Len(src) \in Nat
         /\ DOMAIN Append(src, u) = 1 .. Len(src) + 1 /\ DOMAIN src = 1 .. Len(src)
         /\ Len(Append(src, u)) = Len(src) + 1
         /\ \A k \in 1 .. Len(src) : Append(src, u)[k] = src[k]
         /\ Append(src, u)[Len(src) + 1] = u
         /\ \A kind : Text!UnitsOf(Append(src, u), kind) =
                Text!UnitsOf(src, kind) \cup
                    (IF u.unit = kind THEN {Len(src) + 1} ELSE {})
<1>1. /\ Append(src, u) \in Seq(Unit) /\ Len(src) \in Nat
      /\ DOMAIN Append(src, u) = 1 .. Len(src) + 1 /\ DOMAIN src = 1 .. Len(src)
      /\ Len(Append(src, u)) = Len(src) + 1
      /\ \A k \in 1 .. Len(src) : Append(src, u)[k] = src[k]
      /\ Append(src, u)[Len(src) + 1] = u
  OBVIOUS
<1>2. 1 .. Len(src) + 1 = (1 .. Len(src)) \cup {Len(src) + 1}
  BY <1>1
<1> QED
  BY <1>1, <1>2 DEF Text!UnitsOf

\* It leaves the section of the others, and its own, as they were.
LEMMA SectionOn ==
  ASSUME NEW src \in Seq(Unit), NEW u \in Unit
  PROVE  /\ \A k \in 1 .. Len(src) + 1 : Text!SectionAt(Append(src, u), k) = Text!SectionAt(src, k)
         /\ Text!SectionAt(Append(src, u), Len(src) + 2) =
                IF u.unit = "section" THEN u.section
                ELSE Text!SectionAt(src, Len(src) + 1)
<1>0. PICK new : new = Append(src, u)
  OBVIOUS
<1> DEFINE n == Len(src)
           before(s, k) == {j \in Text!UnitsOf(s, "section") : j < k}
<1>1. /\ n \in Nat /\ \A k \in 1 .. n : new[k] = src[k]
      /\ new[n + 1] = u
      /\ Text!UnitsOf(new, "section") = Text!UnitsOf(src, "section") \cup
                (IF u.unit = "section" THEN {n + 1} ELSE {})
      /\ Text!UnitsOf(src, "section") \in SUBSET (1 .. n)
  BY <1>0, OneMore DEF Text!UnitsOf
<1> HIDE DEF n
<1>2. ASSUME NEW k \in Int, NEW m \in Int, before(new, k) = before(src, m)
      PROVE  Text!SectionAt(new, k) = Text!SectionAt(src, m)
  <2> DEFINE B == before(src, m)
  <2>1. B \in SUBSET (1 .. n)
    BY <1>1
  <2>2. before(new, k) = B
    BY <1>2
  <2>3. CASE B = {}
    BY <2>2, <2>3 DEF Text!SectionAt
  <2>4. CASE B # {}
    <3>1. Text!Max(B) \in B
      <4> HIDE DEF B
      <4> QED
        BY <1>1, <2>1, <2>4, MaxFound
    <3>2. new[Text!Max(B)] = src[Text!Max(B)]
      BY <1>1, <2>1, <3>1
    <3> QED
      BY <2>2, <2>4, <3>2 DEF Text!SectionAt
  <2> QED
    BY <2>3, <2>4
<1>3. ASSUME NEW k \in 1 .. n + 1
      PROVE  Text!SectionAt(new, k) = Text!SectionAt(src, k)
  <2>1. before(new, k) = before(src, k)
    BY <1>1
  <2> HIDE DEF before
  <2>2. k \in Int
    BY <1>1
  <2> QED
    BY <1>2, <2>1, <2>2
<1>4. CASE u.unit = "section"
  <2> DEFINE B == before(new, n + 2)
  <2>1. n + 1 \in B /\ B \in SUBSET Int /\ \A j \in B : n + 1 >= j
    BY <1>1, <1>4
  <2>2. Text!Max(B) = n + 1
    <3> HIDE DEF B
    <3> QED
      BY <2>1, MaxIs
  <2>3. Text!SectionAt(new, n + 2) = u.section
    BY <1>1, <2>1, <2>2 DEF Text!SectionAt
  <2> QED
    BY <1>0, <1>3, <1>4, <2>3 DEF n
<1>5. CASE u.unit # "section"
  <2>1. before(new, n + 2) = before(src, n + 1)
    BY <1>1, <1>5
  <2> HIDE DEF before
  <2>2. n + 2 \in Int /\ n + 1 \in Int
    BY <1>1
  <2>3. Text!SectionAt(new, n + 2) = Text!SectionAt(src, n + 1)
    BY <1>2, <2>1, <2>2
  <2> QED
    BY <1>0, <1>3, <1>5, <2>3 DEF n
<1> QED
  BY <1>0, <1>4, <1>5

\* Every unit that is there keeps its address, and the new one goes where its
\* section ends.
LEMMA AddressOn ==
  ASSUME NEW src \in Seq(Unit), NEW u \in Unit
  PROVE  /\ \A k \in 1 .. Len(src) + 1 : Text!AddressOf(Append(src, u), k) = Text!AddressOf(src, k)
         /\ Text!AddressOf(src, Len(src) + 1) =
                Text!SectionSize(src, Text!SectionAt(src, Len(src) + 1))
<1>0. PICK new : new = Append(src, u)
  OBVIOUS
<1> DEFINE n == Len(src)
<1>1. /\ n \in Nat /\ \A k \in 1 .. n : new[k] = src[k]
      /\ DOMAIN src = 1 .. n
  BY <1>0, OneMore
<1>2. \A k \in 1 .. n + 1 : Text!SectionAt(new, k) = Text!SectionAt(src, k)
  BY <1>0, SectionOn
<1> HIDE DEF n
<1>3. ASSUME NEW k \in 1 .. n + 1
      PROVE  Text!AddressOf(new, k) = Text!AddressOf(src, k)
  <2> DEFINE S(s) == {j \in 1 .. k - 1 : Text!SectionAt(s, j) = Text!SectionAt(s, k)}
             T == S(src)
  <2>1. S(new) = T
    BY <1>1, <1>2
  <2>2. \A j \in T : Weight(new)[j] = Weight(src)[j]
    BY <1>1 DEF Weight
  <2>3. k \in Int
    BY <1>1
  <2>4. Text!AddressOf(new, k) = Sum(Weight(new), S(new))
    BY <2>3, TextAddress
  <2>5. Text!AddressOf(src, k) = Sum(Weight(src), S(src))
    BY <2>3, TextAddress
  <2> HIDE DEF S
  <2>6. Sum(Weight(new), T) = Sum(Weight(src), T)
    <3> HIDE DEF T
    <3> QED
      BY <2>2, SumCongr
  <2> QED
    BY <2>1, <2>4, <2>5, <2>6
<1>4. Text!AddressOf(src, n + 1) = Text!SectionSize(src, Text!SectionAt(src, n + 1))
  <2> DEFINE s == Text!SectionAt(src, n + 1)
  <2>1. Text!AddressOf(src, n + 1) =
            Sum(Weight(src), {j \in 1 .. (n + 1) - 1 : Text!SectionAt(src, j) = s})
    BY <1>1, TextAddress
  <2>2. Text!SectionSize(src, s) =
            Sum(Weight(src), {j \in 1 .. n : Text!SectionAt(src, j) = s})
    BY <1>1, TextSize
  <2>3. (n + 1) - 1 = n
    BY <1>1
  <2> QED
    BY <2>1, <2>2, <2>3
<1> QED
  BY <1>0, <1>3, <1>4 DEF n

\* The section it is in grows by its size.
LEMMA SizeOn ==
  ASSUME NEW src \in Seq(Unit), NEW u \in Unit, NEW s
  PROVE  /\ Text!SectionSize(src, s) \in Nat
         /\ Text!SectionAt(src, Len(src) + 1) = s =>
                Text!SectionSize(Append(src, u), s) = Text!SectionSize(src, s) + Text!SizeOf(u)
         /\ Text!SectionAt(src, Len(src) + 1) # s =>
                Text!SectionSize(Append(src, u), s) = Text!SectionSize(src, s)
<1>0. PICK new : new = Append(src, u)
  OBVIOUS
<1> DEFINE n == Len(src)
           S == {j \in 1 .. n : Text!SectionAt(src, j) = s}
           T == {j \in 1 .. n + 1 : Text!SectionAt(new, j) = s}
<1>1. /\ n \in Nat /\ \A k \in 1 .. n : new[k] = src[k] /\ src[k] \in Unit
      /\ DOMAIN src = 1 .. n /\ DOMAIN new = 1 .. n + 1 /\ new[n + 1] = u
  BY <1>0, OneMore
<1>2. \A k \in 1 .. n + 1 : Text!SectionAt(new, k) = Text!SectionAt(src, k)
  BY <1>0, SectionOn
<1>3. Text!SectionAt(src, Len(src) + 1) = Text!SectionAt(src, n + 1)
  OBVIOUS
<1> HIDE DEF n
<1>4. /\ Text!SectionSize(src, s) = Sum(Weight(src), S)
      /\ Text!SectionSize(new, s) = Sum(Weight(new), T)
  <2>1. DOMAIN src \in SUBSET Int /\ DOMAIN new \in SUBSET Int
    BY <1>1
  <2>2. /\ S = {j \in DOMAIN src : Text!SectionAt(src, j) = s}
        /\ T = {j \in DOMAIN new : Text!SectionAt(new, j) = s}
    BY <1>1
  <2>3. Text!SectionSize(src, s) =
            Sum(Weight(src), {j \in DOMAIN src : Text!SectionAt(src, j) = s})
    BY <2>1, TextSize
  <2>4. Text!SectionSize(new, s) =
            Sum(Weight(new), {j \in DOMAIN new : Text!SectionAt(new, j) = s})
    BY ONLY <2>1, TextSize
  <2> HIDE DEF S, T
  <2> QED
    BY <2>2, <2>3, <2>4
<1>5. /\ \A j \in S : Weight(new)[j] = Weight(src)[j] /\ Weight(new)[j] \in Nat
      /\ Weight(new)[n + 1] = Text!SizeOf(u) /\ Text!SizeOf(u) \in Nat
  BY <1>1, UnitFacts DEF Weight
<1>6. IsFiniteSet(S) /\ n + 1 \notin S
  <2>1. IsFiniteSet(1 .. n) /\ S \in SUBSET (1 .. n)
    BY <1>1, FS_Interval
  <2> QED
    BY <1>1, <2>1, FS_Subset
<1>7. T = S \cup (IF Text!SectionAt(src, n + 1) = s THEN {n + 1} ELSE {})
  BY <1>1, <1>2
<1> HIDE DEF S, T
<1>8. Sum(Weight(new), S) = Sum(Weight(src), S) /\ Sum(Weight(new), S) \in Nat
  BY <1>5, <1>6, SumCongr, SumType
<1>9. CASE Text!SectionAt(src, n + 1) = s
  <2>1. T = S \cup {n + 1}
    BY <1>7, <1>9
  <2>2. Sum(Weight(new), T) = Sum(Weight(new), S) + Weight(new)[n + 1]
    BY <1>5, <1>6, <2>1, SumAdd
  <2> QED
    BY <1>0, <1>3, <1>4, <1>5, <1>8, <1>9, <2>2
<1>10. CASE Text!SectionAt(src, n + 1) # s
  <2>1. T = S
    BY <1>7, <1>10
  <2> QED
    BY <1>0, <1>3, <1>4, <1>8, <1>10, <2>1
<1> QED
  BY <1>0, <1>9, <1>10

\* Where a name is defined, and whether it is global, can only change for the
\* name of the new unit.
LEMMA DefinitionOn ==
  ASSUME NEW src \in Seq(Unit), NEW u \in Unit, NEW m
  PROVE  /\ Text!LabelsOf(src, m) \in SUBSET (1 .. Len(src))
         /\ Text!LabelsOf(Append(src, u), m) = Text!LabelsOf(src, m) \cup
                (IF u.unit = "label" /\ u.name = m THEN {Len(src) + 1} ELSE {})
         /\ u.unit = "label" /\ u.name = m => Text!Definition(Append(src, u), m) = Len(src) + 1
         /\ ~(u.unit = "label" /\ u.name = m) =>
                /\ Text!LabelsOf(Append(src, u), m) = Text!LabelsOf(src, m)
                /\ Text!Definition(Append(src, u), m) = Text!Definition(src, m)
         /\ Text!IsGlobal(Append(src, u), m) <=>
                Text!IsGlobal(src, m) \/ (u.unit = "globl" /\ u.name = m)
<1>0. PICK new : new = Append(src, u)
  OBVIOUS
<1> DEFINE n == Len(src)
<1>1. /\ n \in Nat /\ \A k \in 1 .. n : new[k] = src[k]
      /\ new[n + 1] = u
      /\ \A kind : /\ Text!UnitsOf(new, kind) = Text!UnitsOf(src, kind) \cup
                        (IF u.unit = kind THEN {n + 1} ELSE {})
                   /\ Text!UnitsOf(src, kind) \in SUBSET (1 .. n)
  BY <1>0, OneMore DEF Text!UnitsOf
<1> HIDE DEF n
<1>2. Text!LabelsOf(src, m) \in SUBSET (1 .. n)
  BY <1>1 DEF Text!LabelsOf
<1>3. Text!LabelsOf(new, m) = Text!LabelsOf(src, m) \cup
                (IF u.unit = "label" /\ u.name = m THEN {n + 1} ELSE {})
  <2> DEFINE is(k) == k \in Text!UnitsOf(new, "label") /\ new[k].name = m
             was(k) == k \in Text!UnitsOf(src, "label") /\ src[k].name = m
  <2>1. ASSUME NEW k \in 1 .. n PROVE is(k) <=> was(k)
    <3>1. k # n + 1 /\ new[k] = src[k]
      <4>1. n \in Nat
        BY <1>1
      <4>2. \A j \in 1 .. n : new[j] = src[j]
        BY <1>1
      <4>3. k # n + 1
        BY <4>1
      <4> QED
        BY <4>2, <4>3
    <3>2. Text!UnitsOf(new, "label") = Text!UnitsOf(src, "label") \cup
                (IF u.unit = "label" THEN {n + 1} ELSE {})
      BY <1>1
    <3> QED
      BY <3>1, <3>2
  <2>2. is(n + 1) <=> u.unit = "label" /\ u.name = m
    BY <1>1
  <2>3. \A k : is(k) => k \in 1 .. n \/ k = n + 1
    BY <1>1
  <2>4. \A k : was(k) => k \in 1 .. n
    BY <1>1
  <2>5. \A k : (k \in Text!LabelsOf(new, m) <=> is(k)) /\ (k \in Text!LabelsOf(src, m) <=> was(k))
    BY DEF Text!LabelsOf
  <2> HIDE DEF is, was
  <2> QED
    BY <2>1, <2>2, <2>3, <2>4, <2>5
<1>4. ASSUME u.unit = "label" /\ u.name = m PROVE Text!Definition(new, m) = n + 1
  <2> DEFINE L == Text!LabelsOf(new, m)
  <2>1. L \in SUBSET Int /\ n + 1 \in L /\ \A j \in L : n + 1 >= j
    BY <1>1, <1>2, <1>3, <1>4
  <2> HIDE DEF L
  <2>2. Text!Max(L) = n + 1
    BY <2>1, MaxIs
  <2> QED
    BY <2>2 DEF Text!Definition, L
<1>5. ASSUME ~(u.unit = "label" /\ u.name = m)
      PROVE  /\ Text!LabelsOf(new, m) = Text!LabelsOf(src, m)
             /\ Text!Definition(new, m) = Text!Definition(src, m)
  BY <1>3, <1>5 DEF Text!Definition
<1>6. Text!IsGlobal(new, m) <=> Text!IsGlobal(src, m) \/ (u.unit = "globl" /\ u.name = m)
  BY <1>1 DEF Text!IsGlobal
<1> QED
  BY <1>0, <1>2, <1>3, <1>4, <1>5, <1>6 DEF n

-----------------------------------------------------------------------------
(***************************************************************************)
(* The abstract specification and the assembler mean the same by a source  *)
(* and by an image.                                                        *)
(***************************************************************************)

\* The same for the sums of the abstract specification.
LEMMA ObjectSums ==
  ASSUME NEW src, NEW S \in SUBSET Int
  PROVE  Object!MapThenSumSet(LAMBDA j : Object!SizeOf(src[j]), S) = Sum(Weight(src), S)
<1> DEFINE P(g) == g = [s \in SUBSET S |->
                          IF s = {} THEN 0
                          ELSE LET x == CHOOSE x \in s : TRUE
                               IN Object!SizeOf(src[x]) + g[s \ {x}]]
           f == Weight(src)
<1>1. ASSUME NEW g PROVE P(g) <=> SumsUp(f, S, g)
  <2> DEFINE F(s) == IF s = {} THEN 0
                     ELSE LET x == CHOOSE x \in s : TRUE
                          IN Object!SizeOf(src[x]) + g[s \ {x}]
             G(s) == IF s = {} THEN 0
                     ELSE LET x == CHOOSE x \in s : TRUE IN f[x] + g[s \ {x}]
  <2>1. \A s \in SUBSET S : F(s) = G(s)
    <3> SUFFICES ASSUME NEW s \in SUBSET S, s # {} PROVE F(s) = G(s)
      OBVIOUS
    <3>1. (CHOOSE x \in s : TRUE) \in Int
      OBVIOUS
    <3> QED
      BY <3>1, SizeSame DEF Weight
  <2>2. [s \in SUBSET S |-> F(s)] = [s \in SUBSET S |-> G(s)]
    <3> HIDE DEF F, G
    <3> QED
      BY <2>1
  <2> QED
    BY <2>2 DEF SumsUp
<1>2. (CHOOSE g : P(g)) = (CHOOSE g : SumsUp(f, S, g))
  <2> HIDE DEF P
  <2> QED
    BY <1>1
<1>3. Object!MapThenSumSet(LAMBDA j : Object!SizeOf(src[j]), S) = (CHOOSE g : P(g))[S]
  BY DEF Object!MapThenSumSet, Object!MapThenFoldSet
<1> QED
  BY <1>2, <1>3 DEF Sum

\* Units, sections, names and labels mean the same there.
LEMMA ObjectUnits ==
  /\ \A src, kind : Object!UnitsOf(src, kind) = Text!UnitsOf(src, kind)
  /\ \A src, k : Object!SectionAt(src, k) = Text!SectionAt(src, k)
  /\ \A src : Object!NamesIn(src) = Text!NamesIn(src)
  /\ \A src, n : /\ Object!LabelsOf(src, n) = Text!LabelsOf(src, n)
                 /\ Object!Definition(src, n) = Text!Definition(src, n)
                 /\ Object!IsGlobal(src, n) <=> Text!IsGlobal(src, n)
  /\ \A src : Object!Resolved(src) <=> Text!Resolved(src)
<1>1. \A src, kind : Object!UnitsOf(src, kind) = Text!UnitsOf(src, kind)
  BY DEF Object!UnitsOf, Text!UnitsOf
<1>2. \A S : Object!Max(S) = Text!Max(S)
  BY DEF Object!Max, Text!Max
<1>3. \A src, k : Object!SectionAt(src, k) = Text!SectionAt(src, k)
  BY <1>1, <1>2 DEF Object!SectionAt, Text!SectionAt, Object!SECTION_TEXT, Text!SECTION_TEXT
<1>4. \A src : Object!NamesIn(src) = Text!NamesIn(src)
  BY <1>1 DEF Object!NamesIn, Text!NamesIn, Object!SymbolRefs, Text!SymbolRefs
<1>5. \A src, n : Object!LabelsOf(src, n) = Text!LabelsOf(src, n)
  BY <1>1 DEF Object!LabelsOf, Text!LabelsOf
<1>6. \A src, n : Object!Definition(src, n) = Text!Definition(src, n)
  BY <1>2, <1>5 DEF Object!Definition, Text!Definition
<1>7. \A src, n : Object!IsGlobal(src, n) <=> Text!IsGlobal(src, n)
  BY <1>1 DEF Object!IsGlobal, Text!IsGlobal
<1>8. \A src : Object!Resolved(src) <=> Text!Resolved(src)
  BY <1>4, <1>5 DEF Object!Resolved, Text!Resolved
<1> QED
  BY <1>1, <1>3, <1>4, <1>5, <1>6, <1>7, <1>8

\* So do addresses and sizes.
LEMMA ObjectAddress ==
  ASSUME NEW src
  PROVE  /\ \A k \in Int : Object!AddressOf(src, k) = Text!AddressOf(src, k)
         /\ DOMAIN src \in SUBSET Int =>
                \A s : Object!SectionSize(src, s) = Text!SectionSize(src, s)
<1>1. ASSUME NEW k \in Int PROVE Object!AddressOf(src, k) = Text!AddressOf(src, k)
  <2> DEFINE S == {j \in 1 .. k - 1 : Text!SectionAt(src, j) = Text!SectionAt(src, k)}
             T == {j \in 1 .. k - 1 : Object!SectionAt(src, j) = Object!SectionAt(src, k)}
  <2>1. S = T /\ S \in SUBSET Int
    BY ObjectUnits
  <2>2. Object!AddressOf(src, k) = Object!MapThenSumSet(LAMBDA j : Object!SizeOf(src[j]), T)
    BY DEF Object!AddressOf
  <2>3. Text!AddressOf(src, k) = Sum(Weight(src), S)
    BY TextAddress
  <2> HIDE DEF S, T
  <2> QED
    BY <2>1, <2>2, <2>3, ObjectSums
<1>2. ASSUME DOMAIN src \in SUBSET Int, NEW s
      PROVE  Object!SectionSize(src, s) = Text!SectionSize(src, s)
  <2> DEFINE S == {j \in DOMAIN src : Text!SectionAt(src, j) = s}
             T == {j \in DOMAIN src : Object!SectionAt(src, j) = s}
  <2>1. S = T /\ S \in SUBSET Int
    BY <1>2, ObjectUnits
  <2>2. Object!SectionSize(src, s) = Object!MapThenSumSet(LAMBDA j : Object!SizeOf(src[j]), T)
    BY DEF Object!SectionSize
  <2>3. Text!SectionSize(src, s) = Sum(Weight(src), S)
    BY <1>2, TextSize
  <2> HIDE DEF S, T
  <2> QED
    BY <2>1, <2>2, <2>3, ObjectSums
<1> QED
  BY <1>1, <1>2

\* And the constants of the object format.
LEMMA ObjectElf ==
  /\ Object!Sections = Text!Sections /\ Object!ProgSections = Text!ProgSections
  /\ Object!SECTION_STRTAB = Text!SECTION_STRTAB
  /\ Object!SECTION_SYMTAB = Text!SECTION_SYMTAB
  /\ Object!SYM_SIZE = Text!SYM_SIZE
  /\ Object!SectionNameSz = Text!SectionNameSz
  BY DEF Object!Sections, Text!Sections, Object!ProgSections, Text!ProgSections,
         Object!SECTION_NULL, Text!SECTION_NULL, Object!SECTION_STRTAB,
         Text!SECTION_STRTAB, Object!SECTION_TEXT, Text!SECTION_TEXT,
         Object!SECTION_DATA, Text!SECTION_DATA, Object!SECTION_SYMTAB,
         Text!SECTION_SYMTAB, Object!SECTION_COUNT, Text!SECTION_COUNT,
         Object!SYM_SIZE, Text!SYM_SIZE, Object!SectionNameSz, Text!SectionNameSz

\* So a translation is the same thing for both.
LEMMA ObjectImage ==
  ASSUME NEW src \in Seq(Unit), Text!Resolved(src), NEW img
  PROVE  Object!IsImage(src, img) <=> Text!IsImage(src, img)
<1>1. \A s, x : Object!LastWrite(img, s, x) = Text!LastWrite(img, s, x)
  BY DEF Object!LastWrite, Text!LastWrite, Object!WritesTo, Text!WritesTo
<1>2. \A off : Object!NamesAt(img, off) = Text!NamesAt(img, off)
  BY <1>1, ObjectElf DEF Object!NamesAt, Text!NamesAt
<1>3. Object!SymtabWrites(img) = Text!SymtabWrites(img)
  BY ObjectElf DEF Object!SymtabWrites, Text!SymtabWrites
<1>4. \A S : Object!Cardinality(S) = Text!Cardinality(S)
  BY DEF Object!Cardinality, Text!Cardinality
<1>5. Object!NamesMatch(src, img) <=> Text!NamesMatch(src, img)
  BY <1>2, <1>3, <1>4, ObjectElf, ObjectUnits DEF Object!NamesMatch, Text!NamesMatch
<1>6. Object!SectionNamesMatch(img) <=> Text!SectionNamesMatch(img)
  BY <1>1, ObjectElf DEF Object!SectionNamesMatch, Text!SectionNamesMatch
<1>7. DOMAIN src \in SUBSET Int
  OBVIOUS
<1>8. ASSUME NEW n \in Text!NamesIn(src) PROVE Text!Definition(src, n) \in Int
  <2> DEFINE L == Text!LabelsOf(src, n)
  <2>1. L \in SUBSET (1 .. Len(src)) /\ Len(src) \in Nat
    BY DEF Text!LabelsOf, Text!UnitsOf
  <2>2. L # {}
    BY DEF Text!Resolved
  <2> HIDE DEF L
  <2>3. Text!Max(L) \in L
    BY <2>1, <2>2, MaxFound
  <2> QED
    BY <2>1, <2>3 DEF Text!Definition, L
<1>9. Object!EntriesMatch(src, img) <=> Text!EntriesMatch(src, img)
  <2>1. \A n \in Text!NamesIn(src) :
            Object!AddressOf(src, Text!Definition(src, n)) =
                Text!AddressOf(src, Text!Definition(src, n))
    BY <1>8, ObjectAddress
  <2> QED
    BY <1>2, <1>3, <2>1, ObjectUnits DEF Object!EntriesMatch, Text!EntriesMatch
<1>10. ASSUME NEW k \in Text!UnitsOf(src, "insn") \cup Text!UnitsOf(src, "data")
       PROVE  /\ Object!AddressOf(src, k) = Text!AddressOf(src, k)
              /\ Object!BytesOf(src, img, k) = Text!BytesOf(src, img, k)
  <2>1. k \in Int /\ k \in DOMAIN src
    BY <1>7 DEF Text!UnitsOf
  <2>2. Object!AddressOf(src, k) = Text!AddressOf(src, k)
    BY <2>1, ObjectAddress
  <2>3. Object!FileAddress(src, img, k) = Text!FileAddress(src, img, k)
    BY <2>2, ObjectUnits DEF Object!FileAddress, Text!FileAddress
  <2>4. CASE src[k].unit = "data"
    BY <2>2, <2>4 DEF Object!BytesOf, Text!BytesOf
  <2>5. CASE src[k].unit # "data" /\ src[k].name = NoSymbol
    BY <2>2, <2>5 DEF Object!BytesOf, Text!BytesOf
  <2>6. CASE src[k].unit # "data" /\ src[k].name # NoSymbol
    <3> DEFINE n == src[k].name
               d == Text!Definition(src, n)
    <3>1. n \in Text!NamesIn(src)
      BY <2>6, <1>10 DEF Text!NamesIn, Text!SymbolRefs, Text!UnitsOf
    <3>2. Object!AddressOf(src, d) = Text!AddressOf(src, d)
      BY <1>8, <3>1, ObjectAddress
    <3>3. Object!FileAddress(src, img, d) = Text!FileAddress(src, img, d)
      BY <3>2, ObjectUnits DEF Object!FileAddress, Text!FileAddress
    <3>4. Object!Definition(src, n) = d
      BY ObjectUnits
    <3> QED
      BY <2>2, <2>3, <2>6, <3>3, <3>4 DEF Object!BytesOf, Text!BytesOf
  <2> QED
    BY <2>2, <2>4, <2>5, <2>6
<1>11. Object!CodeMatches(src, img) <=> Text!CodeMatches(src, img)
  <2>1. \A s : Object!SectionSize(src, s) = Text!SectionSize(src, s)
    BY <1>7, ObjectAddress
  <2> QED
    BY <1>1, <1>10, <2>1, ObjectUnits, ObjectElf, SizeSame
       DEF Object!CodeMatches, Text!CodeMatches
<1> QED
  BY <1>5, <1>6, <1>9, <1>11 DEF Object!IsImage, Text!IsImage

-----------------------------------------------------------------------------
(***************************************************************************)
(* While the source is read the program keeps up with its meaning.         *)
(***************************************************************************)

\* The steps that read a unit.
Reads ==
    \/ \E name \in Name : ParseLabel(name) \/ ParseGlobal(name)
    \/ \E section \in ProgSections : ParseSection(section)
    \/ ParseSectionUnknown
    \/ \E str \in Strings, nullterm \in BOOLEAN : ParseAscii(str, nullterm)
    \/ ParseAscizUnquoted
    \/ \E form \in SymForms, name \in Name : ParseAsmSymbol(form, name)
    \/ \E form \in Forms \ SymForms : ParseAsmPlain(form)

\* What the other steps leave alone.
Calm ==
    /\ UNCHANGED <<source, symbolVars>>
    /\ \A s \in ProgSections : size'[s] = size[s]
    /\ pc' \in Reading => pc \in Reading /\ outputsection' = outputsection
    /\ pc' # "copy" => pc # "copy" /\ UNCHANGED itemVars

\* Every step reads a unit or leaves what the text determines alone.
LEMMA ReadsOrCalm ==
  ASSUME TypeInv, [Next]_vars
  PROVE  Reads \/ Calm
<1> USE DEF Calm, symbolVars, outputVars, itemVars, inputVars, Reading
<1>1. CASE ReadLine \/ EndOfInput \/ CalcSymbol \/ NextBucket \/ AllocSection \/ AllocDone
  BY <1>1 DEF ReadLine, EndOfInput, CalcSymbol, NextBucket, AllocSection, AllocDone,
              At, Goto
<1>2. CASE ParseLine
  BY <1>2 DEF ParseLine, Reads, EndOfLine, ParseAsciiUnquoted, ParseError, At, Goto
<1>3. CASE CalcDone
  <2>1. size \in [Sections -> Nat]
    BY DEF TypeInv, TypeOK, OutputTypeOK
  <2>2. \A s \in ProgSections : size'[s] = size[s]
    BY <1>3, <2>1, SectionFacts DEF CalcDone
  <2> QED
    BY <1>3, <2>2 DEF CalcDone, At, Goto
<1>4. CASE WriteNextInstruction \/ InstructionsDone \/ WriteNextData \/ DataDone
  BY <1>4 DEF WriteNextInstruction, InstructionsDone, WriteNextData, DataDone, At, Goto
<1>5. CASE \/ CopyName \/ FillStrtab \/ FillSectionName \/ FillSymtabBlank
           \/ FillSymtabEntry \/ FillSymtabDone
  BY <1>5 DEF CopyName, FillStrtab, FillSectionName, FillSymtabBlank,
              FillSymtabEntry, FillSymtabDone, At, Goto
<1>6. CASE FlushOutput \/ CopyFiles \/ XmallocFails \/ MallocFails \/ UNCHANGED vars
  BY <1>6 DEF FlushOutput, CopyFiles, XmallocFails, MallocFails, vars, At, Goto
<1> QED
  BY <1>1, <1>2, <1>3, <1>4, <1>5, <1>6 DEF Next, Terminated

\* The section in use is the one in force at the next unit, and the sizes are
\* those of the text read so far.
PlaceInv ==
    /\ pc \in Reading => outputsection = Text!SectionAt(source, Len(source) + 1)
    /\ \A s \in ProgSections : size[s] = Text!SectionSize(source, s)

\* Nothing is read yet: .text is in use, and the sections are empty.
LEMMA PlaceInit == Init => PlaceInv
<1> SUFFICES ASSUME Init PROVE PlaceInv
  OBVIOUS
<1>1. /\ source = <<>> /\ outputsection = SECTION_TEXT
      /\ \A s \in ProgSections : size[s] = 0
  BY SectionFacts DEF Init, OutputInit
<1>2. Text!SectionAt(<<>>, Len(source) + 1) = SECTION_TEXT
  <2>1. Text!UnitsOf(<<>>, "section") = {}
    BY DEF Text!UnitsOf
  <2> QED
    BY <2>1 DEF Text!SectionAt, Text!SECTION_TEXT, SECTION_TEXT
<1>3. ASSUME NEW s PROVE Text!SectionSize(<<>>, s) = 0
  <2> DEFINE none == <<>>
             S == {j \in DOMAIN none : Text!SectionAt(none, j) = s}
  <2>1. DOMAIN none \in SUBSET Int /\ S = {}
    OBVIOUS
  <2> HIDE DEF none
  <2>2. Text!SectionSize(none, s) = Sum(Weight(none), S)
    BY <2>1, TextSize
  <2>3. Sum(Weight(none), {}) = 0
    BY SumStep, FS_EmptySet
  <2> QED
    BY <2>1, <2>2, <2>3 DEF none
<1> QED
  BY <1>1, <1>2, <1>3 DEF PlaceInv

\* One more unit.
LEMMA PlaceOn ==
  ASSUME TypeInv, PlaceInv, pc \in Reading, NEW u \in Unit, source' = Append(source, u),
         size'[outputsection] = size[outputsection] + Text!SizeOf(u),
         \A s \in ProgSections : s # outputsection => size'[s] = size[s],
         pc' \in Reading /\ u.unit = "section" => outputsection' = u.section,
         pc' \in Reading /\ u.unit # "section" => outputsection' = outputsection
  PROVE  PlaceInv'
<1>0. PICK new : new = Append(source, u)
  OBVIOUS
<1>1. source \in Seq(Unit)
  BY DEF TypeInv, TypeOK, ControlTypeOK
<1>2. outputsection = Text!SectionAt(source, Len(source) + 1)
  BY DEF PlaceInv
<1>3. ASSUME NEW s \in ProgSections PROVE Text!SectionSize(new, s) = size'[s]
  <2>1. size[s] = Text!SectionSize(source, s) /\ size[s] \in Nat
    <3>1. size \in [Sections -> Nat]
      BY DEF TypeInv, TypeOK, OutputTypeOK
    <3>2. s \in Sections
      BY SectionFacts
    <3> QED
      BY <3>1, <3>2 DEF PlaceInv
  <2>2. CASE outputsection = s
    <3>1. Text!SectionSize(new, s) = Text!SectionSize(source, s) + Text!SizeOf(u)
      BY <1>0, <1>1, <1>2, <2>2, SizeOn
    <3> QED
      BY <2>1, <2>2, <3>1
  <2>3. CASE outputsection # s
    <3>1. Text!SectionSize(new, s) = Text!SectionSize(source, s)
      BY <1>0, <1>1, <1>2, <2>3, SizeOn
    <3> QED
      BY <2>1, <2>3, <3>1
  <2> QED
    BY <2>2, <2>3
<1>4. pc' \in Reading => outputsection' = Text!SectionAt(new, Len(new) + 1)
  <2>1. Len(new) = Len(source) + 1 /\ Len(source) \in Nat
    BY <1>0, <1>1, OneMore
  <2>2. Len(new) + 1 = Len(source) + 2
    BY <2>1
  <2>3. /\ u.unit = "section" => Text!SectionAt(new, Len(source) + 2) = u.section
        /\ u.unit # "section" => Text!SectionAt(new, Len(source) + 2) = outputsection
    BY <1>0, <1>1, <1>2, SectionOn
  <2> QED
    BY <2>2, <2>3
<1>5. (Text!SectionAt(source, Len(source) + 1))' = Text!SectionAt(new, Len(new) + 1)
      /\ \A s \in ProgSections : (Text!SectionSize(source, s))' = Text!SectionSize(new, s)
  BY <1>0
<1> QED
  BY <1>3, <1>4, <1>5 DEF PlaceInv

\* Every step keeps PlaceInv.
LEMMA PlaceNext == TypeInv /\ ItemsInv /\ PlaceInv /\ [Next]_vars => PlaceInv'
<1> SUFFICES ASSUME TypeInv, ItemsInv, PlaceInv, [Next]_vars PROVE PlaceInv'
  OBVIOUS
<1>1. CASE Calm
  BY <1>1 DEF Calm, PlaceInv
<1>2. /\ size \in [Sections -> Nat] /\ outputsection \in ProgSections
      /\ \A s \in ProgSections : size[s] \in Nat
  BY SectionFacts DEF TypeInv, TypeOK, OutputTypeOK
<1>3. ASSUME NEW u, Unread(u) PROVE pc \in Reading /\ source' = Append(source, u)
  BY <1>3 DEF Unread, At, Reading
<1>4. ASSUME NEW u \in Unit, Unread(u), Text!SizeOf(u) = 0, UNCHANGED size,
             pc' \in Reading /\ u.unit = "section" => outputsection' = u.section,
             pc' \in Reading /\ u.unit # "section" => outputsection' = outputsection
      PROVE  PlaceInv'
  BY <1>2, <1>3, <1>4, PlaceOn
<1>5. ASSUME NEW name \in Name, ParseLabel(name) \/ ParseGlobal(name) PROVE PlaceInv'
  <2>1. PICK u \in {Text!LabelUnit(name), Text!GlobalUnit(name)} : Unread(u)
    BY <1>5 DEF ParseLabel, ParseGlobal
  <2>2. u \in Unit /\ Text!SizeOf(u) = 0 /\ u.unit # "section"
    BY DEF Unit, GoodUnit, Text!LabelUnit, Text!GlobalUnit, Text!SizeOf
  <2>3. UNCHANGED <<size, outputsection>>
    BY <1>5 DEF ParseLabel, ParseGlobal, outputVars
  <2> QED
    BY <1>4, <2>1, <2>2, <2>3
<1>6. ASSUME NEW section \in ProgSections, ParseSection(section) PROVE PlaceInv'
  <2> DEFINE u == Text!SectionUnit(section)
  <2>1. u \in Unit /\ Text!SizeOf(u) = 0 /\ u.unit = "section" /\ u.section = section
    BY DEF Unit, GoodUnit, Text!SectionUnit, Text!SizeOf
  <2>2. Unread(u) /\ UNCHANGED size /\ outputsection' = section
    BY <1>6 DEF ParseSection, ChangeOutput
  <2> QED
    BY <1>4, <2>1, <2>2
<1>7. CASE ParseSectionUnknown \/ ParseAscizUnquoted
  <2> DEFINE u == Text!BadUnit
  <2>1. u \in Unit /\ Text!SizeOf(u) = 0
    BY DEF Unit, Text!BadUnit, Text!SizeOf
  <2>2. Unread(u) /\ UNCHANGED size /\ pc' \notin Reading
    BY <1>7 DEF ParseSectionUnknown, ParseAscizUnquoted, outputVars, Goto, Reading
  <2> QED
    BY <1>4, <2>1, <2>2
<1>8. ASSUME NEW u \in Unit, Unread(u), u.unit # "section",
             IncOutputSize(outputsection, Text!SizeOf(u)), UNCHANGED outputsection
      PROVE  PlaceInv'
  <2>1. /\ size'[outputsection] = size[outputsection] + Text!SizeOf(u)
        /\ \A s \in ProgSections : s # outputsection => size'[s] = size[s]
    BY <1>2, <1>8, SectionFacts DEF IncOutputSize
  <2> QED
    BY <1>3, <1>8, <2>1, PlaceOn
<1>9. ASSUME NEW str \in Strings, NEW nullterm \in BOOLEAN, ParseAscii(str, nullterm)
      PROVE  PlaceInv'
  <2> DEFINE u == Text!DataUnit(str, nullterm)
  <2>1. u \in Unit /\ u.unit # "section"
        /\ Text!SizeOf(u) = NullTermSize(str) - (IF nullterm THEN 0 ELSE 1)
    BY BytecodeAssumption DEF Unit, GoodUnit, Text!DataUnit, Text!SizeOf, Text!DataSize,
                              NullTermSize
  <2>2. Unread(u) /\ UNCHANGED outputsection
    BY <1>9 DEF ParseAscii
  <2>3. IncOutputSize(outputsection, NullTermSize(str) - (IF nullterm THEN 0 ELSE 1))
    BY <1>9 DEF ParseAscii, GetOutputPos
  <2> HIDE DEF u
  <2> QED
    BY <1>8, <2>1, <2>2, <2>3
<1>10. ASSUME NEW form \in Forms, NEW n \in Name \cup {NoSymbol}, NEW sym,
              Unread(Text!InsnUnit(form, n)), AddAsm(form, sym),
              Text!InsnUnit(form, n) \in Unit
       PROVE  PlaceInv'
  <2> DEFINE u == Text!InsnUnit(form, n)
  <2>1. u.unit # "section" /\ Text!SizeOf(u) = IdataSize[form]
    BY DEF Text!InsnUnit, Text!SizeOf, Text!InsnSize, IdataSize
  <2>2. position.section = outputsection
    BY <1>10 DEF Unread, At, ItemsInv, GetOutputPos
  <2>3. IncOutputSize(outputsection, IdataSize[form]) /\ UNCHANGED outputsection
    BY <1>10, <2>2 DEF AddAsm
  <2> QED
    BY <1>8, <1>10, <2>1, <2>3
<1>11. ASSUME NEW form \in SymForms, NEW name \in Name, ParseAsmSymbol(form, name)
       PROVE  PlaceInv'
  <2>1. form \in Forms /\ Text!InsnUnit(form, name) \in Unit
    BY DEF Forms, Unit, GoodUnit
  <2> QED
    BY <1>10, <1>11, <2>1 DEF ParseAsmSymbol
<1>12. ASSUME NEW form \in Forms \ SymForms, ParseAsmPlain(form) PROVE PlaceInv'
  <2>1. Text!InsnUnit(form, NoSymbol) \in Unit
    BY DEF Unit, GoodUnit
  <2> QED
    BY <1>10, <1>12, <2>1 DEF ParseAsmPlain
<1> QED
  BY <1>1, <1>5, <1>6, <1>7, <1>9, <1>11, <1>12, ReadsOrCalm DEF Reads

\* The symbol e says what the text src says of the name n: nothing yet, or the
\* place of its last label; and whether it was declared global.
Tells(src, n, e) ==
    /\ Text!LabelsOf(src, n) = {} => e.section = Uninit
    /\ Text!LabelsOf(src, n) # {} =>
        /\ e.section = Text!SectionAt(src, Text!Definition(src, n))
        /\ e.value = Text!AddressOf(src, Text!Definition(src, n))
    /\ Text!IsGlobal(src, n) => e.binding = 16
    /\ ~Text!IsGlobal(src, n) => e.binding = 0

\* Every symbol of the table says what the text read so far does.
EntryInv ==
    \A n \in Name : \A k \in Entries(symbols, n) : Tells(source, n, symbols[Hash[n]][k])

\* A name that has a label has a last one.
LEMMA DefinitionFound ==
  ASSUME NEW src \in Seq(Unit), NEW n, Text!LabelsOf(src, n) # {}
  PROVE  /\ Text!Definition(src, n) \in Text!LabelsOf(src, n)
         /\ Text!Definition(src, n) \in 1 .. Len(src)
         /\ Len(src) \in Nat
<1> DEFINE L == Text!LabelsOf(src, n)
<1>1. L \in SUBSET (1 .. Len(src)) /\ Len(src) \in Nat
  BY DEF Text!LabelsOf, Text!UnitsOf
<1>2. L # {}
  OBVIOUS
<1> HIDE DEF L
<1>3. Text!Max(L) \in L
  BY <1>1, <1>2, MaxFound
<1> QED
  BY <1>1, <1>3 DEF Text!Definition, L

\* A unit that is neither a label of the name nor declares it global changes
\* nothing the symbol says.
LEMMA TellsOn ==
  ASSUME NEW src \in Seq(Unit), NEW u \in Unit, NEW n, NEW e, Tells(src, n, e),
         ~(u.unit \in {"label", "globl"} /\ u.name = n)
  PROVE  Tells(Append(src, u), n, e)
<1>0. PICK new : new = Append(src, u)
  OBVIOUS
<1> DEFINE d == Text!Definition(src, n)
<1>1. /\ Text!LabelsOf(new, n) = Text!LabelsOf(src, n)
      /\ Text!Definition(new, n) = d
      /\ Text!IsGlobal(new, n) <=> Text!IsGlobal(src, n)
  BY <1>0, DefinitionOn
<1>2. ASSUME Text!LabelsOf(src, n) # {}
      PROVE  /\ Text!SectionAt(new, d) = Text!SectionAt(src, d)
             /\ Text!AddressOf(new, d) = Text!AddressOf(src, d)
  <2>1. d \in 1 .. Len(src) + 1
    <3>1. d \in 1 .. Len(src) /\ Len(src) \in Nat
      BY <1>2, DefinitionFound
    <3> QED
      BY <3>1
  <2> QED
    BY <1>0, <2>1, SectionOn, AddressOn
<1> HIDE DEF d
<1>3. Tells(new, n, e)
  BY <1>1, <1>2 DEF Tells, d
<1> QED
  BY <1>0, <1>3

\* A label gives its name the place where the text ends.
LEMMA TellsLabel ==
  ASSUME NEW src \in Seq(Unit), NEW u \in Unit, NEW n, NEW e, NEW f, Tells(src, n, e),
         u.unit = "label", u.name = n, f.binding = e.binding,
         f.section = Text!SectionAt(src, Len(src) + 1),
         f.value = Text!AddressOf(src, Len(src) + 1)
  PROVE  Tells(Append(src, u), n, f)
<1>0. PICK new : new = Append(src, u)
  OBVIOUS
<1>1. Len(src) \in Nat
  OBVIOUS
<1>2. /\ Text!LabelsOf(new, n) # {}
      /\ Text!Definition(new, n) = Len(src) + 1
      /\ Text!IsGlobal(new, n) <=> Text!IsGlobal(src, n)
  BY <1>0, DefinitionOn
<1>3. Len(src) + 1 \in 1 .. Len(src) + 1
  BY <1>1
<1>4. /\ Text!SectionAt(new, Len(src) + 1) = Text!SectionAt(src, Len(src) + 1)
      /\ Text!AddressOf(new, Len(src) + 1) = Text!AddressOf(src, Len(src) + 1)
  BY <1>0, <1>3, SectionOn, AddressOn
<1>5. Tells(new, n, f)
  BY <1>2, <1>4 DEF Tells
<1> QED
  BY <1>0, <1>5

\* A .global line makes the symbol global.
LEMMA TellsGlobal ==
  ASSUME NEW src \in Seq(Unit), NEW u \in Unit, NEW n, NEW e, NEW f, Tells(src, n, e),
         u.unit = "globl", u.name = n, f.binding = 16,
         f.section = e.section, f.value = e.value
  PROVE  Tells(Append(src, u), n, f)
<1>0. PICK new : new = Append(src, u)
  OBVIOUS
<1> DEFINE d == Text!Definition(src, n)
<1>1. /\ Text!LabelsOf(new, n) = Text!LabelsOf(src, n)
      /\ Text!Definition(new, n) = d
      /\ Text!IsGlobal(new, n)
  BY <1>0, DefinitionOn
<1>2. ASSUME Text!LabelsOf(src, n) # {}
      PROVE  /\ Text!SectionAt(new, d) = Text!SectionAt(src, d)
             /\ Text!AddressOf(new, d) = Text!AddressOf(src, d)
  <2>1. d \in 1 .. Len(src) + 1
    <3>1. d \in 1 .. Len(src) /\ Len(src) \in Nat
      BY <1>2, DefinitionFound
    <3> QED
      BY <3>1
  <2> QED
    BY <1>0, <2>1, SectionOn, AddressOn
<1> HIDE DEF d
<1>3. Tells(new, n, f)
  BY <1>1, <1>2 DEF Tells, d
<1> QED
  BY <1>0, <1>3

\* What a call finds under a name, or makes for it, tells what the text does.
LEMMA EntryTells ==
  ASSUME TypeInv, NamesInv, EntryInv, NEW name \in Name
  PROVE  Tells(source, name, Entry(Interned(name), name))
<1>1. SymbolsTypeOK /\ NamesUnique
  BY DEF TypeInv, TypeOK
<1>2. CASE Known(name)
  <2>1. symbols \in Table
    BY <1>1 DEF SymbolsTypeOK, Table
  <2>2. Interned(name) = symbols /\ IndexOf(Interned(name), name) \in Entries(Interned(name), name)
    BY <1>1, <1>2, <2>1, InternedTable DEF Interned
  <2> QED
    BY <2>2 DEF Entry, EntryInv
<1>3. CASE ~Known(name)
  <2>1. name \notin Text!NamesIn(source)
    BY <1>3 DEF NamesInv
  <2>2. Text!LabelsOf(source, name) = {} /\ ~Text!IsGlobal(source, name)
    BY <2>1 DEF Text!NamesIn, Text!LabelsOf, Text!IsGlobal
  <2>3. Entry(Interned(name), name) = NewSymbol(name)
    BY <1>1, <1>3, CallIsPut
  <2> QED
    BY <2>2, <2>3 DEF Tells, NewSymbol
<1> QED
  BY <1>2, <1>3

\* A call replaces the symbol of its name.
LEMMA EntryPut ==
  ASSUME TypeInv, EntryInv, NEW name \in Name, NEW u \in Unit,
         source' = Append(source, u),
         ~(u.unit \in {"label", "globl"} /\ u.name # name),
         NEW sym \in Symbol, sym.name = name, Put(name, sym),
         Tells(Append(source, u), name, sym)
  PROVE  EntryInv'
<1>1. SymbolsTypeOK /\ NamesUnique /\ source \in Seq(Unit)
  BY DEF TypeInv, TypeOK, ControlTypeOK
<1>2. /\ symbols' \in Table /\ UniqueIn(symbols')
      /\ \A n \in Name \ {name} :
            /\ Entries(symbols', n) = Entries(symbols, n)
            /\ \A k \in Entries(symbols, n) : symbols'[Hash[n]][k] = symbols[Hash[n]][k]
      /\ \E k \in Entries(symbols', name) : symbols'[Hash[name]][k] = sym
  BY <1>1, PutTable DEF SymbolsTypeOK, NamesUnique, Table
<1>3. ASSUME NEW k \in Entries(symbols', name)
      PROVE  symbols'[Hash[name]][k] = sym
  BY <1>2, IndexFound
<1>4. ASSUME NEW n \in Name \ {name}, NEW k \in Entries(symbols, n)
      PROVE  Tells(Append(source, u), n, symbols[Hash[n]][k])
  <2>1. Tells(source, n, symbols[Hash[n]][k])
    BY DEF EntryInv
  <2>2. ~(u.unit \in {"label", "globl"} /\ u.name = n)
    OBVIOUS
  <2> QED
    BY <1>1, <2>1, <2>2, TellsOn
<1>5. \A n \in Name : \A k \in Entries(symbols', n) :
            Tells(Append(source, u), n, symbols'[Hash[n]][k])
  <2> SUFFICES ASSUME NEW n \in Name, NEW k \in Entries(symbols', n)
               PROVE  Tells(Append(source, u), n, symbols'[Hash[n]][k])
    OBVIOUS
  <2>1. CASE n = name
    BY <1>3, <2>1
  <2>2. CASE n # name
    BY <1>2, <1>4, <2>2
  <2> QED
    BY <2>1, <2>2
<1> QED
  BY <1>5 DEF EntryInv, Tells

\* A unit that is no label and declares no name leaves the symbols alone.
LEMMA EntrySame ==
  ASSUME TypeInv, EntryInv, UNCHANGED symbols, NEW u \in Unit,
         source' = Append(source, u), u.unit \notin {"label", "globl"}
  PROVE  EntryInv'
<1>1. source \in Seq(Unit)
  BY DEF TypeInv, TypeOK, ControlTypeOK
<1>2. \A n \in Name : \A k \in Entries(symbols, n) :
            Tells(Append(source, u), n, symbols[Hash[n]][k])
  BY <1>1, TellsOn DEF EntryInv
<1> QED
  BY <1>2 DEF EntryInv, Tells, Entries

\* There are no symbols yet.
LEMMA EntryInit == Init => EntryInv
<1> SUFFICES ASSUME Init PROVE EntryInv
  OBVIOUS
<1>1. \A h \in Bucket : symbols[h] = <<>>
  BY DEF Init, SymbolsInit
<1>2. \A n \in Name : Entries(symbols, n) = {}
  BY <1>1, SymbolsAssumption DEF Entries
<1> QED
  BY <1>2 DEF EntryInv

\* Every step keeps EntryInv.
LEMMA EntryNext ==
  TypeInv /\ ItemsInv /\ NamesInv /\ PlaceInv /\ EntryInv /\ [Next]_vars => EntryInv'
<1> SUFFICES ASSUME TypeInv, ItemsInv, NamesInv, PlaceInv, EntryInv, [Next]_vars
             PROVE  EntryInv'
  OBVIOUS
<1>1. SymbolsTypeOK /\ NamesUnique /\ source \in Seq(Unit)
  BY DEF TypeInv, TypeOK, ControlTypeOK
<1>2. ASSUME NEW u, Unread(u)
      PROVE  /\ pc \in Reading /\ source' = Append(source, u)
  BY <1>2 DEF Unread, At, Reading
<1>3. CASE Calm
  BY <1>3 DEF Calm, EntryInv, Tells, Entries, symbolVars
<1>4. ASSUME NEW name \in Name, ParseLabel(name) PROVE EntryInv'
  <2> DEFINE u == Text!LabelUnit(name)
             old == Entry(Interned(name), name)
             sym == [name |-> name, section |-> GetOutputPos.section,
                     value |-> GetOutputPos.offset, binding |-> old.binding]
  <2>1. u \in Unit /\ u.unit = "label" /\ u.name = name
    BY DEF Unit, GoodUnit, Text!LabelUnit
  <2>2. source' = Append(source, u) /\ pc \in Reading
    BY <1>2, <1>4 DEF ParseLabel
  <2>3. old \in Symbol /\ Tells(source, name, old)
    BY <1>1, CallIsPut, EntryTells
  <2>4. /\ GetOutputPos.section = Text!SectionAt(source, Len(source) + 1)
        /\ GetOutputPos.offset = Text!AddressOf(source, Len(source) + 1)
        /\ GetOutputPos.section \in ProgSections /\ GetOutputPos.offset \in Nat
    <3>1. /\ outputsection \in ProgSections
          /\ outputsection = Text!SectionAt(source, Len(source) + 1)
          /\ size[outputsection] = Text!SectionSize(source, outputsection)
      BY <2>2 DEF PlaceInv, TypeInv, TypeOK, OutputTypeOK
    <3>2. GetOutputPos.section = outputsection /\ GetOutputPos.offset = size[outputsection]
      BY DEF GetOutputPos
    <3>3. GetOutputPos \in ProgPosition
      BY PositionType DEF TypeInv, TypeOK
    <3> QED
      BY <1>1, <2>1, <3>1, <3>2, <3>3, AddressOn DEF ProgPosition
  <2> HIDE DEF u, old
  <2>5. sym \in Symbol /\ sym.name = name
    BY <2>3, <2>4 DEF Symbol
  <2>6. Put(name, sym)
    BY <1>4 DEF ParseLabel, DefineLabel, old
  <2>7. Tells(Append(source, u), name, sym)
    BY <1>1, <2>1, <2>3, <2>4, TellsLabel
  <2> HIDE DEF sym
  <2> QED
    BY <2>1, <2>2, <2>5, <2>6, <2>7, EntryPut
<1>5. ASSUME NEW name \in Name, ParseGlobal(name) PROVE EntryInv'
  <2> DEFINE u == Text!GlobalUnit(name)
             old == Entry(Interned(name), name)
             sym == [old EXCEPT !.binding = 16]
  <2>1. u \in Unit /\ u.unit = "globl" /\ u.name = name
    BY DEF Unit, GoodUnit, Text!GlobalUnit
  <2>2. source' = Append(source, u)
    BY <1>2, <1>5 DEF ParseGlobal
  <2>3. old \in Symbol /\ old.name = name /\ Tells(source, name, old)
    BY <1>1, CallIsPut, EntryTells
  <2>4. Put(name, sym)
    BY <1>5 DEF ParseGlobal, MakeGlobal
  <2> HIDE DEF u, old
  <2>5. /\ sym \in Symbol /\ sym.name = name /\ sym.binding = 16
        /\ sym.section = old.section /\ sym.value = old.value
    BY <2>3 DEF Symbol
  <2> HIDE DEF sym
  <2>6. Tells(Append(source, u), name, sym)
    BY <1>1, <2>1, <2>3, <2>5, TellsGlobal
  <2> QED
    BY <2>1, <2>2, <2>4, <2>5, <2>6, EntryPut
<1>6. ASSUME NEW u \in Unit, Unread(u), u.unit \notin {"label", "globl"}, UNCHANGED symbols
      PROVE  EntryInv'
  BY <1>2, <1>6, EntrySame
<1>7. ASSUME NEW section \in ProgSections, ParseSection(section) PROVE EntryInv'
  <2>1. Text!SectionUnit(section) \in Unit
        /\ Text!SectionUnit(section).unit \notin {"label", "globl"}
    BY DEF Unit, GoodUnit, Text!SectionUnit
  <2> QED
    BY <1>6, <1>7, <2>1 DEF ParseSection, symbolVars
<1>8. CASE ParseSectionUnknown \/ ParseAscizUnquoted
  <2>1. Text!BadUnit \in Unit /\ Text!BadUnit.unit \notin {"label", "globl"}
    BY DEF Unit, Text!BadUnit
  <2> QED
    BY <1>6, <1>8, <2>1 DEF ParseSectionUnknown, ParseAscizUnquoted, symbolVars
<1>9. ASSUME NEW str \in Strings, NEW nullterm \in BOOLEAN, ParseAscii(str, nullterm)
      PROVE  EntryInv'
  <2>1. Text!DataUnit(str, nullterm) \in Unit
        /\ Text!DataUnit(str, nullterm).unit \notin {"label", "globl"}
    BY DEF Unit, GoodUnit, Text!DataUnit
  <2> QED
    BY <1>6, <1>9, <2>1 DEF ParseAscii, symbolVars
<1>10. ASSUME NEW form \in Forms \ SymForms, ParseAsmPlain(form) PROVE EntryInv'
  <2>1. Text!InsnUnit(form, NoSymbol) \in Unit
        /\ Text!InsnUnit(form, NoSymbol).unit \notin {"label", "globl"}
    BY DEF Unit, GoodUnit, Text!InsnUnit
  <2> QED
    BY <1>6, <1>10, <2>1 DEF ParseAsmPlain, symbolVars
<1>11. ASSUME NEW form \in SymForms, NEW name \in Name, ParseAsmSymbol(form, name)
       PROVE  EntryInv'
  <2> DEFINE u == Text!InsnUnit(form, name)
             sym == Entry(Interned(name), name)
  <2>1. u \in Unit /\ u.unit = "insn"
    BY DEF Unit, GoodUnit, Text!InsnUnit
  <2>2. source' = Append(source, u)
    BY <1>2, <1>11 DEF ParseAsmSymbol
  <2>3. sym \in Symbol /\ sym.name = name /\ Tells(source, name, sym)
    BY <1>1, CallIsPut, EntryTells
  <2>4. Put(name, sym)
    BY <1>11 DEF ParseAsmSymbol, GetOrCreateSymbol
  <2> HIDE DEF u, sym
  <2>5. Tells(Append(source, u), name, sym)
    BY <1>1, <2>1, <2>3, TellsOn
  <2> QED
    BY <2>1, <2>2, <2>3, <2>4, <2>5, EntryPut
<1> QED
  BY <1>3, <1>4, <1>5, <1>7, <1>8, <1>9, <1>10, <1>11, ReadsOrCalm DEF Reads

\* Where unit k of the text belongs.
Place(src, k) == [section |-> Text!SectionAt(src, k), offset |-> Text!AddressOf(src, k)]

\* The pointer is to the symbol of that name.
PointsTo(ptr, name) ==
    IF name = NoSymbol THEN ptr = NoSymbol
    ELSE /\ ptr # NoSymbol /\ ptr.hash = Hash[name]
         /\ ptr.index \in DOMAIN symbols[ptr.hash]
         /\ Deref(ptr).name = name

\* The item is unit k of the text.
IsAsm(src, k, insn) ==
    /\ insn.form = src[k].form /\ insn.position = Place(src, k)
    /\ PointsTo(insn.sym, src[k].name)

IsData(src, k, item) ==
    /\ item.str = src[k].str /\ item.nullterm = src[k].nullterm
    /\ item.size = Text!SizeOf(src[k]) /\ item.position = Place(src, k)

\* Some item of the list is unit k.
AsmThere(src, k) == \E j \in DOMAIN instructions : IsAsm(src, k, instructions[j])
DataThere(src, k) == \E j \in DOMAIN dataitems : IsData(src, k, dataitems[j])

\* Until the lists are freed every unit with bytes has its item.
UnitsInv ==
    pc # "copy" =>
        /\ \A k \in Text!UnitsOf(source, "insn") : AsmThere(source, k)
        /\ \A k \in Text!UnitsOf(source, "data") : DataThere(source, k)

\* A call leaves every pointer at its name.
LEMMA PointsOn ==
  ASSUME TypeInv, UNCHANGED symbols \/ \E name \in Name : Calls(name),
         NEW ptr, NEW n \in Name \cup {NoSymbol}, PointsTo(ptr, n)
  PROVE  PointsTo(ptr, n)'
<1>1. SymbolsTypeOK /\ NamesUnique
  BY DEF TypeInv, TypeOK
<1>2. CASE UNCHANGED symbols \/ n = NoSymbol
  BY <1>2 DEF PointsTo, Deref
<1>3. ASSUME NEW name \in Name, Calls(name), n # NoSymbol
      PROVE  PointsTo(ptr, n)'
  <2>1. PICK sym \in Symbol : sym.name = name /\ Put(name, sym)
    BY <1>1, <1>3, CallPuts DEF Calls
  <2>2. \A h \in Bucket : \A k \in DOMAIN symbols[h] :
                k \in DOMAIN symbols'[h] /\ symbols'[h][k].name = symbols[h][k].name
    BY <1>1, <2>1, PutTable
  <2>3. ptr.hash \in Bucket
    BY <1>3, SymbolsAssumption DEF PointsTo
  <2> QED
    BY <1>3, <2>2, <2>3 DEF PointsTo, Deref
<1> QED
  BY <1>2, <1>3

\* The pointer a call hands out is to its name.
LEMMA PointsThere ==
  ASSUME TypeInv, NEW name \in Name, GetOrCreateSymbol(name)
  PROVE  \A ptr : ptr = PointerTo(name) => PointsTo(ptr, name)'
<1> DEFINE m == IndexOf(Interned(name), name)
           tab == Interned(name)
           ptr == PointerTo(name)
<1>1. SymbolsTypeOK /\ NamesUnique
  BY DEF TypeInv, TypeOK
<1>2. tab \in Table /\ UniqueIn(tab) /\ m \in Entries(tab, name)
  BY <1>1, InternedTable DEF SymbolsTypeOK, Table
<1>3. m \in 1 .. Len(tab[Hash[name]]) /\ Hash[name] \in Bucket
  BY <1>2, IndexFound, SymbolsAssumption
<1>4. tab[Hash[name]] \in Seq(Symbol)
  BY <1>2, <1>3 DEF Table
<1>5. symbols' = [tab EXCEPT ![Hash[name]] = [tab[Hash[name]] EXCEPT ![m] = Entry(tab, name)]]
  BY DEF GetOrCreateSymbol, Put
<1>6. ptr \in Pointer /\ ptr.index \in DOMAIN symbols'[ptr.hash] /\ ptr.hash = Hash[name]
  BY <1>1, PointerType
<1>7. ptr.index = m
  BY DEF PointerTo
<1>8. Entry(tab, name).name = name
  BY <1>1, CallIsPut
<1>9. ptr # NoSymbol /\ name # NoSymbol
  BY <1>6, SymbolsAssumption DEF Pointer
<1> HIDE DEF m, tab, ptr
<1>10. symbols'[Hash[name]][m] = Entry(tab, name)
  BY <1>2, <1>3, <1>4, <1>5 DEF Table
<1>11. symbols'[ptr.hash][ptr.index].name = name
  BY <1>6, <1>7, <1>8, <1>10
<1>12. ASSUME NEW p, p = ptr PROVE PointsTo(p, name)'
  BY <1>6, <1>9, <1>11, <1>12 DEF PointsTo, Deref
<1> QED
  BY <1>12 DEF ptr

\* While a line is read the end of the section in use is where the next unit
\* belongs.
LEMMA PlaceHere ==
  ASSUME TypeInv, PlaceInv, pc \in Reading, NEW u \in Unit
  PROVE  GetOutputPos = Place(Append(source, u), Len(source) + 1)
<1>1. source \in Seq(Unit)
  BY DEF TypeInv, TypeOK, ControlTypeOK
<1>2. /\ outputsection \in ProgSections
      /\ outputsection = Text!SectionAt(source, Len(source) + 1)
      /\ size[outputsection] = Text!SectionSize(source, outputsection)
  BY DEF PlaceInv, TypeInv, TypeOK, OutputTypeOK
<1>3. Text!AddressOf(source, Len(source) + 1) = size[outputsection]
  BY <1>1, <1>2, AddressOn
<1>4. Len(source) + 1 \in 1 .. Len(source) + 1
  BY <1>1
<1>5. /\ Text!SectionAt(Append(source, u), Len(source) + 1) = outputsection
      /\ Text!AddressOf(Append(source, u), Len(source) + 1) = size[outputsection]
  BY <1>1, <1>2, <1>3, <1>4, SectionOn, AddressOn
<1> QED
  BY <1>5 DEF GetOutputPos, Place

\* The units there keep their items; the new one needs its own.
LEMMA UnitsOn ==
  ASSUME TypeInv, UnitsInv, pc # "copy", NEW u \in Unit, source' = Append(source, u),
         UNCHANGED symbols \/ \E name \in Name : Calls(name),
         \A j \in DOMAIN instructions :
            j \in DOMAIN instructions' /\ instructions'[j] = instructions[j],
         \A j \in DOMAIN dataitems :
            j \in DOMAIN dataitems' /\ dataitems'[j] = dataitems[j],
         u.unit = "insn" => AsmThere(source, Len(source))',
         u.unit = "data" => DataThere(source, Len(source))'
  PROVE  UnitsInv'
<1>1. source \in Seq(Unit) /\ Len(source) \in Nat
  BY DEF TypeInv, TypeOK, ControlTypeOK
<1>2. /\ DOMAIN source = 1 .. Len(source) /\ Len(source') = Len(source) + 1
      /\ \A k \in 1 .. Len(source) : source'[k] = source[k]
      /\ \A kind : \A k \in Text!UnitsOf(source', kind) :
            k \in Text!UnitsOf(source, kind) \/ (k = Len(source') /\ u.unit = kind)
  BY <1>1, OneMore
<1>3. ASSUME NEW k \in 1 .. Len(source)
      PROVE  Place(source', k) = Place(source, k) /\ source'[k] = source[k]
  <2>1. k \in 1 .. Len(source) + 1
    BY <1>1
  <2> QED
    BY <1>1, <1>2, <2>1, SectionOn, AddressOn DEF Place
<1>4. ASSUME NEW k \in Text!UnitsOf(source, "insn") PROVE AsmThere(source, k)'
  <2>1. k \in 1 .. Len(source) /\ source[k].name \in Name \cup {NoSymbol}
    <3>1. k \in 1 .. Len(source) /\ source[k] \in Unit /\ source[k].unit = "insn"
      BY <1>1, <1>2 DEF Text!UnitsOf
    <3> QED
      BY <3>1, UnitFacts
  <2>2. PICK j \in DOMAIN instructions : IsAsm(source, k, instructions[j])
    BY DEF UnitsInv, AsmThere
  <2>3. PointsTo(instructions[j].sym, source[k].name)'
    <3> DEFINE ptr == instructions[j].sym
               n == source[k].name
    <3>1. PointsTo(ptr, n) /\ n \in Name \cup {NoSymbol}
      BY <2>1, <2>2 DEF IsAsm
    <3>2. instructions'[j].sym = ptr /\ source'[k].name = n
      BY <1>2, <2>1
    <3> HIDE DEF ptr, n
    <3>3. \A p, m : p = ptr /\ m = n => PointsTo(p, m)'
      BY <3>1, PointsOn
    <3> QED
      BY <3>2, <3>3
  <2>4. IsAsm(source, k, instructions[j])'
    BY <1>3, <2>1, <2>2, <2>3 DEF IsAsm
  <2> QED
    BY <2>4 DEF AsmThere
<1>5. ASSUME NEW k \in Text!UnitsOf(source, "data") PROVE DataThere(source, k)'
  <2>1. k \in 1 .. Len(source)
    BY <1>2 DEF Text!UnitsOf
  <2>2. PICK j \in DOMAIN dataitems : IsData(source, k, dataitems[j])
    BY DEF UnitsInv, DataThere
  <2>3. j \in DOMAIN dataitems' /\ IsData(source', k, dataitems'[j])
    BY <1>3, <2>1, <2>2 DEF IsData
  <2> QED
    BY <2>3 DEF DataThere, IsData, Place
<1>6. \A k \in Text!UnitsOf(source', "insn") : AsmThere(source, k)'
  BY <1>2, <1>4
<1>7. \A k \in Text!UnitsOf(source', "data") : DataThere(source, k)'
  BY <1>2, <1>5
<1> QED
  BY <1>6, <1>7 DEF UnitsInv

\* There are no units yet.
LEMMA UnitsInit == Init => UnitsInv
<1> SUFFICES ASSUME Init PROVE UnitsInv
  OBVIOUS
<1>1. source = <<>>
  BY DEF Init
<1>2. \A kind : Text!UnitsOf(source, kind) = {}
  BY <1>1 DEF Text!UnitsOf
<1> QED
  BY <1>2 DEF UnitsInv

\* A unit without bytes needs no item.
LEMMA UnitsSame ==
  ASSUME TypeInv, UnitsInv, pc # "copy", NEW u \in Unit, source' = Append(source, u),
         UNCHANGED symbols \/ \E name \in Name : Calls(name), UNCHANGED itemVars,
         u.unit \notin {"insn", "data"}
  PROVE  UnitsInv'
<1>1. /\ \A j \in DOMAIN instructions :
            j \in DOMAIN instructions' /\ instructions'[j] = instructions[j]
      /\ \A j \in DOMAIN dataitems :
            j \in DOMAIN dataitems' /\ dataitems'[j] = dataitems[j]
  BY DEF itemVars
<1> QED
  BY <1>1, UnitsOn

\* An instruction is recorded for its unit.
LEMMA UnitsAsm ==
  ASSUME TypeInv, ItemsInv, PlaceInv, UnitsInv, pc = "line",
         NEW form \in Forms, NEW n \in Name \cup {NoSymbol}, NEW sym,
         Text!InsnUnit(form, n) \in Unit, source' = Append(source, Text!InsnUnit(form, n)),
         UNCHANGED symbols \/ \E name \in Name : Calls(name),
         AddAsm(form, sym), PointsTo(sym, n)'
  PROVE  UnitsInv'
<1> DEFINE u == Text!InsnUnit(form, n)
           insn == [form |-> form, sym |-> sym, position |-> position]
<1>1. /\ source \in Seq(Unit) /\ Len(source) \in Nat
      /\ instructions \in Seq(Instruction) /\ UNCHANGED dataitems
      /\ instructions' = Append(instructions, insn)
  BY DEF TypeInv, TypeOK, ControlTypeOK, BytecodeTypeOK, AddAsm, AddInstruction
<1>2. u.unit = "insn" /\ u.form = form /\ u.name = n
  BY DEF Text!InsnUnit
<1>3. position = Place(Append(source, u), Len(source) + 1)
  <2>1. position = GetOutputPos /\ pc \in Reading
    BY DEF ItemsInv, Reading
  <2> HIDE DEF u
  <2>2. u \in Unit
    BY DEF u
  <2> QED
    BY <2>1, <2>2, PlaceHere
<1>4. insn.form = form /\ insn.sym = sym /\ insn.position = position
  OBVIOUS
<1> HIDE DEF insn, u
<1>5. /\ Len(instructions) + 1 \in DOMAIN instructions'
      /\ instructions'[Len(instructions) + 1] = insn
      /\ \A j \in DOMAIN instructions :
            j \in DOMAIN instructions' /\ instructions'[j] = instructions[j]
  BY <1>1
<1>6. Len(source') = Len(source) + 1 /\ source'[Len(source')] = u
  BY <1>1 DEF u
<1>7. AsmThere(source, Len(source))'
  <2>1. PICK k, j : k = Len(source') /\ j = Len(instructions) + 1
    OBVIOUS
  <2>2. /\ Place(source', k) = insn.position /\ insn.form = source'[k].form
        /\ source'[k].name = n /\ instructions'[j] = insn /\ insn.sym = sym
        /\ j \in DOMAIN instructions'
    BY <1>1, <1>2, <1>3, <1>4, <1>5, <1>6, <2>1 DEF u
  <2>3. PointsTo(instructions[j].sym, source[k].name)'
    <3>1. \A p, m : p = sym /\ m = n => PointsTo(p, m)'
      OBVIOUS
    <3> QED
      BY <2>2, <3>1
  <2>4. Place(source, k)' = insn.position
    BY <2>2 DEF Place
  <2>5. IsAsm(source, k, instructions[j])'
    BY <2>2, <2>3, <2>4 DEF IsAsm
  <2>6. \A l : l = Len(source') => AsmThere(source, l)'
    BY <2>1, <2>2, <2>5 DEF AsmThere
  <2> QED
    BY <2>6
<1>8. u \in Unit /\ source' = Append(source, u) /\ u.unit # "data" /\ pc # "copy"
      /\ \A j \in DOMAIN dataitems :
            j \in DOMAIN dataitems' /\ dataitems'[j] = dataitems[j]
  BY <1>1, <1>2 DEF u
<1> QED
  BY <1>5, <1>7, <1>8, UnitsOn

\* A string is recorded for its unit.
LEMMA UnitsData ==
  ASSUME TypeInv, ItemsInv, PlaceInv, UnitsInv,
         NEW str \in Strings, NEW nullterm \in BOOLEAN, ParseAscii(str, nullterm)
  PROVE  UnitsInv'
<1> DEFINE u == Text!DataUnit(str, nullterm)
           sz == NullTermSize(str) - (IF nullterm THEN 0 ELSE 1)
           item == [str |-> str, nullterm |-> nullterm, size |-> sz,
                    position |-> GetOutputPos]
<1>1. /\ source \in Seq(Unit) /\ Len(source) \in Nat /\ source' = Append(source, u)
      /\ dataitems \in Seq(RawData) /\ UNCHANGED <<instructions, symbols>>
      /\ dataitems' = Append(dataitems, item) /\ pc = "line"
  BY DEF TypeInv, TypeOK, ControlTypeOK, BytecodeTypeOK, ParseAscii, AddData, symbolVars,
         Unread, At
<1>2. u \in Unit /\ u.unit = "data" /\ u.str = str /\ u.nullterm = nullterm
      /\ Text!SizeOf(u) = sz
  BY BytecodeAssumption DEF Unit, GoodUnit, Text!DataUnit, Text!SizeOf, Text!DataSize,
                            NullTermSize
<1>3. item.str = str /\ item.nullterm = nullterm /\ item.size = sz
      /\ item.position = GetOutputPos
  OBVIOUS
<1> HIDE DEF item, u, sz
<1>4. GetOutputPos = Place(Append(source, u), Len(source) + 1)
  <2>1. pc \in Reading
    BY <1>1 DEF Reading
  <2> QED
    BY <1>2, <2>1, PlaceHere
<1>5. /\ Len(dataitems) + 1 \in DOMAIN dataitems'
      /\ dataitems'[Len(dataitems) + 1] = item
      /\ \A j \in DOMAIN dataitems :
            j \in DOMAIN dataitems' /\ dataitems'[j] = dataitems[j]
  BY <1>1
<1>6. Len(source') = Len(source) + 1 /\ source'[Len(source')] = u
  BY <1>1
<1>7. DataThere(source, Len(source))'
  <2>1. Place(source', Len(source')) = item.position
    BY <1>1, <1>3, <1>4, <1>6
  <2>2. IsData(source', Len(source'), item)
    BY <1>2, <1>3, <1>6, <2>1 DEF IsData
  <2>3. (\E j \in DOMAIN dataitems' : IsData(source', Len(source'), dataitems'[j]))
    BY <1>5, <2>2
  <2> QED
    BY <2>3 DEF DataThere, IsData, Place
<1>8. /\ \A j \in DOMAIN instructions :
            j \in DOMAIN instructions' /\ instructions'[j] = instructions[j]
      /\ u.unit # "insn" /\ pc # "copy"
  BY <1>1, <1>2
<1> QED
  BY <1>1, <1>2, <1>5, <1>7, <1>8, UnitsOn

\* Every step keeps UnitsInv.
LEMMA UnitsNext == TypeInv /\ ItemsInv /\ PlaceInv /\ UnitsInv /\ [Next]_vars => UnitsInv'
<1> SUFFICES ASSUME TypeInv, ItemsInv, PlaceInv, UnitsInv, [Next]_vars PROVE UnitsInv'
  OBVIOUS
<1>1. CASE Calm
  BY <1>1 DEF Calm, UnitsInv, AsmThere, DataThere, IsAsm, IsData, PointsTo, Deref, Place,
              symbolVars, itemVars
<1>2. ASSUME NEW u, Unread(u)
      PROVE  source' = Append(source, u) /\ pc = "line" /\ pc # "copy"
  BY <1>2 DEF Unread, At
<1>3. ASSUME NEW name \in Name, ParseLabel(name) \/ ParseGlobal(name) PROVE UnitsInv'
  <2>1. PICK u \in {Text!LabelUnit(name), Text!GlobalUnit(name)} : Unread(u)
    BY <1>3 DEF ParseLabel, ParseGlobal
  <2>2. u \in Unit /\ u.unit \notin {"insn", "data"}
    BY DEF Unit, GoodUnit, Text!LabelUnit, Text!GlobalUnit
  <2>3. UNCHANGED itemVars
    BY <1>3 DEF ParseLabel, ParseGlobal
  <2>4. Calls(name)
    <3>1. GetOutputPos \in ProgPosition
      BY PositionType DEF TypeInv, TypeOK
    <3>2. GetOutputPos.section \in ProgSections /\ GetOutputPos.offset \in Nat
      BY <3>1 DEF ProgPosition
    <3> QED
      BY <1>3, <3>2 DEF ParseLabel, ParseGlobal, Calls
  <2> QED
    BY <1>2, <2>1, <2>2, <2>3, <2>4, UnitsSame
<1>4. ASSUME NEW section \in ProgSections, ParseSection(section) PROVE UnitsInv'
  <2> DEFINE u == Text!SectionUnit(section)
  <2>1. u \in Unit /\ u.unit \notin {"insn", "data"}
    BY DEF Unit, GoodUnit, Text!SectionUnit
  <2>2. Unread(u) /\ UNCHANGED <<symbols, itemVars>>
    BY <1>4 DEF ParseSection, symbolVars
  <2> QED
    BY <1>2, <2>1, <2>2, UnitsSame
<1>5. CASE ParseSectionUnknown \/ ParseAscizUnquoted
  BY <1>5 DEF ParseSectionUnknown, ParseAscizUnquoted, Goto, UnitsInv
<1>6. ASSUME NEW form \in SymForms, NEW name \in Name, ParseAsmSymbol(form, name)
      PROVE  UnitsInv'
  <2>1. form \in Forms /\ Text!InsnUnit(form, name) \in Unit /\ name \in Name \cup {NoSymbol}
    BY DEF Forms, Unit, GoodUnit
  <2>2. PICK ptr : ptr = PointerTo(name)
    OBVIOUS
  <2>3. /\ Unread(Text!InsnUnit(form, name)) /\ GetOrCreateSymbol(name)
        /\ AddAsm(form, PointerTo(name)) /\ Calls(name)
    BY <1>6 DEF ParseAsmSymbol, Calls
  <2>4. PointsTo(ptr, name)'
    <3>1. \A p : p = PointerTo(name) => PointsTo(p, name)'
      BY <2>3, PointsThere
    <3> QED
      BY <2>2, <3>1
  <2>5. AddAsm(form, ptr)
    BY <2>2, <2>3
  <2> QED
    BY <1>2, <2>1, <2>3, <2>4, <2>5, UnitsAsm
<1>7. ASSUME NEW form \in Forms \ SymForms, ParseAsmPlain(form) PROVE UnitsInv'
  <2>1. Text!InsnUnit(form, NoSymbol) \in Unit /\ NoSymbol \in Name \cup {NoSymbol}
    BY DEF Unit, GoodUnit
  <2>2. /\ Unread(Text!InsnUnit(form, NoSymbol)) /\ AddAsm(form, NoSymbol)
        /\ UNCHANGED symbols
    BY <1>7 DEF ParseAsmPlain, symbolVars
  <2>3. PointsTo(NoSymbol, NoSymbol)'
    BY DEF PointsTo
  <2> QED
    BY <1>2, <2>1, <2>2, <2>3, UnitsAsm
<1> QED
  BY <1>1, <1>3, <1>4, <1>5, <1>6, <1>7, UnitsData, ReadsOrCalm DEF Reads

-----------------------------------------------------------------------------
(***************************************************************************)
(* Where the pointers of the instructions may dangle.                      *)
(***************************************************************************)

\* The array behind a pointer has moved only if its bucket has grown since.
Held(insn) ==
    insn.sym # NoSymbol => Live(insn.sym) \/ insn.sym.index < Len(symbols[insn.sym.hash])

PointersHeld == pc # "copy" => \A k \in DOMAIN instructions : Held(instructions[k])

\* A call moves the array of a bucket only where it appends to it.
LEMMA CallMoves ==
  ASSUME TypeInv, NEW name \in Name, Calls(name), NEW h \in Bucket
  PROVE  /\ Len(symbols[h]) <= Len(symbols'[h])
         /\ block'[h] = block[h] \/ Len(symbols[h]) < Len(symbols'[h])
<1>1. SymbolsTypeOK /\ NamesUnique
  BY DEF TypeInv, TypeOK
<1>2. PICK sym \in Symbol : sym.name = name /\ Put(name, sym)
  BY <1>1, CallPuts DEF Calls
<1> DEFINE g == Hash[name]
           tab == Interned(name)
           m == IndexOf(tab, name)
<1>3. /\ symbols \in Table /\ tab \in Table /\ g \in Bucket
      /\ \A a \in Bucket : a # g => tab[a] = symbols[a]
      /\ ~Known(name) => tab[g] = Append(symbols[g], NewSymbol(name))
      /\ Known(name) => tab = symbols
  BY <1>1, InternedTable, SymbolsAssumption DEF SymbolsTypeOK, Table, Interned
<1>4. PICK b \in BlocksAfter(name) : block' = [block EXCEPT ![g] = b]
  BY <1>2 DEF Put
<1>5. symbols' = [tab EXCEPT ![g] = [tab[g] EXCEPT ![m] = sym]]
  BY <1>2 DEF Put
<1>6. Known(name) => b = block[g]
  BY <1>4 DEF BlocksAfter
<1>7. block \in [Bucket -> Nat] /\ symbols[h] \in Seq(Symbol) /\ tab[h] \in Seq(Symbol)
  BY <1>1, <1>3 DEF SymbolsTypeOK, Table
<1> HIDE DEF g, tab, m
<1>8. Len(symbols'[h]) = Len(tab[h])
  BY <1>3, <1>5, <1>7 DEF Table
<1>9. CASE h # g \/ Known(name)
  <2>1. tab[h] = symbols[h] /\ block'[h] = block[h]
    BY <1>3, <1>4, <1>6, <1>7, <1>9
  <2> QED
    BY <1>7, <1>8, <2>1
<1>10. CASE h = g /\ ~Known(name)
  <2>1. Len(tab[h]) = Len(symbols[h]) + 1
    BY <1>3, <1>7, <1>10
  <2> QED
    BY <1>7, <1>8, <2>1
<1> QED
  BY <1>9, <1>10

\* So the pointers handed out before it dangle for no other reason.
LEMMA CallHolds ==
  ASSUME TypeInv, PointersHeld, pc # "copy", NEW name \in Name, Calls(name),
         NEW k \in DOMAIN instructions, instructions[k].sym # NoSymbol
  PROVE  \/ instructions[k].sym.block = block'[instructions[k].sym.hash]
         \/ instructions[k].sym.index < Len(symbols'[instructions[k].sym.hash])
<1> DEFINE ptr == instructions[k].sym
           h == ptr.hash
<1>1. ptr \in Pointer
  <2>1. instructions[k] \in Instruction
    BY DEF TypeInv, TypeOK, BytecodeTypeOK
  <2> QED
    BY <2>1 DEF Instruction
<1>2. h \in Bucket /\ ptr.index \in DOMAIN symbols[h]
  BY <1>1 DEF Pointer, TypeInv, PointersInTable
<1>3. ptr.block = block[h] \/ ptr.index < Len(symbols[h])
  BY DEF PointersHeld, Held, Live
<1>4. /\ Len(symbols[h]) <= Len(symbols'[h])
      /\ block'[h] = block[h] \/ Len(symbols[h]) < Len(symbols'[h])
  BY <1>2, CallMoves
<1>5. symbols[h] \in Seq(Symbol) /\ symbols'[h] \in Seq(Symbol)
  BY <1>2, CallType DEF Calls, TypeInv, TypeOK, SymbolsTypeOK
<1> HIDE DEF h
<1>6. CASE block'[h] = block[h]
  BY <1>2, <1>3, <1>4, <1>5, <1>6 DEF h
<1>7. CASE Len(symbols[h]) < Len(symbols'[h])
  <2>1. ptr.index < Len(symbols'[h])
    <3> HIDE DEF ptr
    <3> QED
      BY <1>2, <1>5, <1>7
  <2> QED
    BY <2>1 DEF h
<1> QED
  BY <1>4, <1>6, <1>7

\* Every step keeps PointersHeld.
LEMMA HeldNext == TypeInv /\ PointersHeld /\ [Next]_vars => PointersHeld'
<1> SUFFICES ASSUME TypeInv, PointersHeld, [Next]_vars PROVE PointersHeld'
  OBVIOUS
<1>1. ASSUME UNCHANGED <<instructions, symbolVars>>, pc # "copy" PROVE PointersHeld'
  BY <1>1 DEF PointersHeld, Held, Live, symbolVars
<1>2. CASE Calm
  BY <1>2 DEF Calm, PointersHeld, Held, Live, Deref, symbolVars, itemVars
<1>3. Reads => pc # "copy"
  BY DEF Reads, ParseLabel, ParseGlobal, ParseSection, ParseSectionUnknown, ParseAscii,
         ParseAscizUnquoted, ParseAsmSymbol, ParseAsmPlain, Unread, At
<1>4. ASSUME NEW name \in Name, ParseLabel(name) \/ ParseGlobal(name)
      PROVE  PointersHeld'
  <2>1. Calls(name) /\ instructions' = instructions
    BY <1>4, PositionType DEF ParseLabel, ParseGlobal, Calls, itemVars, TypeInv, TypeOK,
                              ProgPosition
  <2>2. pc # "copy"
    BY <1>4, <1>3 DEF Reads
  <2> QED
    BY <2>1, <2>2, CallHolds DEF PointersHeld, Held, Live
<1>5. CASE \/ ParseSectionUnknown \/ ParseAscizUnquoted
           \/ \E section \in ProgSections : ParseSection(section)
           \/ \E str \in Strings, nullterm \in BOOLEAN : ParseAscii(str, nullterm)
  BY <1>1, <1>5, <1>3 DEF Reads, ParseSectionUnknown, ParseAscizUnquoted, ParseSection, ParseAscii,
                    itemVars
<1>6. ASSUME NEW form \in SymForms, NEW name \in Name, ParseAsmSymbol(form, name)
      PROVE  PointersHeld'
  <2> DEFINE new == PointerTo(name)
  <2>1. form \in Forms /\ GetOrCreateSymbol(name) /\ AddAsm(form, new) /\ Calls(name)
    BY <1>6 DEF ParseAsmSymbol, Forms, SymForms, Calls
  <2>2. pc # "copy"
    BY <1>6, <1>3 DEF Reads
  <2>3. new \in Pointer /\ new.block = block'[new.hash]
    BY <2>1, PointerType DEF TypeInv, TypeOK
  <2> HIDE DEF new
  <2>4. \A k \in DOMAIN instructions' :
            \/ k \in DOMAIN instructions /\ instructions'[k] = instructions[k]
            \/ instructions'[k].sym = new
    BY <2>1, <2>3, AddAsmType
  <2>5. \A k \in DOMAIN instructions :
            instructions[k].sym # NoSymbol =>
                \/ instructions[k].sym.block = block'[instructions[k].sym.hash]
                \/ instructions[k].sym.index < Len(symbols'[instructions[k].sym.hash])
    BY <2>1, <2>2, CallHolds
  <2> QED
    BY <2>3, <2>4, <2>5, <2>2 DEF PointersHeld, Held, Live
<1>7. ASSUME NEW form \in Forms \ SymForms, ParseAsmPlain(form) PROVE PointersHeld'
  <2>1. AddAsm(form, NoSymbol) /\ UNCHANGED <<symbols, block>>
    BY <1>7 DEF ParseAsmPlain, symbolVars
  <2>2. \A k \in DOMAIN instructions' :
            \/ k \in DOMAIN instructions /\ instructions'[k] = instructions[k]
            \/ instructions'[k].sym = NoSymbol
    BY <2>1, AddAsmType
  <2>3. pc # "copy"
    BY <1>7, <1>3 DEF Reads
  <2> QED
    BY <2>1, <2>2, <2>3 DEF PointersHeld, Held, Live
<1> QED
  BY <1>2, <1>4, <1>5, <1>6, <1>7, ReadsOrCalm DEF Reads

\* Whatever the hash function and the source, of any length: the instructions of
\* write_all hold the references of the source, in their places, with pointers
\* that still name the symbols they were taken for, and the only pointers that
\* can dangle are those with a later name in their bucket.  This is exactly how
\* far the realloc of create_symbol reaches into the instructions parsed before.
THEOREM PointersTracked == Spec => []PointersTrack
<1> DEFINE Inv == TypeInv /\ ItemsInv /\ PlaceInv /\ UnitsInv /\ PointersHeld
<1>1. Init => Inv
  <2>1. Init => PointersHeld
    BY DEF Init, BytecodeInit, PointersHeld
  <2> QED
    BY <2>1, TypeInvInit, ItemsInit, PlaceInit, UnitsInit
<1>2. Inv /\ [Next]_vars => Inv'
  BY TypeInvNext, ItemsNext, PlaceNext, UnitsNext, HeldNext
<1>3. Inv => PointersTrack
  <2> SUFFICES ASSUME UnitsInv, PointersHeld, pc # "copy",
                      NEW u \in Text!SymbolRefs(source)
               PROVE  \E k \in DOMAIN instructions : Tracks(instructions[k], u)
    BY DEF PointersTrack
  <2>1. u \in Text!UnitsOf(source, "insn") /\ source[u].name # NoSymbol
    BY DEF Text!SymbolRefs
  <2>2. PICK k \in DOMAIN instructions : IsAsm(source, u, instructions[k])
    BY <2>1 DEF UnitsInv, AsmThere
  <2>3. Held(instructions[k])
    BY DEF PointersHeld
  <2>4. Tracks(instructions[k], u)
    BY <2>1, <2>2, <2>3 DEF Tracks, IsAsm, PointsTo, Place, Held
  <2> QED
    BY <2>4
<1> HIDE DEF Inv
<1> QED
  BY <1>1, <1>2, <1>3, PTL DEF Spec

-----------------------------------------------------------------------------
(***************************************************************************)
(* What the items turn into.                                               *)
(***************************************************************************)

\* The write of an instruction; of its operand nothing is said where the symbol
\* could not be read.
AsmBytes(insn, w) ==
    /\ w.at = insn.position.offset /\ w.len = EmittedSize[insn.form]
    /\ (insn.sym # NoSymbol => Readable(insn.sym)) =>
            w.bytes = [form |-> insn.form, operand |-> Operand(insn)]

\* The write of a string.
DataBytesOf(item, w) ==
    /\ w.at = item.position.offset /\ w.len = item.size
    /\ w.bytes = [str |-> item.str, nullterm |-> item.nullterm]

\* The item has been written to its section.
AsmOut(insn) ==
    \E w \in DOMAIN contents[insn.position.section] :
        AsmBytes(insn, contents[insn.position.section][w])
DataOut(item) ==
    \E w \in DOMAIN contents[item.position.section] :
        DataBytesOf(item, contents[item.position.section][w])

\* The items written so far are in their sections.
BytesInv ==
    Running /\ pc \in Writing \cup {"flush"} =>
        /\ \A j \in DOMAIN instructions :
                (pc = "instructions" => j < i) => AsmOut(instructions[j])
        /\ \A j \in DOMAIN dataitems :
                pc # "instructions" /\ (pc = "data" => j < i) => DataOut(dataitems[j])

\* What is written stays written.
LEMMA OutStays ==
  ASSUME TypeInv, ItemsInv, UNCHANGED <<offset, symbolVars, itemVars>>,
         \A s \in ProgSections : \A w \in DOMAIN contents[s] :
            w \in DOMAIN contents'[s] /\ contents'[s][w] = contents[s][w]
  PROVE  /\ \A j \in DOMAIN instructions : AsmOut(instructions[j]) => AsmOut(instructions[j])'
         /\ \A j \in DOMAIN dataitems : DataOut(dataitems[j]) => DataOut(dataitems[j])'
<1>1. ASSUME NEW j \in DOMAIN instructions, AsmOut(instructions[j])
      PROVE  AsmOut(instructions[j])'
  <2> DEFINE insn == instructions[j]
  <2>1. insn.position.section \in ProgSections
    BY ItemsFit
  <2>2. PICK w \in DOMAIN contents[insn.position.section] :
                AsmBytes(insn, contents[insn.position.section][w])
    BY <1>1 DEF AsmOut
  <2>3. /\ w \in DOMAIN contents'[insn.position.section]
        /\ contents'[insn.position.section][w] = contents[insn.position.section][w]
    BY <2>1
  <2>4. UNCHANGED <<offset, symbols, block, instructions>>
    BY DEF symbolVars, itemVars
  <2>5. AsmBytes(instructions[j], contents[instructions[j].position.section][w])'
    BY <2>2, <2>3, <2>4 DEF AsmBytes, Readable, Live, Deref, Operand, CalcSymbolOffset,
                            CalcFileOffset
  <2> QED
    BY <2>3, <2>4, <2>5 DEF AsmOut
<1>2. ASSUME NEW j \in DOMAIN dataitems, DataOut(dataitems[j])
      PROVE  DataOut(dataitems[j])'
  <2>1. dataitems[j].position.section \in ProgSections
    BY ItemsFit
  <2>2. UNCHANGED dataitems
    BY DEF itemVars
  <2> QED
    BY <1>2, <2>1, <2>2 DEF DataOut, DataBytesOf
<1> QED
  BY <1>1, <1>2

\* The sections only grow and no item is taken for written before it is.
LEMMA BytesKept ==
  ASSUME TypeInv, ItemsInv, BytesInv, UNCHANGED <<offset, symbolVars, itemVars>>,
         \A s \in ProgSections : \A w \in DOMAIN contents[s] :
            w \in DOMAIN contents'[s] /\ contents'[s][w] = contents[s][w],
         Running' => Running /\ pc \in Writing \cup {"flush"},
         \A j \in DOMAIN instructions :
            Running' /\ (pc' = "instructions" => j < i') =>
                (pc = "instructions" => j < i) \/ AsmOut(instructions[j])',
         \A j \in DOMAIN dataitems :
            Running' /\ pc' # "instructions" /\ (pc' = "data" => j < i') =>
                (pc # "instructions" /\ (pc = "data" => j < i)) \/ DataOut(dataitems[j])'
  PROVE  BytesInv'
<1>1. UNCHANGED <<instructions, dataitems>>
  BY DEF itemVars
<1>2. /\ \A j \in DOMAIN instructions : AsmOut(instructions[j]) => AsmOut(instructions[j])'
      /\ \A j \in DOMAIN dataitems : DataOut(dataitems[j]) => DataOut(dataitems[j])'
  BY OutStays
<1>3. ASSUME Running', NEW j \in DOMAIN instructions, pc' = "instructions" => j < i'
      PROVE  AsmOut(instructions[j])'
  BY <1>2, <1>3 DEF BytesInv
<1>4. ASSUME Running', NEW j \in DOMAIN dataitems,
             pc' # "instructions" /\ (pc' = "data" => j < i')
      PROVE  DataOut(dataitems[j])'
  BY <1>2, <1>4 DEF BytesInv
<1> QED
  BY <1>1, <1>3, <1>4 DEF BytesInv

\* A write leaves the extents of every section where they are.
LEMMA WriteKeeps ==
  ASSUME OutputTypeOK, NEW bytes, NEW len, NEW pos, pos.section \in Sections,
         WriteSectionData(bytes, len, pos)
  PROVE  \A s \in Sections : \A w \in DOMAIN contents[s] :
            w \in DOMAIN contents'[s] /\ contents'[s][w] = contents[s][w]
<1>1. CASE Fits(len, pos)
  <2>1. /\ contents'[pos.section] =
                Append(contents[pos.section],
                       [at |-> pos.offset, len |-> len, bytes |-> bytes])
        /\ \A s \in Sections \ {pos.section} : contents'[s] = contents[s]
    BY <1>1, WriteStored
  <2>2. contents[pos.section] \in Seq(Extent)
    BY DEF OutputTypeOK
  <2> QED
    BY <2>1, <2>2
<1>2. CASE ~Fits(len, pos)
  BY <1>2 DEF WriteSectionData
<1> QED
  BY <1>1, <1>2

\* One more instruction.
LEMMA BytesAsm ==
  ASSUME TypeInv, ItemsInv, BytesInv, WriteNextInstruction
  PROVE  BytesInv'
<1> DEFINE insn == instructions[i]
<1>1. /\ pc = "instructions" /\ pc' = pc /\ i' = i + 1 /\ i \in Nat /\ Running
      /\ i \in DOMAIN instructions /\ WriteInstruction(insn)
      /\ UNCHANGED <<size, offset, symbolVars, itemVars>>
  BY DEF WriteNextInstruction, At, TypeInv, TypeOK, BytecodeTypeOK, ControlTypeOK,
         LoopsFromOne
<1>2. /\ insn.position.section \in Sections /\ OutputTypeOK
      /\ Fits(EmittedSize[insn.form], insn.position)
  <2>1. insn.position.section \in ProgSections
    BY <1>1, ItemsFit
  <2> QED
    BY <1>1, <2>1, ItemsFit, SectionFacts DEF TypeInv, TypeOK
<1>3. ASSUME ~Running' PROVE BytesInv'
  BY <1>3 DEF BytesInv
<1>4. ASSUME NEW operand, Emit(insn, operand),
             (insn.sym # NoSymbol => Readable(insn.sym)) => operand = Operand(insn)
      PROVE  BytesInv'
  <2> DEFINE bytes == [form |-> insn.form, operand |-> operand]
             new == [at |-> insn.position.offset, len |-> EmittedSize[insn.form],
                     bytes |-> bytes]
             s == insn.position.section
  <2>1. WriteSectionData(bytes, EmittedSize[insn.form], insn.position)
    BY <1>4 DEF Emit
  <2>2. contents'[s] = Append(contents[s], new) /\ contents[s] \in Seq(Extent)
    <3> HIDE DEF bytes, insn
    <3>1. contents'[insn.position.section] =
            Append(contents[insn.position.section],
                   [at |-> insn.position.offset, len |-> EmittedSize[insn.form],
                    bytes |-> bytes])
      BY <1>2, <2>1, WriteStored
    <3> QED
      BY <1>2, <3>1 DEF OutputTypeOK
  <2>3. AsmBytes(insn, new)
    BY <1>4 DEF AsmBytes
  <2>4. PICK w : w = Len(contents[s]) + 1
    OBVIOUS
  <2> HIDE DEF new
  <2>5. w \in DOMAIN contents'[s] /\ contents'[s][w] = new
    BY <2>2, <2>4
  <2>6. UNCHANGED <<offset, symbols, block, instructions>>
    BY <1>1 DEF symbolVars, itemVars
  <2>7. PICK j \in DOMAIN instructions : j = i
    BY <1>1
  <2>8. AsmBytes(instructions[j], contents[instructions[j].position.section][w])'
    BY <2>3, <2>5, <2>6, <2>7 DEF AsmBytes, Readable, Live, Deref, Operand,
                                  CalcSymbolOffset, CalcFileOffset
  <2>9. AsmOut(instructions[j])'
    BY <2>5, <2>6, <2>7, <2>8 DEF AsmOut
  <2>10. \A k \in DOMAIN instructions : k < i' => k < i \/ k = j
    BY <1>1, <2>7 DEF TypeInv, TypeOK, BytecodeTypeOK
  <2>11. \A t \in Sections : \A v \in DOMAIN contents[t] :
            v \in DOMAIN contents'[t] /\ contents'[t][v] = contents[t][v]
    BY <1>2, <2>1, WriteKeeps
  <2> HIDE DEF bytes, insn, s
  <2>12. \A t \in ProgSections : t \in Sections
    BY SectionFacts
  <2> QED
    BY <1>1, <2>9, <2>10, <2>11, <2>12, BytesKept DEF Writing
<1>5. ASSUME NEW id, Logger("ERROR", id) \/ Fault PROVE ~Running'
  BY <1>5 DEF Logger, Fatal, Fault, Running
<1> HIDE DEF insn
<1> QED
  BY <1>1, <1>3, <1>4, <1>5 DEF WriteInstruction

\* One more string.
LEMMA BytesData ==
  ASSUME TypeInv, ItemsInv, BytesInv, WriteNextData
  PROVE  BytesInv'
<1> DEFINE item == dataitems[i]
           bytes == [str |-> item.str, nullterm |-> item.nullterm]
           new == [at |-> item.position.offset, len |-> item.size, bytes |-> bytes]
           s == item.position.section
<1>1. /\ pc = "data" /\ pc' = pc /\ i' = i + 1 /\ i \in Nat /\ Running
      /\ i \in DOMAIN dataitems /\ WriteSectionData(bytes, item.size, item.position)
      /\ UNCHANGED <<size, offset, symbolVars, itemVars>>
  BY DEF WriteNextData, WriteData, At, TypeInv, TypeOK, BytecodeTypeOK, ControlTypeOK,
         LoopsFromOne
<1>2. s \in Sections /\ OutputTypeOK /\ Fits(item.size, item.position)
  <2>1. s \in ProgSections /\ Fits(item.size, item.position)
    BY <1>1, ItemsFit
  <2>2. OutputTypeOK
    BY DEF TypeInv, TypeOK
  <2>3. ProgSections \subseteq Sections
    BY SectionFacts
  <2> QED
    BY <2>1, <2>2, <2>3
<1>3. contents'[s] = Append(contents[s], new) /\ contents[s] \in Seq(Extent)
  <2> HIDE DEF bytes, item
  <2>1. contents'[item.position.section] =
            Append(contents[item.position.section],
                   [at |-> item.position.offset, len |-> item.size, bytes |-> bytes])
    BY <1>1, <1>2, WriteStored
  <2> QED
    BY <1>2, <2>1 DEF OutputTypeOK
<1>4. DataBytesOf(item, new)
  BY DEF DataBytesOf
<1>5. PICK w : w = Len(contents[s]) + 1
  OBVIOUS
<1> HIDE DEF new
<1>6. w \in DOMAIN contents'[s] /\ contents'[s][w] = new
  BY <1>3, <1>5
<1>7. PICK j \in DOMAIN dataitems : j = i
  BY <1>1
<1>8. dataitems' = dataitems
  BY <1>1 DEF itemVars
<1>9. DataOut(dataitems[j])'
  BY <1>4, <1>6, <1>7, <1>8 DEF DataOut, DataBytesOf
<1>10. \A k \in DOMAIN dataitems : k < i' => k < i \/ k = j
  BY <1>1, <1>7 DEF TypeInv, TypeOK, BytecodeTypeOK
<1>11. \A t \in Sections : \A v \in DOMAIN contents[t] :
          v \in DOMAIN contents'[t] /\ contents'[t][v] = contents[t][v]
  BY <1>1, <1>2, WriteKeeps
<1> HIDE DEF bytes, item, s
<1>12. \A t \in ProgSections : t \in Sections
  BY SectionFacts
<1> QED
  BY <1>1, <1>9, <1>10, <1>11, <1>12, BytesKept DEF Writing

\* Every step keeps BytesInv.
LEMMA BytesNext == TypeInv /\ ItemsInv /\ BytesInv /\ [Next]_vars => BytesInv'
<1> SUFFICES ASSUME TypeInv, ItemsInv, BytesInv, [Next]_vars PROVE BytesInv'
  OBVIOUS
<1>1. ASSUME pc' \notin Writing \cup {"flush"} PROVE BytesInv'
  BY <1>1 DEF BytesInv
<1>2. CASE ReadLine \/ ParseLine \/ EndOfInput
  BY <1>1, <1>2, ReadingOutside
<1>3. CASE CalcSymbol \/ CalcDone \/ AllocSection \/ FlushOutput
  BY <1>1, <1>3 DEF CalcSymbol, CalcDone, AllocSection, FlushOutput, At, Goto, Writing
<1>4. CASE AllocDone
  <2>1. pc' = "instructions" /\ i' = 1 /\ UNCHANGED instructions
    BY <1>4 DEF AllocDone, Goto, itemVars
  <2>2. \A j \in DOMAIN instructions : ~(j < 1)
    BY DEF TypeInv, TypeOK, BytecodeTypeOK
  <2> QED
    BY <2>1, <2>2 DEF BytesInv
<1>5. CASE InstructionsDone \/ DataDone
  <2>1. /\ \/ pc = "instructions" /\ pc' = "data" /\ i' = 1 /\ i > Len(instructions)
           \/ pc = "data" /\ pc' = "strtab" /\ i > Len(dataitems)
        /\ i \in Nat /\ UNCHANGED <<status, contents, offset, symbolVars, itemVars>>
    BY <1>5 DEF InstructionsDone, DataDone, At, Goto, outputVars, processVars, TypeInv,
                TypeOK, ControlTypeOK
  <2>2. /\ \A j \in DOMAIN instructions : j \in Nat \ {0} /\ j <= Len(instructions)
        /\ \A j \in DOMAIN dataitems : j \in Nat \ {0} /\ j <= Len(dataitems)
        /\ Len(instructions) \in Nat /\ Len(dataitems) \in Nat
    BY DEF TypeInv, TypeOK, BytecodeTypeOK
  <2>3. /\ pc = "instructions" => \A j \in DOMAIN instructions : j < i
        /\ pc = "data" => \A j \in DOMAIN dataitems : j < i
        /\ pc' = "data" => \A j \in DOMAIN dataitems : ~(j < i')
    BY <2>1, <2>2
  <2>4. /\ \A s \in ProgSections : \A w \in DOMAIN contents[s] :
                w \in DOMAIN contents'[s] /\ contents'[s][w] = contents[s][w]
        /\ Running' => Running /\ pc \in Writing \cup {"flush"}
    BY <2>1 DEF Running, Writing
  <2> QED
    BY <2>1, <2>3, <2>4, BytesKept
<1>6. CASE WriteNextInstruction \/ WriteNextData
  BY <1>6, BytesAsm, BytesData
<1>7. CASE \/ CopyName \/ FillStrtab \/ FillSectionName \/ FillSymtabBlank
           \/ FillSymtabEntry \/ FillSymtabDone
           \/ (pc \in {"strtab", "symtab"} /\ NextBucket)
  <2>1. /\ Running /\ pc \in {"strtab", "names", "symtab"}
        /\ pc' \in {"strtab", "names", "symtab", "flush"}
        /\ UNCHANGED <<offset, symbolVars, itemVars>>
    BY <1>7 DEF CopyName, FillStrtab, FillSectionName, FillSymtabBlank,
                FillSymtabEntry, FillSymtabDone, NextBucket, At, Goto, outputVars
  <2>2. \A s \in Sections : \A w \in DOMAIN contents[s] :
            w \in DOMAIN contents'[s] /\ contents'[s][w] = contents[s][w]
    <3>1. SECTION_STRTAB \in Sections /\ SECTION_SYMTAB \in Sections /\ OutputTypeOK
      BY SectionFacts DEF TypeInv, TypeOK
    <3>2. CASE CopyName \/ FillSymtabDone \/ NextBucket
      BY <3>2 DEF CopyName, FillSymtabDone, NextBucket, outputVars
    <3>3. CASE FillStrtab \/ FillSectionName \/ FillSymtabBlank \/ FillSymtabEntry
      <4>1. \E bytes, len, pos : pos.section \in Sections /\ WriteSectionData(bytes, len, pos)
        BY <3>1, <3>3 DEF FillStrtab, FillSectionName, FillSymtabBlank, FillSymtabEntry
      <4> QED
        BY <3>1, <4>1, WriteKeeps
    <3> QED
      BY <1>7, <3>2, <3>3
  <2>3. \A s \in ProgSections : s \in Sections
    BY SectionFacts
  <2> QED
    BY <2>1, <2>2, <2>3, BytesKept DEF Writing
<1>8. CASE pc = "calc" /\ NextBucket
  BY <1>1, <1>8 DEF NextBucket, Writing
<1>9. CASE CopyFiles \/ XmallocFails \/ MallocFails \/ UNCHANGED vars
  <2>1. UNCHANGED <<contents, offset, symbolVars, itemVars, pc, i>>
    BY <1>9 DEF CopyFiles, XmallocFails, MallocFails, vars, outputVars, loopVars
  <2>2. Running' => Running
    BY <1>9 DEF CopyFiles, XmallocFails, MallocFails, At, Running, vars, processVars
  <2>3. CASE pc \in Writing \cup {"flush"}
    BY <2>1, <2>2, <2>3, BytesKept
  <2> QED
    BY <1>1, <2>1, <2>3
<1> QED
  BY <1>2, <1>3, <1>4, <1>5, <1>6, <1>7, <1>8, <1>9 DEF Next, Terminated, NextBucket

-----------------------------------------------------------------------------
(***************************************************************************)
(* What is flushed is a translation of the source.                         *)
(***************************************************************************)

\* The symbol table says of every name what the text says of it.
LEMMA EntriesGive ==
  ASSUME TypeInv, TableInv, NamesInv, EntryInv, pc = "flush", Text!Resolved(source)
  PROVE  Text!EntriesMatch(source, Image)
<1>1. SymbolsTypeOK /\ OutputTypeOK /\ NamesUnique
  BY DEF TypeInv, TypeOK
<1>2. PICK addr \in [Stops -> Nat], rank \in [Stops -> Nat] :
            Walked(addr, rank, EndSlot) /\ Sized(addr, rank) /\ Drawn(addr, rank)
  BY DEF TableInv, Made
<1>3. /\ NamesOut(addr, 5) /\ EntriesOut(addr, rank, EndSlot)
      /\ addr[EndSlot] \in Nat /\ rank[EndSlot] \in Nat
  BY <1>1, <1>2, StopFacts DEF Drawn
<1>4. /\ DOMAIN contents[SECTION_SYMTAB] = 1 .. rank[EndSlot] + 1
      /\ \A v \in 1 .. rank[EndSlot] + 1 :
            contents[SECTION_SYMTAB][v].at = (v - 1) * SYM_SIZE
  BY <1>1, <1>2, <1>3, SymtabExtents
<1>5. \A w \in Text!SymtabWrites(Image) :
            \E v \in 1 .. rank[EndSlot] + 1 : w = contents[SECTION_SYMTAB][v]
  BY <1>4 DEF Text!SymtabWrites, Image, Text!SECTION_SYMTAB, SECTION_SYMTAB
<1>6. ASSUME NEW n \in Text!NamesIn(source), NEW w \in Text!SymtabWrites(Image),
             w.at # 0, Text!NamesAt(Image, w.bytes.name) = {n}
      PROVE  /\ w.bytes.shndx = Text!SectionAt(source, Text!Definition(source, n))
             /\ w.bytes.value = Text!AddressOf(source, Text!Definition(source, n))
             /\ w.bytes.binding = IF Text!IsGlobal(source, n) THEN 16 ELSE 0
  <2>1. PICK v \in 1 .. rank[EndSlot] + 1 : w = contents[SECTION_SYMTAB][v]
    BY <1>5
  <2>2. v # 1
    BY <1>4, <1>6, <2>1 DEF SYM_SIZE
  <2>3. v - 2 \in 0 .. rank[EndSlot] - 1
    BY <1>3, <2>2
  <2>4. PICK s \in Stops : IsSlot(s) /\ Before(s, EndSlot) /\ rank[s] = v - 2
    BY <1>2, <2>3 DEF Walked
  <2>5. w = SymbolExtent(addr, rank, s)
    BY <1>3, <2>1, <2>4 DEF EntriesOut
  <2>6. w.bytes = SymtabEntry(addr[s], SymbolAt(s).binding, SymbolAt(s).section,
                              SymbolAt(s).value)
    BY <2>5 DEF SymbolExtent
  <2>7. n = SymbolAt(s).name
    <3>1. Text!NamesAt(Image, addr[s]) = {SymbolAt(s).name}
      BY <1>2, <1>3, <2>4, NameFound
    <3>2. w.bytes.name = addr[s]
      BY <2>6 DEF SymtabEntry
    <3> QED
      BY <1>6, <3>1, <3>2
  <2>8. n \in Name /\ Hash[n] = s[1] /\ s[2] \in Entries(symbols, n)
        /\ symbols[Hash[n]][s[2]] = SymbolAt(s)
    <3>1. s[1] \in Bucket /\ s[2] \in DOMAIN symbols[s[1]] /\ SymbolAt(s) \in Symbol
      BY <1>1, <2>4, StopFacts DEF IsSlot
    <3>2. Hash[SymbolAt(s).name] = s[1]
      BY <1>1, <3>1 DEF NamesUnique, UniqueIn, SymbolAt
    <3> QED
      BY <2>7, <3>1, <3>2 DEF Entries, SymbolAt, Symbol
  <2>9. Tells(source, n, SymbolAt(s))
    BY <2>8 DEF EntryInv
  <2>10. Text!LabelsOf(source, n) # {}
    BY DEF Text!Resolved
  <2> QED
    BY <2>6, <2>9, <2>10 DEF Tells, SymtabEntry
<1> QED
  BY <1>6 DEF Text!EntriesMatch

\* The operand of an instruction is the distance the text gives it.
LEMMA OperandGives ==
  ASSUME TypeInv, NamesInv, EntryInv, PointersCurrent, Text!Resolved(source),
         NEW k \in Text!UnitsOf(source, "insn"), NEW j \in DOMAIN instructions,
         IsAsm(source, k, instructions[j])
  PROVE  /\ instructions[j].sym # NoSymbol => Readable(instructions[j].sym)
         /\ [form |-> instructions[j].form, operand |-> Operand(instructions[j])] =
                Text!BytesOf(source, Image, k)
<1> DEFINE insn == instructions[j]
           n == source[k].name
           ptr == insn.sym
<1>1. SymbolsTypeOK /\ NamesUnique /\ source \in Seq(Unit)
  BY DEF TypeInv, TypeOK, ControlTypeOK
<1>2. /\ k \in DOMAIN source /\ source[k] \in Unit /\ source[k].unit = "insn"
      /\ n \in Name \cup {NoSymbol}
  <2>1. k \in DOMAIN source /\ source[k] \in Unit /\ source[k].unit = "insn"
    BY <1>1 DEF Text!UnitsOf
  <2> QED
    BY <2>1, UnitFacts
<1>3. insn.form = source[k].form /\ insn.position = Place(source, k) /\ PointsTo(ptr, n)
  BY DEF IsAsm
<1> HIDE DEF insn, ptr, n
<1>4. CASE n = NoSymbol
  <2>1. ptr = NoSymbol
    BY <1>3, <1>4 DEF PointsTo
  <2> QED
    BY <1>2, <1>3, <1>4, <2>1 DEF Text!BytesOf, Operand, ptr, n, insn
<1>5. CASE n # NoSymbol
  <2> DEFINE e == Deref(ptr)
             d == Text!Definition(source, n)
  <2>1. /\ n \in Name /\ ptr # NoSymbol /\ ptr.hash = Hash[n]
        /\ ptr.index \in Entries(symbols, n) /\ e = symbols[Hash[n]][ptr.index]
    BY <1>2, <1>3, <1>5 DEF PointsTo, Deref, Entries
  <2>2. Tells(source, n, e)
    BY <2>1 DEF EntryInv
  <2>3. Text!LabelsOf(source, n) # {}
    <3>1. k \in Text!SymbolRefs(source)
      BY <1>2, <1>5 DEF Text!SymbolRefs, Text!UnitsOf, n
    <3>2. n \in Text!NamesIn(source)
      BY <3>1 DEF Text!NamesIn, n
    <3> QED
      BY <3>2 DEF Text!Resolved
  <2>4. e.section = Text!SectionAt(source, d) /\ e.value = Text!AddressOf(source, d)
    BY <2>2, <2>3 DEF Tells
  <2>5. e.section # Uninit
    <3>1. e.section \in ProgSections
      BY <1>1, <2>4, SectionType
    <3> QED
      BY <3>1, SectionFacts, SymbolsAssumption
  <2>6. Readable(ptr)
    BY <2>1, <2>5 DEF PointersCurrent, Readable, ptr, insn
  <2>7. Operand(insn) = (offset[Text!SectionAt(source, d)] + Text!AddressOf(source, d))
            - (offset[Text!SectionAt(source, k)] + Text!AddressOf(source, k))
    BY <1>3, <2>1, <2>4 DEF Operand, CalcSymbolOffset, CalcFileOffset, Place, ptr
  <2>8. Text!BytesOf(source, Image, k) =
            [form |-> source[k].form,
             operand |-> (offset[Text!SectionAt(source, d)] + Text!AddressOf(source, d))
                - (offset[Text!SectionAt(source, k)] + Text!AddressOf(source, k))]
    BY <1>2, <1>5 DEF Text!BytesOf, Text!FileAddress, Image, n
  <2> QED
    BY <1>3, <2>6, <2>7, <2>8 DEF insn, ptr
<1> QED
  BY <1>4, <1>5

\* The extent that holds an item is the last write to each of its bytes.
LEMMA OnlyWrite ==
  ASSUME TypeInv, StoredInv, Running, pc = "flush", NEW s \in ProgSections,
         NEW w \in DOMAIN contents[s], NEW a \in Nat, NEW len \in Nat,
         contents[s][w].at = a, contents[s][w].len = len, NEW x \in a .. a + len - 1
  PROVE  Text!LastWrite(Image, s, x) = {contents[s][w]}
<1>1. x \in Nat /\ Reaches(contents[s][w], x)
  BY DEF Reaches
<1>2. \A v \in DOMAIN contents[s] : Reaches(contents[s][v], x) => v = w
  BY <1>1 DEF StoredInv, StoredIn
<1>3. Writers(s, x) = {w}
  BY <1>1, <1>2 DEF Writers
<1>4. w \in Nat
  <2>1. s \in Sections /\ contents \in [Sections -> Seq(Extent)]
    BY SectionFacts DEF TypeInv, TypeOK, OutputTypeOK
  <2>2. contents[s] \in Seq(Extent)
    BY <2>1
  <2> QED
    BY <2>2
<1> QED
  BY <1>3, <1>4, LastOfOne

\* .text and .data hold what the text puts there.
LEMMA CodeGives ==
  ASSUME TypeInv, ItemsInv, NamesInv, StoredInv, PointersCurrent, PlaceInv, EntryInv,
         UnitsInv, BytesInv, Running, pc = "flush", Text!Resolved(source)
  PROVE  Text!CodeMatches(source, Image)
<1>1. source \in Seq(Unit) /\ pc # "copy" /\ pc # "instructions" /\ pc # "data"
  BY DEF TypeInv, TypeOK, ControlTypeOK
<1>2. \A s \in Text!ProgSections : Image.size[s] = Text!SectionSize(source, s)
  BY DEF PlaceInv, Image, Text!ProgSections, ProgSections, Text!SECTION_TEXT, SECTION_TEXT,
         Text!SECTION_DATA, SECTION_DATA
<1>3. ASSUME NEW k \in Text!UnitsOf(source, "insn") \cup Text!UnitsOf(source, "data")
      PROVE  /\ Text!SectionAt(source, k) \in ProgSections
             /\ \E w \in DOMAIN contents[Text!SectionAt(source, k)] :
                 /\ contents[Text!SectionAt(source, k)][w].at = Text!AddressOf(source, k)
                 /\ contents[Text!SectionAt(source, k)][w].len = Text!SizeOf(source[k])
                 /\ contents[Text!SectionAt(source, k)][w].bytes =
                        Text!BytesOf(source, Image, k)
  <2>1. Text!SectionAt(source, k) \in ProgSections
    BY <1>1, SectionType
  <2>2. CASE k \in Text!UnitsOf(source, "insn")
    <3>1. PICK j \in DOMAIN instructions : IsAsm(source, k, instructions[j])
      BY <1>1, <2>2 DEF UnitsInv, AsmThere
    <3> DEFINE insn == instructions[j]
    <3>2. PICK w \in DOMAIN contents[insn.position.section] :
                AsmBytes(insn, contents[insn.position.section][w])
      BY <1>1 DEF BytesInv, AsmOut
    <3>3. /\ insn.sym # NoSymbol => Readable(insn.sym)
          /\ [form |-> insn.form, operand |-> Operand(insn)] = Text!BytesOf(source, Image, k)
      BY <2>2, <3>1, OperandGives
    <3>4. /\ insn.position.section = Text!SectionAt(source, k)
          /\ insn.position.offset = Text!AddressOf(source, k)
          /\ insn.form = source[k].form
      BY <3>1 DEF IsAsm, Place
    <3>5. source[k].unit = "insn" /\ insn.form \in Forms
      <4>1. k \in DOMAIN source /\ source[k] \in Unit /\ source[k].unit = "insn"
        BY <1>1, <2>2 DEF Text!UnitsOf
      <4> QED
        BY <3>4, <4>1, UnitFacts
    <3>6. EmittedSize[insn.form] = Text!SizeOf(source[k])
      BY <3>4, <3>5 DEF EmittedSize, UpperSize, LowerSize, Text!SizeOf, Text!InsnSize
    <3> HIDE DEF insn
    <3> QED
      BY <2>1, <3>2, <3>3, <3>4, <3>6 DEF AsmBytes
  <2>3. CASE k \in Text!UnitsOf(source, "data")
    <3>1. PICK j \in DOMAIN dataitems : IsData(source, k, dataitems[j])
      BY <1>1, <2>3 DEF UnitsInv, DataThere
    <3>2. PICK w \in DOMAIN contents[dataitems[j].position.section] :
                DataBytesOf(dataitems[j], contents[dataitems[j].position.section][w])
      BY <1>1 DEF BytesInv, DataOut
    <3>3. /\ dataitems[j].position.section = Text!SectionAt(source, k)
          /\ dataitems[j].position.offset = Text!AddressOf(source, k)
          /\ dataitems[j].size = Text!SizeOf(source[k])
          /\ dataitems[j].str = source[k].str /\ dataitems[j].nullterm = source[k].nullterm
      BY <3>1 DEF IsData, Place
    <3>4. Text!BytesOf(source, Image, k) =
            [str |-> source[k].str, nullterm |-> source[k].nullterm]
      BY <2>3 DEF Text!BytesOf, Text!UnitsOf
    <3> QED
      BY <2>1, <3>2, <3>3, <3>4 DEF DataBytesOf
  <2> QED
    BY <2>2, <2>3
<1>4. ASSUME NEW k \in Text!UnitsOf(source, "insn") \cup Text!UnitsOf(source, "data"),
             NEW x \in Text!AddressOf(source, k) ..
                            Text!AddressOf(source, k) + Text!SizeOf(source[k]) - 1
      PROVE  \E w \in Text!LastWrite(Image, Text!SectionAt(source, k), x) :
                w.at = Text!AddressOf(source, k) /\ w.bytes = Text!BytesOf(source, Image, k)
  <2> DEFINE s == Text!SectionAt(source, k)
             a == Text!AddressOf(source, k)
             len == Text!SizeOf(source[k])
  <2>1. PICK w \in DOMAIN contents[s] :
            /\ contents[s][w].at = a /\ contents[s][w].len = len
            /\ contents[s][w].bytes = Text!BytesOf(source, Image, k)
    BY <1>3
  <2>2. a \in Nat /\ len \in Nat /\ s \in ProgSections
    <3>1. k \in 1 .. Len(source) /\ source[k] \in Unit
      BY <1>1 DEF Text!UnitsOf
    <3>2. a \in Nat
      <4>1. contents[s] \in Seq(Extent)
        <5>1. contents \in [Sections -> Seq(Extent)] /\ ProgSections \subseteq Sections
          BY SectionFacts DEF TypeInv, TypeOK, OutputTypeOK
        <5>2. s \in ProgSections
          BY <1>3
        <5> HIDE DEF s
        <5> QED
          BY <5>1, <5>2
      <4>2. contents[s][w] \in Extent
        BY <4>1
      <4> HIDE DEF s, a
      <4> QED
        BY <2>1, <4>2 DEF Extent
    <3>3. len \in Nat
      BY <3>1, UnitFacts
    <3> QED
      BY <1>3, <3>2, <3>3
  <2>3. x \in a .. a + len - 1
    OBVIOUS
  <2> HIDE DEF s, a, len
  <2>4. Text!LastWrite(Image, s, x) = {contents[s][w]}
    BY <2>1, <2>2, <2>3, OnlyWrite
  <2> QED
    BY <2>1, <2>4 DEF s, a
<1> QED
  BY <1>2, <1>4 DEF Text!CodeMatches

\* With one name per bucket and every name defined, the object about to be
\* flushed is a translation of the source.
LEMMA ImageAtFlush ==
  ASSUME TypeInv, ItemsInv, TableInv, NamesInv, StoredInv, PointersCurrent,
         PlaceInv, EntryInv, UnitsInv, BytesInv, At("flush"), Text!Resolved(source)
  PROVE  Text!IsImage(source, Image)
<1>1. pc = "flush" /\ Running
  BY DEF At
<1>2. Text!NamesMatch(source, Image) /\ Text!SectionNamesMatch(Image)
  BY NamesGive DEF TablesNamed
<1> QED
  BY <1>1, <1>2, CodeGives, EntriesGive DEF Text!IsImage

-----------------------------------------------------------------------------
(***************************************************************************)
(* The end of the run, and the theorem.                                    *)
(***************************************************************************)

\* The last call of the run is to the logger, with a diagnostic that ends it.
Ends ==
    /\ Running /\ UNCHANGED <<source, outfile, temp>> /\ (pc' = "copy" <=> pc = "copy")
    /\ \E level \in {"ERROR", "CRITICAL"} : \E id : Logger(level, id)

\* The run ends where an operand has to be read and cannot be.
Faults ==
    /\ Running /\ UNCHANGED <<source, outfile, temp>> /\ (pc' = "copy" <=> pc = "copy")
    /\ Fault
    /\ \E k \in DOMAIN instructions :
            instructions[k].sym # NoSymbol /\ ~Readable(instructions[k].sym)

\* Nothing the user could see happens.
Quiet ==
    /\ UNCHANGED <<source, outfile, status, logged, temp>>
    /\ pc' = "copy" <=> pc = "copy"

\* A unit is read; a bad one sends the program to copy_files.
ReadsOn ==
    /\ pc = "line" /\ Running /\ UNCHANGED <<outfile, status, temp>>
    /\ logged' = logged \/ logged' = logged \cup {<<"WARN", "error_invalid_instruction">>}
    /\ \E u \in Unit : source' = Append(source, u) /\ (pc' = "copy" <=> u.unit = "bad")

\* A write that does not fit ends the run; another leaves the process alone.
LEMMA WriteEnds ==
  ASSUME NEW bytes, NEW len, NEW pos, WriteSectionData(bytes, len, pos)
  PROVE  \/ UNCHANGED processVars
         \/ \E level \in {"ERROR", "CRITICAL"} : \E id : Logger(level, id)
  BY DEF WriteSectionData

\* The steps that read a unit, for the user.
LEMMA ReadsAreReads ==
  ASSUME Reads
  PROVE  ReadsOn
<1> USE DEF ReadsOn, Unread, At, Goto, fileVars, processVars
<1>1. ASSUME NEW name \in Name, ParseLabel(name) \/ ParseGlobal(name) PROVE ReadsOn
  <2>1. PICK u \in {Text!LabelUnit(name), Text!GlobalUnit(name)} : Unread(u)
    BY <1>1 DEF ParseLabel, ParseGlobal
  <2>2. u \in Unit /\ u.unit # "bad"
    BY DEF Unit, GoodUnit, Text!LabelUnit, Text!GlobalUnit
  <2>3. UNCHANGED <<status, logged>> /\ pc' # "copy"
    BY <1>1 DEF ParseLabel, ParseGlobal
  <2> QED
    BY <2>1, <2>2, <2>3
<1>2. ASSUME NEW section \in ProgSections, ParseSection(section) PROVE ReadsOn
  <2>1. Text!SectionUnit(section) \in Unit /\ Text!SectionUnit(section).unit # "bad"
    BY DEF Unit, GoodUnit, Text!SectionUnit
  <2> QED
    BY <1>2, <2>1 DEF ParseSection
<1>3. CASE ParseSectionUnknown \/ ParseAscizUnquoted
  <2>1. Text!BadUnit \in Unit /\ Text!BadUnit.unit = "bad"
    BY DEF Unit, Text!BadUnit
  <2>2. UNCHANGED status
        /\ (logged' = logged
            \/ logged' = logged \cup {<<"WARN", "error_invalid_instruction">>})
    BY <1>3 DEF ParseSectionUnknown, ParseAscizUnquoted, Logger, Fatal
  <2> QED
    BY <1>3, <2>1, <2>2 DEF ParseSectionUnknown, ParseAscizUnquoted
<1>4. ASSUME NEW str \in Strings, NEW nullterm \in BOOLEAN, ParseAscii(str, nullterm)
      PROVE  ReadsOn
  <2>1. Text!DataUnit(str, nullterm) \in Unit /\ Text!DataUnit(str, nullterm).unit # "bad"
    BY DEF Unit, GoodUnit, Text!DataUnit
  <2> QED
    BY <1>4, <2>1 DEF ParseAscii
<1>5. ASSUME NEW form \in Forms, NEW n \in Name \cup {NoSymbol}, NEW sym,
             Text!InsnUnit(form, n) \in Unit, Unread(Text!InsnUnit(form, n)),
             AddAsm(form, sym)
      PROVE  ReadsOn
  BY <1>5 DEF AddAsm, Text!InsnUnit
<1>6. ASSUME NEW form \in SymForms, NEW name \in Name, ParseAsmSymbol(form, name)
      PROVE  ReadsOn
  <2>1. form \in Forms /\ Text!InsnUnit(form, name) \in Unit
    BY DEF Forms, Unit, GoodUnit
  <2> QED
    BY <1>5, <1>6, <2>1 DEF ParseAsmSymbol
<1>7. ASSUME NEW form \in Forms \ SymForms, ParseAsmPlain(form) PROVE ReadsOn
  <2>1. Text!InsnUnit(form, NoSymbol) \in Unit
    BY DEF Unit, GoodUnit
  <2> QED
    BY <1>5, <1>7, <2>1 DEF ParseAsmPlain
<1> QED
  BY <1>1, <1>2, <1>3, <1>4, <1>6, <1>7 DEF Reads

\* What a step can be, with memory enough.
LEMMA Outcomes ==
  ASSUME ~OutOfMemory, TypeInv, [Next]_vars
  PROVE  Quiet \/ ReadsOn \/ Ends \/ Faults \/ FlushOutput \/ CopyFiles
<1> USE DEF Quiet, At, Goto, inputVars, loopVars, fileVars, processVars
<1>1. CASE \/ ReadLine \/ EndOfInput \/ CalcSymbol \/ NextBucket \/ CalcDone
           \/ AllocSection \/ AllocDone \/ InstructionsDone \/ DataDone
           \/ CopyName \/ FillSymtabDone
  BY <1>1 DEF ReadLine, EndOfInput, CalcSymbol, NextBucket, CalcDone, AllocSection,
              AllocDone, InstructionsDone, DataDone, CopyName, FillSymtabDone
<1>2. CASE EndOfLine
  BY <1>2 DEF EndOfLine
<1>3. CASE ParseAsciiUnquoted \/ ParseError
  BY <1>3 DEF ParseAsciiUnquoted, ParseError, Ends
<1>4. CASE WriteNextInstruction
  <2>1. /\ i \in DOMAIN instructions /\ WriteInstruction(instructions[i]) /\ Running
        /\ UNCHANGED <<source, outfile, temp, pc>>
    BY <1>4 DEF WriteNextInstruction, TypeInv, TypeOK, BytecodeTypeOK, ControlTypeOK,
                LoopsFromOne
  <2>2. ASSUME NEW operand, Emit(instructions[i], operand) PROVE Quiet \/ Ends
    BY <2>1, <2>2, WriteEnds DEF Emit, Ends
  <2> QED
    BY <2>1, <2>2 DEF WriteInstruction, Ends, Faults
<1>5. CASE \/ WriteNextData \/ FillStrtab \/ FillSectionName \/ FillSymtabBlank
           \/ FillSymtabEntry
  <2>1. \E bytes, len, pos : WriteSectionData(bytes, len, pos)
    BY <1>5 DEF WriteNextData, WriteData, FillStrtab, FillSectionName, FillSymtabBlank,
                FillSymtabEntry
  <2>2. Running /\ UNCHANGED <<source, outfile, temp>> /\ (pc' = "copy" <=> pc = "copy")
    BY <1>5 DEF WriteNextData, FillStrtab, FillSectionName, FillSymtabBlank,
                FillSymtabEntry
  <2> QED
    BY <2>1, <2>2, WriteEnds DEF Ends
<1>6. CASE XmallocFails \/ MallocFails
  BY <1>6 DEF XmallocFails, MallocFails, Die
<1>7. CASE UNCHANGED vars
  BY <1>7 DEF vars
<1>8. Reads => ReadsOn
  BY ReadsAreReads
<1> QED
  BY <1>1, <1>2, <1>3, <1>4, <1>5, <1>6, <1>7, <1>8
     DEF Next, Terminated, ParseLine, Reads

\* While the program runs nothing is delivered and no error has been logged; the
\* temporary file is empty until the object is flushed to it, and stays empty
\* after a unit that could not be used.
EndInv ==
    /\ Running => outfile = <<>> /\ \A d \in logged : ~Fatal(d[1])
    /\ pc # "copy" => temp = <<>> /\ Text!UnitsOf(source, "bad") = {}
    /\ pc = "copy" /\ Text!UnitsOf(source, "bad") # {} => temp = <<>>
    /\ pc = "copy" /\ Text!UnitsOf(source, "bad") = {} =>
            Len(temp) = 1 /\ (Text!Resolved(source) => Text!IsImage(source, temp[1]))

\* At the start nothing is delivered.
LEMMA EndInit == Init => EndInv
<1> SUFFICES ASSUME Init PROVE EndInv
  OBVIOUS
<1>1. Text!UnitsOf(source, "bad") = {}
  BY DEF Init, Text!UnitsOf
<1> QED
  BY <1>1 DEF Init, ProcessInit, EndInv

\* Every step keeps EndInv; at the flush the other invariants make the object a
\* translation.
LEMMA EndNext ==
  ASSUME ~OutOfMemory
  PROVE  /\ TypeInv /\ ItemsInv /\ TableInv /\ NamesInv /\ StoredInv /\ PointersCurrent
         /\ PlaceInv /\ EntryInv /\ UnitsInv /\ BytesInv /\ EndInv /\ [Next]_vars
         => EndInv'
<1> SUFFICES ASSUME TypeInv, ItemsInv, TableInv, NamesInv, StoredInv, PointersCurrent,
                    PlaceInv, EntryInv, UnitsInv, BytesInv, EndInv, [Next]_vars
             PROVE  EndInv'
  OBVIOUS
<1>1. CASE Quiet
  BY <1>1 DEF Quiet, EndInv, Running
<1>2. CASE ReadsOn
  <2>1. PICK u \in Unit : source' = Append(source, u) /\ (pc' = "copy" <=> u.unit = "bad")
    BY <1>2 DEF ReadsOn
  <2>2. source \in Seq(Unit) /\ Len(source) \in Nat
    BY DEF TypeInv, TypeOK, ControlTypeOK
  <2>3. /\ temp = <<>> /\ temp' = temp /\ outfile = <<>> /\ outfile' = outfile
        /\ Text!UnitsOf(source, "bad") = {} /\ \A d \in logged : ~Fatal(d[1])
    BY <1>2 DEF ReadsOn, EndInv
  <2>4. \A d \in logged' : ~Fatal(d[1])
    BY <1>2, <2>3 DEF ReadsOn, Fatal
  <2>5. Text!UnitsOf(source', "bad") = {} <=> u.unit # "bad"
    <3>1. /\ DOMAIN source = 1 .. Len(source) /\ DOMAIN source' = 1 .. Len(source) + 1
          /\ source'[Len(source) + 1] = u
          /\ \A k \in 1 .. Len(source) : source'[k] = source[k]
      BY <2>1, <2>2
    <3>2. \A k \in 1 .. Len(source) : source[k].unit # "bad"
      BY <2>3, <3>1 DEF Text!UnitsOf
    <3>3. \A k \in 1 .. Len(source) + 1 : k \in 1 .. Len(source) \/ k = Len(source) + 1
      BY <2>2
    <3>4. Len(source) + 1 \in 1 .. Len(source) + 1
      BY <2>2
    <3> QED
      BY <3>1, <3>2, <3>3, <3>4 DEF Text!UnitsOf
  <2>6. (Text!UnitsOf(source, "bad"))' = Text!UnitsOf(source', "bad")
    OBVIOUS
  <2> QED
    BY <2>1, <2>3, <2>4, <2>5 DEF EndInv
<1>3. CASE Ends \/ Faults
  <2>1. ~Running'
    BY <1>3 DEF Ends, Faults, Logger, Fatal, Fault, Running
  <2> QED
    BY <1>3, <2>1 DEF Ends, Faults, EndInv
<1>4. CASE FlushOutput
  <2>1. /\ At("flush") /\ pc = "flush" /\ Running /\ temp' = <<Image>> /\ pc' = "copy"
        /\ UNCHANGED <<source, outfile, status, logged>>
    BY <1>4 DEF FlushOutput, At, Goto, inputVars, processVars
  <2>2. Text!Resolved(source) => Text!IsImage(source, Image)
    BY <2>1, ImageAtFlush
  <2>3. Len(temp') = 1 /\ temp'[1] = Image
    BY <2>1
  <2>4. Text!Resolved(source)' => Text!IsImage(source', temp'[1])
    BY <2>1, <2>2, <2>3
  <2> QED
    BY <2>1, <2>3, <2>4 DEF EndInv, Running
<1>5. CASE CopyFiles
  <2>1. pc = "copy" /\ ~Running' /\ UNCHANGED <<source, temp, pc>>
    BY <1>5 DEF CopyFiles, At, CleanExit, Running, inputVars
  <2> QED
    BY <2>1 DEF EndInv
<1> QED
  BY <1>1, <1>2, <1>3, <1>4, <1>5, Outcomes

\* An operand that cannot be read belongs to a name without a label.
LEMMA FaultUnresolved ==
  ASSUME TypeInv, NamesInv, PointersCurrent, EntryInv, NEW k \in DOMAIN instructions,
         instructions[k].sym # NoSymbol, ~Readable(instructions[k].sym)
  PROVE  ~Text!Resolved(source)
<1> DEFINE ptr == instructions[k].sym
           e == Deref(ptr)
           n == e.name
<1>1. SymbolsTypeOK /\ NamesUnique /\ source \in Seq(Unit)
  BY DEF TypeInv, TypeOK, ControlTypeOK
<1>2. ptr.hash \in Bucket /\ ptr.index \in DOMAIN symbols[ptr.hash]
  <2>1. instructions[k] \in Instruction
    BY DEF TypeInv, TypeOK, BytecodeTypeOK
  <2>2. ptr \in Pointer
    BY <2>1 DEF Instruction
  <2> QED
    BY <2>2 DEF Pointer, TypeInv, PointersInTable
<1>3. e.section = Uninit
  BY DEF PointersCurrent, Readable
<1> HIDE DEF ptr
<1>4. e \in Symbol /\ Hash[n] = ptr.hash
  BY <1>1, <1>2 DEF Deref, SymbolsTypeOK, NamesUnique, UniqueIn
<1>5. n \in Name /\ ptr.index \in Entries(symbols, n) /\ symbols[Hash[n]][ptr.index] = e
  BY <1>2, <1>4 DEF Symbol, Entries, Deref
<1>6. n \in Text!NamesIn(source)
  BY <1>5 DEF NamesInv, Known
<1>7. Tells(source, n, e)
  BY <1>5 DEF EntryInv
<1>8. Text!LabelsOf(source, n) = {}
  <2>1. ASSUME Text!LabelsOf(source, n) # {} PROVE FALSE
    <3>1. e.section \in ProgSections
      BY <1>1, <1>7, <2>1, SectionType DEF Tells
    <3> QED
      BY <1>3, <3>1, SectionFacts, SymbolsAssumption
  <2> QED
    BY <2>1
<1> QED
  BY <1>6, <1>8 DEF Text!Resolved

\* Every step of the assembler is one of the abstract specification, or changes
\* nothing there.
LEMMA StepSimulates ==
  ASSUME ~OutOfMemory, TypeInv, NamesInv, PointersCurrent, EntryInv, EndInv, [Next]_vars
  PROVE  [Object!Next]_(Object!vars)
<1> USE DEF Object!vars
<1>1. CASE Quiet
  BY <1>1 DEF Quiet
<1>2. CASE ReadsOn
  <2>1. pc # "copy" /\ Running /\ UNCHANGED <<outfile, status>>
    BY <1>2 DEF ReadsOn
  <2>2. Object!UnitsOf(source, "bad") = {}
    BY <2>1, ObjectUnits DEF EndInv
  <2> QED
    BY <1>2, <2>1, <2>2 DEF ReadsOn, Running, Object!Next, Object!Read
<1>3. CASE Ends
  BY <1>3 DEF Ends, Logger, Fatal, Running, Object!Next, Object!Reject
<1>4. CASE Faults
  <2>1. ~Object!Resolved(source)
    BY <1>4, FaultUnresolved, ObjectUnits DEF Faults
  <2> QED
    BY <1>4, <2>1 DEF Faults, Fault, Running, Object!Next, Object!Crash
<1>5. CASE FlushOutput
  BY <1>5 DEF FlushOutput, inputVars, processVars
<1>6. CASE CopyFiles
  <2>1. /\ pc = "copy" /\ Running /\ status = "running" /\ outfile' = temp
        /\ outfile = <<>> /\ UNCHANGED source
    BY <1>6 DEF CopyFiles, At, inputVars, EndInv, Running
  <2>2. status' = "success"
    BY <1>6, <2>1 DEF CopyFiles, CleanExit, EndInv
  <2>3. CASE Text!UnitsOf(source, "bad") # {}
    <3>1. temp = <<>> /\ Object!UnitsOf(source, "bad") # {}
      BY <2>1, <2>3, ObjectUnits DEF EndInv
    <3> QED
      BY <2>1, <2>2, <3>1 DEF Object!Next, Object!Abandon
  <2>4. CASE Text!UnitsOf(source, "bad") = {}
    <3>1. Len(temp) = 1 /\ (Text!Resolved(source) => Text!IsImage(source, temp[1]))
      BY <2>1, <2>4 DEF EndInv
    <3>2. Object!UnitsOf(source, "bad") = {}
      BY <2>4, ObjectUnits
    <3>3. Object!Resolved(source) => Object!IsImage(source, temp[1])
      <4>1. source \in Seq(Unit)
        BY DEF TypeInv, TypeOK, ControlTypeOK
      <4>2. ASSUME Text!Resolved(source) PROVE Object!IsImage(source, temp[1])
        BY <3>1, <4>1, <4>2, ObjectImage
      <4> QED
        BY <4>2, ObjectUnits
    <3> QED
      BY <2>1, <2>2, <3>1, <3>2, <3>3 DEF Object!Next, Object!Deliver
  <2> QED
    BY <2>3, <2>4
<1> QED
  BY <1>1, <1>2, <1>3, <1>4, <1>5, <1>6, Outcomes

\* The refinement.
THEOREM AssemblerImplements ==
  ASSUME DistinctBuckets, ~OutOfMemory
  PROVE  Spec => ImplementsObjectFile
<1> DEFINE Inv == /\ TypeInv /\ ItemsInv /\ TableInv /\ NamesInv /\ StoredInv
                  /\ PointersCurrent /\ PlaceInv /\ EntryInv /\ UnitsInv /\ BytesInv
                  /\ EndInv
<1>1. Init => Inv
  <2>1. Init => StoredInv /\ PointersCurrent /\ BytesInv
    BY DEF Init, BytecodeInit, PointersCurrent, StoredInv, BytesInv, Writing
  <2> QED
    BY <2>1, TypeInvInit, ItemsInit, TableInit, NamesInit, PlaceInit, EntryInit,
       UnitsInit, EndInit
<1>2. Inv /\ [Next]_vars => Inv'
  BY TypeInvNext, ItemsNext, TableNext, NamesNext, StoredNext, PointersNext, PlaceNext,
     EntryNext, UnitsNext, BytesNext, EndNext
<1>3. Init => Object!Init
  BY DEF Init, ProcessInit, Object!Init
<1>4. Inv /\ [Next]_vars => [Object!Next]_(Object!vars)
  BY StepSimulates
<1> HIDE DEF Inv
<1> QED
  BY <1>1, <1>2, <1>3, <1>4, PTL DEF Spec, ImplementsObjectFile, Object!Spec
=============================================================================
