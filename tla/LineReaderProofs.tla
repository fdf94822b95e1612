-------------------------- MODULE LineReaderProofs --------------------------
(***************************************************************************)
(* What getl does on every input, with every buffer increment and every    *)
(* realloc: the lines it returns are whole, and both of its undefined      *)
(* writes happen on exactly described lines only.  The runs that are       *)
(* expected to fail show that they do happen.                              *)
(***************************************************************************)
EXTENDS LineReader, TLAPS

-----------------------------------------------------------------------------
(* The lines returned.                                                     *)

\* The inductive invariant: the model stops at the first undefined write;
\* until then p stands behind the characters of the line, at most one past
\* the end of the buffer.
IInv ==
    /\ TypeOK
    /\ faults = {} \/ pc = "undefined"
    /\ bufptr # 0 => size >= CHUNK
    /\ pc = "loop" =>
        /\ c # "eof"
        /\ c = "char" => given < MaxLine
        /\ p.off <= size
    /\ pc \in {"loop", "terminate"} =>
        bufptr # 0 /\ p.off = given /\ given <= MaxLine
    /\ LineWhole

\* getl is called with no buffer at all first.
LEMMA LineReaderInit == Init => IInv
  BY LineReaderAssumption DEF Init, IInv, TypeOK, Characters, LineWhole

\* A buffer that grows keeps what it had room for, and has room for the next
\* character afterwards.
LEMMA GrowRoom ==
  ASSUME TypeOK, Grow
  PROVE  /\ size' \in Nat /\ size' >= size /\ bufptr' \in Nat
         /\ p.off <= size => p.off < size'
         /\ bufptr # 0 => bufptr' # 0
         /\ ~MayMove \/ p.off < size => bufptr' = bufptr
  BY LineReaderAssumption DEF TypeOK, Grow

\* Every step of getl keeps the invariant.
LEMMA LineReaderStep == IInv /\ [Next]_vars => IInv'
<1> SUFFICES ASSUME IInv, [Next]_vars PROVE IInv'
  OBVIOUS
<1> USE LineReaderAssumption DEF IInv, TypeOK, Characters, LineWhole
<1>1. CASE Call
  BY <1>1 DEF Call, Fgetc
<1>2. CASE Store
  <2>1. p.off = given /\ given < MaxLine /\ bufptr # 0
    BY <1>2 DEF Store
  <2>2. size' \in Nat /\ bufptr' \in Nat /\ size' >= size /\ p.off < size' /\ bufptr' # 0
    BY <1>2, GrowRoom DEF Store
  <2>3. p' = [block |-> p.block, off |-> given'] /\ given' = given + 1
    BY <1>2, <2>1 DEF Store
  <2>4. faults' \subseteq {"stale", "past_end"}
    BY <1>2 DEF Store, WriteFaults
  <2>5. /\ c' \in Fgetc(given')
        /\ pc' = IF faults' # {} THEN "undefined"
                 ELSE IF c' = "eof" THEN "terminate" ELSE "loop"
        /\ longest' = longest
    BY <1>2 DEF Store
  <2> QED
    BY <2>1, <2>2, <2>3, <2>4, <2>5, <1>2 DEF Fgetc
<1>3. CASE Newline
  <2>1. size' \in Nat /\ size' >= size /\ bufptr' \in Nat /\ bufptr' # 0
    BY <1>3, GrowRoom DEF Newline
  <2> QED
    BY <1>3, <2>1 DEF Newline
<1>4. CASE Terminate
  BY <1>4 DEF Terminate, WriteFaults
<1>5. CASE Stopped
  BY <1>5 DEF Stopped, vars
<1>6. CASE UNCHANGED vars
  BY <1>6 DEF vars
<1> QED
  BY <1>1, <1>2, <1>3, <1>4, <1>5, <1>6 DEF Next

\* The invariant holds throughout.
LEMMA LineReaderInv == Spec => []IInv
  BY LineReaderInit, LineReaderStep, PTL DEF Spec

\* The variables of getl keep their types on every input; p never comes to
\* stand before the start of its block.
THEOREM GetlTypes == Spec => []TypeOK
<1>1. IInv => TypeOK
  BY DEF IInv
<1> QED
  BY <1>1, LineReaderInv, PTL

\* On every input a call that makes no undefined write returns the whole line.
THEOREM GetlWhole == Spec => []LineWhole
<1>1. IInv => LineWhole
  BY DEF IInv
<1> QED
  BY <1>1, LineReaderInv, PTL

-----------------------------------------------------------------------------
(* The undefined writes.                                                   *)

\* The line read outgrows the first buffer and is longer than all before it.
OutgrowsAll == MayMove /\ given >= CHUNK /\ given > longest

\* The buffer has more room than any line so far took; p is left behind only
\* by a line that has outgrown it; the NUL of a line that ended in a newline
\* has room, and that of a last line has, or stands right behind the buffer.
WriteInv ==
    /\ bufptr = 0 => longest = 0
    /\ bufptr # 0 => longest < size
    /\ pc = "loop" => p.block = bufptr
    /\ pc = "terminate" =>
        /\ p.block = bufptr \/ OutgrowsAll
        /\ c = "newline" => p.off < size
        /\ c # "newline" => c = "eof" /\ ~FinalNewline /\ p.off <= size
    /\ StaleBeyondRoom
    /\ PastEndAtEof

\* A buffer that is moved was full.
LEMMA GrowMoves ==
  ASSUME TypeOK, Grow, bufptr' # bufptr
  PROVE  MayMove /\ p.off >= size
  BY DEF TypeOK, Grow

\* Every step of getl keeps both invariants.
LEMMA WriteStep == IInv /\ WriteInv /\ [Next]_vars => WriteInv'
<1> SUFFICES ASSUME IInv, WriteInv, [Next]_vars
             PROVE  WriteInv'
  OBVIOUS
<1> USE LineReaderAssumption DEF IInv, TypeOK, Characters, WriteInv, StaleBeyondRoom,
        PastEndAtEof, OutgrowsAll
<1>1. CASE Call
  BY <1>1 DEF Call
<1>2. CASE Store
  <2>1. /\ p.off = given /\ p.block = bufptr /\ bufptr # 0 /\ faults = {}
        /\ given' = given + 1 /\ longest' = longest
    BY <1>2 DEF Store
  <2>2. /\ size' \in Nat /\ size' >= size /\ p.off < size' /\ bufptr' # 0
        /\ bufptr' # bufptr => MayMove /\ p.off >= size
    BY <1>2, <2>1, GrowRoom, GrowMoves DEF Store
  <2>3. faults' = IF bufptr' = bufptr THEN {} ELSE {"stale"}
    BY <1>2, <2>1, <2>2 DEF Store, WriteFaults
  <2>4. /\ c' \in Fgetc(given') /\ p' = [block |-> p.block, off |-> given']
        /\ pc' = IF faults' # {} THEN "undefined"
                 ELSE IF c' = "eof" THEN "terminate" ELSE "loop"
    BY <1>2, <2>1 DEF Store
  <2>5. c' = "eof" => ~FinalNewline
    BY <2>1, <2>4 DEF Fgetc
  <2> QED
    BY <2>1, <2>2, <2>3, <2>4, <2>5
<1>3. CASE Newline
  <2>1. /\ p.off = given /\ p.block = bufptr /\ bufptr # 0 /\ faults' = {}
        /\ UNCHANGED <<c, p, given, longest>> /\ pc' = "terminate" /\ c = "newline"
    BY <1>3 DEF Newline
  <2>2. /\ size' \in Nat /\ size' >= size /\ p.off < size' /\ bufptr' # 0
        /\ bufptr' # bufptr => MayMove /\ p.off >= size
    BY <1>3, <2>1, GrowRoom, GrowMoves DEF Newline
  <2> QED
    BY <2>1, <2>2
<1>4. CASE Terminate
  <2>1. /\ UNCHANGED <<c, size, bufptr, p, given>> /\ p.off = given /\ faults = {}
        /\ bufptr # 0 /\ pc = "terminate"
    BY <1>4 DEF Terminate
  <2>2. faults' = IF p.block # bufptr THEN {"stale"}
                  ELSE IF p.off >= size THEN {"past_end"} ELSE {}
    BY <1>4, <2>1 DEF Terminate, WriteFaults
  <2>3. CASE faults' # {}
    BY <1>4, <2>1, <2>2, <2>3 DEF Terminate
  <2>4. CASE faults' = {}
    <3>1. pc' = "call" /\ longest' = IF given > longest THEN given ELSE longest
      BY <1>4, <2>4 DEF Terminate
    <3>2. {"stale"} # {} /\ {"past_end"} # {}
      OBVIOUS
    <3>3. ~(p.off >= size)
      BY <2>2, <2>4, <3>2, Zenon
    <3>4. given < size
      BY <2>1, <3>3
    <3> QED
      BY <2>1, <2>4, <3>1, <3>4
  <2> QED
    BY <2>3, <2>4
<1>5. CASE Stopped
  BY <1>5 DEF Stopped, vars
<1>6. CASE UNCHANGED vars
  BY <1>6 DEF vars
<1> QED
  BY <1>1, <1>2, <1>3, <1>4, <1>5, <1>6 DEF Next

\* The invariants hold throughout.
LEMMA WriteAlways == Spec => []WriteInv
<1>1. Init => WriteInv
  BY DEF Init, WriteInv, StaleBeyondRoom, PastEndAtEof
<1> QED
  BY <1>1, WriteStep, LineReaderInv, PTL DEF Spec

\* On every input and however realloc behaves, only a line that outgrows the
\* first buffer and is longer than every line before it makes getl write into
\* freed memory.
THEOREM GetlStaleBeyondRoom == Spec => []StaleBeyondRoom
<1>1. WriteInv => StaleBeyondRoom
  BY DEF WriteInv
<1> QED
  BY <1>1, WriteAlways, PTL

\* On every input, only the NUL of a last line without a newline that fills the
\* buffer to the last byte is stored behind it.
THEOREM GetlPastEndAtEof == Spec => []PastEndAtEof
<1>1. WriteInv => PastEndAtEof
  BY DEF WriteInv
<1> QED
  BY <1>1, WriteAlways, PTL
=============================================================================
