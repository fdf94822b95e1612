----------------------------- MODULE LineReader -----------------------------
(***************************************************************************)
(* getl of generation.c: reads the input a line at a time into a buffer    *)
(* that is kept from call to call and grown by CHUNK bytes with realloc.   *)
(*                                                                         *)
(* The function writes through p, a pointer into the buffer it set at the  *)
(* start of the line.  A pointer is a block of memory and an offset in it; *)
(* realloc may leave the buffer in its block or move it to a new one, and  *)
(* p stays what it was.  A write that is not inside the current buffer is  *)
(* undefined, and the model stops there.                                   *)
(***************************************************************************)
EXTENDS Naturals

CONSTANTS
    CHUNK,        \* 128 in the source
    MaxLine,      \* bound on the length of a line
    MayMove,      \* TRUE iff realloc may move a block it grows
    FinalNewline  \* TRUE iff every line, the last one too, ends in a newline

ASSUME LineReaderAssumption ==
    /\ CHUNK \in Nat \ {0}
    /\ MaxLine \in Nat
    /\ MayMove \in BOOLEAN
    /\ FinalNewline \in BOOLEAN

VARIABLES
    pc,        \* "call", "loop", "terminate", "end" or "undefined"
    c,         \* the character fgetc returned last
    size,      \* the capacity of the buffer
    bufptr,    \* the block the buffer is in; 0 is NULL
    p,         \* where the next character goes: a block and an offset
    given,     \* history: the characters of the current line read so far
    longest,   \* history: the length of the longest line returned so far
    faults     \* the kinds of undefined writes made

vars == <<pc, c, size, bufptr, p, given, longest, faults>>

Characters == {"char", "newline", "eof"}

\* Every variable of getl is in its domain; in particular p never comes to
\* stand before the start of its block.
TypeOK ==
    /\ pc \in {"call", "loop", "terminate", "end", "undefined"}
    /\ c \in Characters
    /\ size \in Nat /\ bufptr \in Nat
    /\ p \in [block : Nat, off : Nat]
    /\ given \in Nat /\ longest \in Nat
    /\ faults \subseteq {"stale", "past_end"}

Init ==
    /\ pc = "call"
    /\ c = "newline"
    /\ size = 0
    /\ bufptr = 0
    /\ p = [block |-> 0, off |-> 0]
    /\ given = 0
    /\ longest = 0
    /\ faults = {}

\* What fgetc may return behind n characters of the same line.
Fgetc(n) ==
    {ch \in Characters :
        /\ ch = "char" => n < MaxLine
        /\ ch = "eof" => n = 0 \/ ~FinalNewline}

\* What is wrong with a write at offset off of block b, into the buffer as it
\* is once the step is done.
WriteFaults(b, off) ==
    IF b # bufptr' THEN {"stale"}
    ELSE IF off >= size' THEN {"past_end"} ELSE {}

-----------------------------------------------------------------------------

\* Mutant: the size is set back to that of a first buffer.
CallForgetsSize ==
    /\ pc = "call"
    /\ c' \in Fgetc(0)
    /\ given' = 0
    /\ IF c' = "eof"
       THEN pc' = "end" /\ UNCHANGED <<size, bufptr, p>>
       ELSE /\ pc' = "loop"
            /\ size' = CHUNK
            /\ bufptr' = IF bufptr = 0 THEN 1 ELSE bufptr
            /\ p' = [block |-> bufptr', off |-> 0]
    /\ UNCHANGED <<longest, faults>>

\* Mutant: p goes on where the last line ended.
CallKeepsOffset ==
    /\ pc = "call"
    /\ c' \in Fgetc(0)
    /\ given' = 0
    /\ IF c' = "eof"
       THEN pc' = "end" /\ UNCHANGED <<size, bufptr, p>>
       ELSE /\ pc' = "loop"
            /\ size' = IF bufptr = 0 THEN CHUNK ELSE size
            /\ bufptr' = IF bufptr = 0 THEN 1 ELSE bufptr
            /\ p' = [p EXCEPT !.block = bufptr']
    /\ UNCHANGED <<longest, faults>>

\* The head of getl: the end of the input, or the first character of a line;
\* the buffer is allocated by the first call.
Call ==
    /\ pc = "call"
    /\ c' \in Fgetc(0)
    /\ given' = 0
    /\ IF c' = "eof"
       THEN pc' = "end" /\ UNCHANGED <<size, bufptr, p>>
       ELSE /\ pc' = "loop"
            /\ size' = IF bufptr = 0 THEN CHUNK ELSE size
            /\ bufptr' = IF bufptr = 0 THEN 1 ELSE bufptr
            /\ p' = [block |-> bufptr', off |-> 0]
    /\ UNCHANGED <<longest, faults>>

\* Mutant: > for >=
GrowLate ==
    IF p.off > size
    THEN /\ size' = size + CHUNK
         /\ bufptr' \in IF MayMove THEN {bufptr, bufptr + 1} ELSE {bufptr}
    ELSE UNCHANGED <<size, bufptr>>

\* if (p - bufptr > size - 1): the buffer grows, whatever comes next.
Grow ==
    IF p.off >= size
    THEN /\ size' = size + CHUNK
         /\ bufptr' \in IF MayMove THEN {bufptr, bufptr + 1} ELSE {bufptr}
    ELSE UNCHANGED <<size, bufptr>>

\* The body of the loop for a character of the line.
Store ==
    /\ pc = "loop" /\ c = "char"
    /\ Grow
    /\ faults' = faults \cup WriteFaults(p.block, p.off)
    /\ p' = [p EXCEPT !.off = @ + 1]
    /\ given' = given + 1
    /\ c' \in Fgetc(given')
    /\ pc' = IF faults' # {} THEN "undefined"
             ELSE IF c' = "eof" THEN "terminate" ELSE "loop"
    /\ UNCHANGED longest

\* Mutant: the newline is taken off by backing up.
NewlineBacksUp ==
    /\ pc = "loop" /\ c = "newline"
    /\ Grow
    /\ p' = [p EXCEPT !.off = @ - 1]
    /\ pc' = "terminate"
    /\ UNCHANGED <<c, given, longest, faults>>

\* The body of the loop for the newline, which is not stored.
Newline ==
    /\ pc = "loop" /\ c = "newline"
    /\ Grow
    /\ pc' = "terminate"
    /\ UNCHANGED <<c, p, given, longest, faults>>

\* *(p++) = '\0', and the return.
Terminate ==
    /\ pc = "terminate"
    /\ UNCHANGED <<c, size, bufptr, p, given>>
    /\ faults' = faults \cup WriteFaults(p.block, p.off)
    /\ IF faults' # {}
       THEN pc' = "undefined" /\ UNCHANGED longest
       ELSE pc' = "call" /\ longest' = IF given > longest THEN given ELSE longest

Stopped == pc \in {"end", "undefined"} /\ UNCHANGED vars

Next == Call \/ Store \/ Newline \/ Terminate \/ Stopped

Spec == Init /\ [][Next]_vars

-----------------------------------------------------------------------------

\* Which lines make getl write into a block that realloc has freed, however it
\* behaves: only one that outgrows the first buffer and is longer than every
\* line before it, for what the buffer has grown to is kept from call to call.
StaleBeyondRoom ==
    "stale" \in faults => MayMove /\ given >= CHUNK /\ given > longest

\* Which lines make it store behind the buffer: only a last line without a
\* newline that fills the buffer to the last byte, and then it is the NUL.
PastEndAtEof ==
    "past_end" \in faults => ~FinalNewline /\ c = "eof" /\ given = size

\* Every line comes back whole: the NUL of a finished call stands inside the
\* buffer and right behind all the characters fgetc gave for that line.
LineWhole ==
    pc = "call" /\ bufptr # 0 => p.off = given /\ given < size

-----------------------------------------------------------------------------
(* What realloc and the check in the loop of getl are for.                 *)

\* p always points into the buffer in use: growing it has not left p behind.
NoStaleWrite == "stale" \notin faults

\* No character and no terminating NUL is stored behind the buffer.
NoWritePastEnd == "past_end" \notin faults
=============================================================================
