----------------------------- MODULE ObjectFile -----------------------------
(***************************************************************************)
(* What the assembler promises its user: it reads a source and delivers    *)
(* its translation, or says it failed and delivers nothing.  Two things    *)
(* weaken the promise, and are stated here as what they are: a source with *)
(* a name it never defines has no agreed outcome, and some directives it   *)
(* cannot use make it stop without an error.                               *)
(***************************************************************************)
EXTENDS Source

CONSTANT Unit  \* the units a source can be made of

VARIABLES
    source,   \* the units read so far
    outfile,  \* the output file: empty, or one object
    status    \* "running", or how the assembly ended

vars == <<source, outfile, status>>

Init == source = <<>> /\ outfile = <<>> /\ status = "running"

Read ==
    /\ status = "running"
    /\ UnitsOf(source, "bad") = {}
    /\ \E u \in Unit : source' = Append(source, u)
    /\ UNCHANGED <<outfile, status>>

\* Success: the output is a translation of the source.
Deliver ==
    /\ status = "running"
    /\ UnitsOf(source, "bad") = {}
    /\ status' = "success"
    /\ Len(outfile') = 1
    /\ Resolved(source) => IsImage(source, outfile'[1])
    /\ UNCHANGED source

\* The silent end: the last unit read was unusable, nothing is delivered, and
\* the status says success all the same.
Abandon ==
    /\ status = "running"
    /\ UnitsOf(source, "bad") # {}
    /\ status' = "success"
    /\ UNCHANGED <<source, outfile>>

\* Failure with a diagnostic, at any point; nothing is delivered.
Reject ==
    /\ status = "running"
    /\ status' = "failure"
    /\ UNCHANGED <<source, outfile>>

\* A reference to a name that is never defined may end the process.
Crash ==
    /\ status = "running"
    /\ ~Resolved(source)
    /\ status' = "crash"
    /\ UNCHANGED <<source, outfile>>

Next == Read \/ Deliver \/ Abandon \/ Reject \/ Crash

Spec == Init /\ [][Next]_vars
=============================================================================
