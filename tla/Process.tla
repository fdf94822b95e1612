------------------------------ MODULE Process ------------------------------
(***************************************************************************)
(* The process wrasm runs in: what the logger (debug.c) and the checked    *)
(* allocators (xmalloc.c) do to it.  Every other module reports through    *)
(* these operators.                                                        *)
(*                                                                         *)
(* A diagnostic is abstracted to its level and its error id, and those     *)
(* below WARN are left out.  The program never changes exitloglevel, so a  *)
(* diagnostic of level ERROR or CRITICAL ends the process inside the call  *)
(* to logger, with a failure status.                                       *)
(***************************************************************************)
EXTENDS Naturals

CONSTANT
    OutOfMemory  \* TRUE iff malloc and realloc may return NULL

ASSUME ProcessAssumption == OutOfMemory \in BOOLEAN

VARIABLES
    status,      \* "running", or how the process ended
    logged       \* the diagnostics of level WARN and above logged so far

processVars == <<status, logged>>

Levels == {"WARN", "ERROR", "CRITICAL"}
ErrorIds == {"error_unknown", "error_system", "error_internal",
             "error_invalid_syntax", "error_invalid_instruction",
             "error_instruction_other"}
Diagnostic == Levels \X ErrorIds

ProcessTypeOK ==
    /\ status \in {"running", "success", "failure", "crash"}
    /\ logged \subseteq Diagnostic

ProcessInit == status = "running" /\ logged = {}

Running == status = "running"

\* exitloglevel is ERROR: a call that logs at this level or above never returns.
Fatal(level) == level \in {"ERROR", "CRITICAL"}

Logger(level, id) ==
    /\ logged' = logged \cup {<<level, id>>}
    /\ status' = IF Fatal(level) THEN "failure" ELSE status

\* An allocation through xmalloc, xcalloc or xrealloc that fails.
Die == OutOfMemory /\ Logger("CRITICAL", "error_system")

\* A raw malloc whose result is used unchecked: the program is undefined
\* from the first access, and on every hosted build that is a fault.
Fault == status' = "crash" /\ UNCHANGED logged

\* The status main returns: failure iff something of level ERROR was logged.
CleanExit ==
    status' = IF \E d \in logged : Fatal(d[1]) THEN "failure" ELSE "success"
=============================================================================
