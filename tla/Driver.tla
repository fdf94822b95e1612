------------------------------- MODULE Driver -------------------------------
(***************************************************************************)
(* The whole program from outside (main.c): read the command line, open    *)
(* the files, assemble the input file into a temporary file, copy that to  *)
(* the output file, and end.                                               *)
(*                                                                         *)
(* parse_file is one step here, and Outcomes says how it may end for each  *)
(* source (Assembler models how it comes to that): with an object, with a  *)
(* diagnostic, with a fault, or with a silent return that writes nothing.  *)
(* Nothing checks a write: on a full disk the files just stay short.       *)
(***************************************************************************)
EXTENDS CommandLine

CONSTANTS
    FileSystems,  \* the file systems to start with: functions from names to contents
    Outcomes,     \* for every source, the ways in which parse_file may end
    BUFSIZ,       \* the bytes copied at a time
    DiskFills,    \* TRUE iff the disk may be full
    Stdout        \* the standard output, as a file

\* The ways in which parse_file may end.
Object(bytes) == [kind |-> "object", bytes |-> bytes]
Stopped == [kind |-> "stopped", bytes |-> <<>>]  \* parse_line has returned nonzero
Refused == [kind |-> "refused", bytes |-> <<>>]  \* a diagnostic of level ERROR
Crashed == [kind |-> "crashed", bytes |-> <<>>]  \* a fault

ASSUME DriverAssumption ==
    /\ BUFSIZ \in Nat \ {0}
    /\ DiskFills \in BOOLEAN
    \* A file system is a function; nothing has been written to Stdout yet.
    /\ \A fs \in FileSystems :
        /\ fs = [name \in DOMAIN fs |-> fs[name]]
        /\ Stdout \in DOMAIN fs
        /\ fs[Stdout] = <<>>
    \* Every file is a source, which parse_file does something with.
    /\ \A fs \in FileSystems : \A name \in DOMAIN fs : fs[name] \in DOMAIN Outcomes
    /\ \A source \in DOMAIN Outcomes :
        /\ Outcomes[source] # {}
        /\ \A result \in Outcomes[source] :
            /\ result.kind \in {"object", "stopped", "refused", "crashed"}
            /\ result.bytes \in Seq(ToSet(result.bytes))
            /\ result.kind = "stopped" => result = Stopped

VARIABLES
    before,    \* the file system the program found
    files,     \* the file system
    disk,      \* "free" or "full"
    output,    \* the name of the file open for writing, or Stdout
    tempfile,  \* what is in the temporary file
    pos        \* how much of it has been copied

fileVars == <<before, files, disk, output, tempfile, pos>>
vars == <<processVars, commandVars, fileVars>>

Input == given["inputfile"][1]
Output == given["outputfile"][1]

Fail == Logger("ERROR", "error_system")
Proceed(to) == phase' = to /\ UNCHANGED processVars

At(where) == Running /\ phase = where

----------------------------------------------------------------------------
\* open_files

OpenTempfile ==
    /\ At("tmpfile")
    /\ \/ Proceed("input")
       \/ Fail /\ UNCHANGED phase
    /\ UNCHANGED <<files, output, tempfile, pos>>

\* The file system fs once the file has been opened for writing, which empties
\* it.
Emptied(fs, file) ==
    [name \in DOMAIN fs \cup {file} |-> IF name = file THEN <<>> ELSE fs[name]]

\* Mutant: the output file is opened before the input file.
OpenInputLate ==
    /\ At("input")
    /\ files' = Emptied(files, Output)
    /\ \/ Input \in DOMAIN files /\ Proceed("output")
       \/ Fail /\ UNCHANGED phase
    /\ UNCHANGED <<output, tempfile, pos>>

\* A file that exists may be unreadable all the same.
OpenInput ==
    /\ At("input")
    /\ \/ Input \in DOMAIN files /\ Proceed("output")
       \/ Fail /\ UNCHANGED phase
    /\ UNCHANGED <<files, output, tempfile, pos>>

\* An empty name stands for the standard output.
OpenStdout ==
    /\ At("output")
    /\ Output = <<>>
    /\ output' = Stdout
    /\ Proceed("parse")
    /\ UNCHANGED <<files, tempfile, pos>>

OpenOutput ==
    /\ At("output")
    /\ Output # <<>>
    /\ \/ /\ files' = Emptied(files, Output)
          /\ output' = Output
          /\ Proceed("parse")
       \/ Fail /\ UNCHANGED <<files, output, phase>>
    /\ UNCHANGED <<tempfile, pos>>

open_files == OpenTempfile \/ OpenInput \/ OpenStdout \/ OpenOutput

----------------------------------------------------------------------------
\* parse_file, and the copy of its output.

\* What a write of "bytes" leaves behind: on a full disk, any part of it that
\* is not the whole.
Written(bytes) ==
    IF disk = "full" /\ bytes # <<>>
    THEN {SubSeq(bytes, 1, n) : n \in 0 .. Len(bytes) - 1}
    ELSE {bytes}

ObjectWritten(result) ==
    /\ result.kind = "object"
    /\ tempfile' \in Written(result.bytes)
    /\ Proceed("buffer")

\* An unknown section, with a warning, or a string without its opening quote,
\* without one: parse_file returns, and main goes on to copy what it has not
\* written.
ReadingStopped(result) ==
    /\ result.kind = "stopped"
    /\ phase' = "buffer"
    /\ UNCHANGED processVars \/ Logger("WARN", "error_invalid_instruction")
    /\ UNCHANGED tempfile

SourceRefused(result) ==
    /\ result.kind = "refused"
    /\ \E id \in ErrorIds : Logger("ERROR", id)
    /\ UNCHANGED <<tempfile, phase>>

\* An undefined name or a stale pointer followed, a malloc left unchecked.
ParserCrash(result) ==
    /\ result.kind = "crashed"
    /\ Fault
    /\ UNCHANGED <<tempfile, phase>>

parse_file ==
    /\ At("parse")
    /\ \/ \E result \in Outcomes[files[Input]] :
            \/ ObjectWritten(result) \/ ReadingStopped(result)
            \/ SourceRefused(result) \/ ParserCrash(result)
       \/ Die /\ UNCHANGED <<tempfile, phase>>
    /\ UNCHANGED <<files, output, pos>>

AllocateBuffer ==
    /\ At("buffer")
    /\ \/ Proceed("copy")
       \/ Die /\ UNCHANGED phase
    /\ UNCHANGED <<files, output, tempfile, pos>>

\* Mutant: only whole blocks are read.
BlockWhole ==
    IF pos + BUFSIZ <= Len(tempfile) THEN SubSeq(tempfile, pos + 1, pos + BUFSIZ) ELSE <<>>

\* The bytes of one fread.
Block == SubSeq(tempfile, pos + 1, IF pos + BUFSIZ < Len(tempfile) THEN pos + BUFSIZ ELSE Len(tempfile))

\* A block shorter than the buffer is the last one.  What the disk has lost of
\* an earlier block leaves no room for a later one.
copy_files ==
    /\ At("copy")
    /\ \E bytes \in IF output = Stdout THEN {Block}
                   ELSE IF Len(files[output]) < pos THEN {<<>>}
                   ELSE Written(Block) :
         files' = [files EXCEPT ![output] = @ \o bytes]
    /\ pos' = pos + Len(Block)
    /\ IF Len(Block) # BUFSIZ THEN Proceed("close") ELSE UNCHANGED <<phase, processVars>>
    /\ UNCHANGED <<output, tempfile>>

closefiles ==
    /\ At("close")
    /\ CleanExit
    /\ UNCHANGED <<phase, logged, files, output, tempfile, pos>>

main ==
    /\ \/ open_files \/ parse_file \/ AllocateBuffer \/ copy_files \/ closefiles
    /\ UNCHANGED <<posixly_correct, argv, getoptVars, given, errors, before, disk>>

----------------------------------------------------------------------------
Init ==
    /\ ProcessInit
    /\ CommandInit
    /\ before \in FileSystems
    /\ files = before
    /\ disk = "free"
    /\ output = Stdout
    /\ tempfile = <<>>
    /\ pos = 0

FillDisk ==
    /\ DiskFills
    /\ phase \in {"parse", "buffer", "copy"}
    /\ Running
    /\ disk = "free"
    /\ disk' = "full"
    /\ UNCHANGED <<processVars, commandVars, before, files, output, tempfile, pos>>

Next ==
    \/ CommandNext /\ UNCHANGED fileVars
    \/ main
    \/ FillDisk

\* A single thread that waits for nothing: while it runs, it takes its next step.
Spec == Init /\ [][Next]_vars /\ WF_vars(Next)

TypeOK ==
    /\ ProcessTypeOK
    /\ CommandTypeOK
    /\ DOMAIN before \subseteq DOMAIN files
    /\ disk \in {"free", "full"}
    /\ output \in DOMAIN files
    /\ pos <= Len(tempfile)
=============================================================================
