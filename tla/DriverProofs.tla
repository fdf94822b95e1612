---------------------------- MODULE DriverProofs ----------------------------
(***************************************************************************)
(* What is proved of a run of wrasm, for every command line, every file    *)
(* system and every block size: what a failure costs and what a success    *)
(* has delivered; that getopt's permute_args exchanges the two blocks it   *)
(* is given; on that, the types of the whole program and the order in      *)
(* which getopt leaves the words.                                          *)
(***************************************************************************)
EXTENDS Usage, SequenceTheorems, FiniteSetTheorems, WellFoundedInduction, TLAPS

Opening == {"tmpfile", "input", "output"}
Assembling == {"parse", "buffer"}
Copying == {"copy", "close"}

-----------------------------------------------------------------------------
(* What a failure costs.                                                   *)

\* No diagnostic that ends the process lies behind a process that runs.
NothingFatal == Running => \A d \in logged : ~Fatal(d[1])

\* The output file has been emptied, the standard output being empty anyway,
\* and no other file has changed.
OnlyEmptied ==
    /\ output # Stdout => output = Output
    /\ files = Emptied(before, output)

\* The inductive invariant: how far the files have changed in each phase, and
\* that nothing fails once the copy has begun.
CostInv ==
    /\ before \in FileSystems
    /\ phase \in CommandPhases \cup Opening \cup Assembling \cup Copying
    /\ NothingFatal
    /\ phase \in CommandPhases \cup Opening => files = before /\ output = Stdout
    /\ phase \notin CommandPhases => status # "success" \/ phase = "close"
    /\ phase = "output" => Input \in DOMAIN before
    /\ phase \in Assembling => OnlyEmptied /\ Input \in DOMAIN before
    /\ phase \in Copying => status \notin {"failure", "crash"}

\* While the command line is read no file is opened and nothing is logged.
LEMMA CommandStep ==
  ASSUME CommandNext
  PROVE  /\ Running /\ phase \in CommandPhases
         /\ phase' \in CommandPhases \cup {"tmpfile"}
         /\ phase' = "tmpfile" => status' = status
         /\ UNCHANGED <<posixly_correct, argv, logged>>
<1>1. Running /\ UNCHANGED <<posixly_correct, argv, logged>>
  BY DEF CommandNext, arg_parse, getopt_internal, parse_cmdargs, arg_parse_untagged,
         arg_parse_check, EndOfWords, FirstOperand, SkipOperand, EndOfOptions,
         NamelessOption, BadLongOption, LongOptionLacksValue, parse_long_options,
         UnknownLetter, FlagLetter, LetterLacksValue, ValueLetter, ReadingLong,
         ReadingShort, Reading, BetweenWords, Tagged
<1>2. CASE getopt_internal /\ UNCHANGED status
  <2>1. phase = "tagged"
    BY <1>2 DEF getopt_internal, EndOfWords, FirstOperand, SkipOperand, EndOfOptions,
         NamelessOption, BadLongOption, LongOptionLacksValue, parse_long_options,
         UnknownLetter, FlagLetter, LetterLacksValue, ValueLetter, ReadingLong,
         ReadingShort, Reading, BetweenWords, Tagged
  <2>2. phase' \in {"tagged", "untagged"}
    BY <1>2, <2>1 DEF getopt_internal, EndOfWords, FirstOperand, SkipOperand,
         EndOfOptions, Leave,
         NamelessOption, BadLongOption, LongOptionLacksValue, parse_long_options,
         UnknownLetter, FlagLetter, LetterLacksValue, ValueLetter, ReadingLong,
         ReadingShort, Reading
  <2> QED
    BY <1>1, <2>1, <2>2 DEF CommandPhases
<1>3. CASE arg_parse_untagged /\ UNCHANGED status
  BY <1>1, <1>3 DEF arg_parse_untagged, CommandPhases
<1>4. CASE arg_parse_check /\ UNCHANGED status
  BY <1>1, <1>4 DEF arg_parse_check, CommandPhases
<1>5. CASE parse_cmdargs
  <2>1. phase' = "parsed" \/ (phase' = "tmpfile" /\ status' = status)
    BY <1>5 DEF parse_cmdargs
  <2> QED
    BY <1>1, <1>5, <2>1 DEF parse_cmdargs, CommandPhases
<1> QED
  BY <1>2, <1>3, <1>4, <1>5 DEF CommandNext, arg_parse

\* A file system is what it was once an empty file in it has been emptied.
LEMMA EmptiedStdout ==
  ASSUME NEW fs \in FileSystems
  PROVE  Emptied(fs, Stdout) = fs
<1>1. /\ fs = [name \in DOMAIN fs |-> fs[name]]
      /\ Stdout \in DOMAIN fs /\ fs[Stdout] = <<>>
  BY DriverAssumption
<1> QED
  BY <1>1 DEF Emptied

\* No step of the program from the command line to the end does more to the
\* files than CostInv allows.
LEMMA CostNext == CostInv /\ [Next]_vars => CostInv'
<1> SUFFICES ASSUME CostInv, [Next]_vars PROVE CostInv'
  OBVIOUS
<1> USE DEF CostInv, CommandPhases, Opening, Assembling, Copying, NothingFatal, Running
<1>1. CASE CommandNext /\ UNCHANGED fileVars
  BY <1>1, CommandStep DEF fileVars
<1>2. CASE main
  <2>1. before' = before /\ given' = given
    BY <1>2 DEF main
  <2>2. Input' = Input /\ Output' = Output
    BY <2>1 DEF Input, Output
  <2> USE DEF At, Proceed, processVars, Fail, Logger, Fatal
  <2>3. CASE OpenTempfile
    BY <2>1, <2>3 DEF OpenTempfile
  <2>4. CASE OpenInput
    BY <2>1, <2>2, <2>4 DEF OpenInput
  <2>5. CASE OpenStdout
    BY <2>1, <2>2, <2>5, EmptiedStdout DEF OpenStdout, OnlyEmptied
  <2>6. CASE OpenOutput
    BY <2>1, <2>2, <2>6 DEF OpenOutput, OnlyEmptied
  <2>7. CASE parse_file
    BY <2>1, <2>2, <2>7 DEF parse_file, ObjectWritten, ReadingStopped,
       SourceRefused, ParserCrash, Die, Fault, OnlyEmptied
  <2>8. CASE AllocateBuffer
    BY <2>1, <2>2, <2>8 DEF AllocateBuffer, OnlyEmptied, Die
  <2>9. CASE copy_files
    BY <2>1, <2>9 DEF copy_files
  <2>10. CASE closefiles
    BY <2>1, <2>10 DEF closefiles, CleanExit
  <2> QED
    BY <1>2, <2>3, <2>4, <2>5, <2>6, <2>7, <2>8, <2>9, <2>10 DEF main, open_files
<1>3. CASE FillDisk
  BY <1>3 DEF FillDisk, processVars, commandVars, OnlyEmptied, Input, Output
<1>4. CASE UNCHANGED vars
  BY <1>4 DEF vars, fileVars, commandVars, processVars, OnlyEmptied, Input, Output
<1> QED
  BY <1>1, <1>2, <1>3, <1>4 DEF Next

\* The invariant holds throughout.
LEMMA CostAlways == Spec => []CostInv
<1>1. Init => CostInv
  BY DEF Init, ProcessInit, CommandInit, CostInv, CommandPhases, NothingFatal,
         Opening, Assembling, Copying
<1> QED
  BY <1>1, CostNext, PTL DEF Spec

\* Whatever fails, and whenever: up to the opening of the output file nothing
\* is lost, from then on the output file's last content and nothing else.
THEOREM FailureCostSafe == Spec => []FailureCost
<1>1. CostInv => FailureCost
  BY EmptiedStdout DEF CostInv, FailureCost, OnlyEmptied, CommandPhases, Opening,
     Assembling, Copying
<1> QED
  BY <1>1, CostAlways, PTL
-----------------------------------------------------------------------------
(* What a success has delivered.                                           *)

\* The source as parse_file finds it, and what may be due to the output for it.
SourceText == IF output = Input THEN <<>> ELSE before[Input]
Results == {result \in Outcomes[SourceText] : result.kind \in {"object", "stopped"}}

\* s is the first Len(s) bytes of t.
Begins(s, t) == Len(s) \in 0 .. Len(t) /\ s = SubSeq(t, 1, Len(s))

\* The temporary file and the output file hold the beginning of "bytes", short
\* of what is due only on a full disk.
Holds(bytes) ==
    /\ Begins(tempfile, bytes)
    /\ Len(tempfile) = Len(bytes) \/ disk = "full"
    /\ phase \in Copying =>
        /\ DOMAIN files = DOMAIN before \cup {output}
        /\ \A name \in DOMAIN before \ {output} : files[name] = before[name]
        /\ pos \in 0 .. Len(tempfile)
        /\ Begins(files[output], bytes)
        /\ Len(files[output]) <= pos
        /\ Len(files[output]) = pos \/ (disk = "full" /\ output # Stdout)

\* The inductive invariant: from parse_file on the files hold one and the same
\* result of the source.
DeliverInv ==
    /\ phase \notin Copying => pos = 0
    /\ phase \notin Copying \cup {"buffer"} => tempfile = <<>>
    /\ phase \in Copying \cup {"buffer"} =>
        /\ SourceText \in DOMAIN Outcomes
        /\ \E result \in Results : Holds(result.bytes)
    /\ phase = "close" => pos = Len(tempfile)

\* What is due is a sequence of bytes.
LEMMA ResultSeq ==
  ASSUME SourceText \in DOMAIN Outcomes, NEW result \in Results
  PROVE  /\ result.bytes \in Seq(ToSet(result.bytes))
         /\ Len(result.bytes) \in Nat
<1>1. result \in Outcomes[SourceText]
  BY DEF Results
<1>2. result.bytes \in Seq(ToSet(result.bytes))
  BY <1>1, DriverAssumption
<1> QED
  BY <1>2

\* The beginning of a sequence has the length it is cut to.
LEMMA CutBegins ==
  ASSUME NEW S, NEW t \in Seq(S), NEW n \in 0 .. Len(t)
  PROVE  /\ SubSeq(t, 1, n) \in Seq(S)
         /\ Len(SubSeq(t, 1, n)) = n
         /\ Begins(SubSeq(t, 1, n), t)
<1>1. \A i \in 1 .. n : t[i] \in S
  OBVIOUS
<1>2. SubSeq(t, 1, n) \in Seq(S) /\ Len(SubSeq(t, 1, n)) = IF 1 <= n THEN n - 1 + 1 ELSE 0
  BY <1>1, SubSeqProperties
<1> QED
  BY <1>2 DEF Begins

\* A part of the beginning of a sequence is that part of the sequence.
LEMMA PartOfPart ==
  ASSUME NEW S, NEW t \in Seq(S), NEW m \in Nat, NEW n \in Nat,
         NEW a \in Nat, NEW b \in Nat,
         m <= n + 1, 1 <= m, n <= Len(t), 1 <= a, b <= n - m + 1
  PROVE  SubSeq(SubSeq(t, m, n), a, b) = SubSeq(t, m + a - 1, m + b - 1)
<1>1. CASE b < a
  BY <1>1, SubSeqEmpty
<1>2. CASE a <= b
  <2>1. m \in 1 .. Len(t) /\ n \in 1 .. Len(t)
    BY <1>2
  <2>2. a \in 1 .. n - m + 1 /\ b \in 1 .. n - m + 1
    BY <1>2
  <2> QED
    BY <2>1, <2>2, SubSeqOfSubSeq
<1> QED
  BY <1>1, <1>2

\* What of the source a write leaves behind.
LEMMA WrittenBegins ==
  ASSUME NEW S, NEW bytes \in Seq(S), NEW left \in Written(bytes)
  PROVE  /\ Len(left) \in 0 .. Len(bytes)
         /\ left = SubSeq(bytes, 1, Len(left))
         /\ Len(left) = Len(bytes) \/ disk = "full"
<1>1. CASE left = bytes
  BY <1>1, SubSeqFull
<1>2. CASE disk = "full" /\ left # bytes
  <2>1. PICK n \in 0 .. Len(bytes) - 1 : left = SubSeq(bytes, 1, n)
    BY <1>2 DEF Written
  <2> QED
    BY <1>2, <2>1, CutBegins
<1> QED
  BY <1>1, <1>2 DEF Written

\* parse_file leaves the beginning of a result in the temporary file.
LEMMA ParseDelivers ==
  ASSUME CostInv, DeliverInv, parse_file, UNCHANGED <<before, disk, given>>
  PROVE  DeliverInv'
<1> USE DEF At, Proceed, Copying, Running, processVars
<1>1. phase = "parse" /\ UNCHANGED <<files, output, pos>>
  BY DEF parse_file
<1>2. files[Input] = SourceText /\ SourceText \in DOMAIN Outcomes
  <2>1. /\ before \in FileSystems /\ Input \in DOMAIN before
        /\ files = Emptied(before, output)
    BY <1>1 DEF CostInv, OnlyEmptied, Assembling
  <2>2. /\ files[Input] = SourceText
    BY <2>1 DEF Emptied, SourceText
  <2>3. /\ \A name \in DOMAIN before : before[name] \in DOMAIN Outcomes
        /\ Stdout \in DOMAIN before /\ before[Stdout] = <<>>
    BY <2>1, DriverAssumption
  <2> QED
    BY <2>1, <2>2, <2>3 DEF SourceText
<1>3. SourceText' = SourceText /\ Results' = Results
  BY <1>1 DEF SourceText, Results, Input
<1>4. CASE phase' = "parse"
  BY <1>1, <1>4 DEF DeliverInv, parse_file, ObjectWritten, ReadingStopped,
     SourceRefused, ParserCrash
<1>5. CASE phase' # "parse"
  <2>1. PICK result \in Outcomes[SourceText] :
            ObjectWritten(result) \/ ReadingStopped(result)
    BY <1>1, <1>2, <1>5 DEF parse_file, SourceRefused, ParserCrash
  <2>2. result \in Results
    BY <2>1 DEF Results, ObjectWritten, ReadingStopped
  <2>3. /\ result.bytes \in Seq(ToSet(result.bytes))
        /\ tempfile' \in Written(result.bytes) \/ tempfile' = tempfile
        /\ phase' = "buffer"
    BY <1>2, <2>1, <2>2, ResultSeq DEF ObjectWritten, ReadingStopped
  <2>4. /\ Len(tempfile') \in 0 .. Len(result.bytes)
        /\ tempfile' = SubSeq(result.bytes, 1, Len(tempfile'))
        /\ Len(tempfile') = Len(result.bytes) \/ disk = "full"
    <3>1. CASE ObjectWritten(result)
      BY <2>3, <3>1, WrittenBegins DEF ObjectWritten
    <3>2. CASE ReadingStopped(result)
      <4>1. result = Stopped
        BY <1>2, <2>1, <3>2, DriverAssumption DEF ReadingStopped
      <4>2. result.bytes = <<>> /\ tempfile' = <<>>
        BY <1>1, <3>2, <4>1 DEF ReadingStopped, Stopped, DeliverInv
      <4>3. SubSeq(result.bytes, 1, 0) = <<>> /\ Len(<<>>) = 0
        BY <4>2, SubSeqEmpty
      <4> QED
        BY <4>2, <4>3
    <3> QED
      BY <2>1, <3>1, <3>2
  <2>5. Begins(tempfile', result.bytes)
    BY <2>4 DEF Begins
  <2>6. Holds(result.bytes)'
    BY <2>3, <2>4, <2>5 DEF Holds, Begins
  <2> QED
    BY <1>1, <1>2, <1>3, <2>2, <2>3, <2>6 DEF DeliverInv
<1> QED
  BY <1>4, <1>5

\* The block copied next, as a part of the object.
LEMMA BlockOfObject ==
  ASSUME NEW object, object \in Seq(ToSet(object)), Holds(object), phase = "copy"
  PROVE  \E end \in pos .. Len(tempfile) :
            /\ Block = SubSeq(object, pos + 1, end)
            /\ Len(Block) = end - pos
            /\ Block \in Seq(ToSet(object))
            /\ Len(Block) # BUFSIZ => end = Len(tempfile)
<1>1. /\ object \in Seq(ToSet(object)) /\ Len(object) \in Nat
      /\ Len(tempfile) \in 0 .. Len(object)
      /\ tempfile = SubSeq(object, 1, Len(tempfile))
      /\ pos \in 0 .. Len(tempfile)
  BY DEF Holds, Begins, Copying
<1> DEFINE end == IF pos + BUFSIZ < Len(tempfile) THEN pos + BUFSIZ ELSE Len(tempfile)
<1>2. BUFSIZ \in Nat \ {0} /\ end \in pos .. Len(tempfile)
  BY <1>1, DriverAssumption
<1>3. Block = SubSeq(object, pos + 1, end)
  <2>1. Block = SubSeq(SubSeq(object, 1, Len(tempfile)), pos + 1, end)
    BY <1>1 DEF Block
  <2>2. SubSeq(SubSeq(object, 1, Len(tempfile)), pos + 1, end)
          = SubSeq(object, 1 + (pos + 1) - 1, 1 + end - 1)
    BY <1>1, <1>2, PartOfPart
  <2> HIDE DEF end
  <2>3. 1 + (pos + 1) - 1 = pos + 1 /\ 1 + end - 1 = end
    BY <1>1, <1>2
  <2> QED
    BY <2>1, <2>2, <2>3
<1> HIDE DEF end
<1>4. /\ SubSeq(object, pos + 1, end) \in Seq(ToSet(object))
      /\ Len(SubSeq(object, pos + 1, end))
            = IF pos + 1 <= end THEN end - (pos + 1) + 1 ELSE 0
  <2>1. \A i \in pos + 1 .. end : object[i] \in ToSet(object)
    BY <1>1, <1>2
  <2> QED
    BY <1>1, <1>2, <2>1, SubSeqProperties
<1>5. Len(Block) = end - pos
  BY <1>1, <1>2, <1>3, <1>4
<1>6. Len(Block) # BUFSIZ => end = Len(tempfile)
  <2>1. pos \in Nat /\ Len(tempfile) \in Nat
    BY <1>1
  <2> QED
    BY <1>2, <1>5, <2>1 DEF end
<1> QED
  BY <1>2, <1>3, <1>4, <1>5, <1>6

\* What is appended to the beginning of a sequence makes a longer beginning, if
\* it comes next in the sequence.
LEMMA BeginningGrows ==
  ASSUME NEW S, NEW obj \in Seq(S), NEW at \in Nat, NEW end \in at .. Len(obj),
         NEW d \in 0 .. at, NEW n \in 0 .. end - at, d = at \/ n = 0
  PROVE  SubSeq(obj, 1, d) \o SubSeq(SubSeq(obj, at + 1, end), 1, n)
            = SubSeq(obj, 1, d + n)
<1>1. SubSeq(obj, 1, d) \in Seq(S) /\ d + n \in 0 .. Len(obj) /\ Len(obj) \in Nat
  BY CutBegins
<1>2. CASE n = 0
  <2>1. SubSeq(SubSeq(obj, at + 1, end), 1, 0) = <<>>
    BY SubSeqEmpty
  <2>2. SubSeq(obj, 1, d) \o <<>> = SubSeq(obj, 1, d)
    BY <1>1, ConcatEmptySeq
  <2>3. d + 0 = d
    OBVIOUS
  <2> QED
    BY <1>2, <2>1, <2>2, <2>3
<1>3. CASE d = at
  <2>1. SubSeq(SubSeq(obj, at + 1, end), 1, n) = SubSeq(obj, (at + 1) + 1 - 1, (at + 1) + n - 1)
    BY PartOfPart
  <2>2. (at + 1) + 1 - 1 = d + 1 /\ (at + 1) + n - 1 = d + n
    BY <1>3
  <2>3. 1 \in 1 .. Len(obj) + 1 /\ d \in 1 - 1 .. Len(obj) /\ d + n \in d .. Len(obj)
    BY <1>1
  <2>4. SubSeq(obj, 1, d) \o SubSeq(obj, d + 1, d + n) = SubSeq(obj, 1, d + n)
    BY <2>3, ConcatAdjacentSubSeq
  <2> QED
    BY <2>1, <2>2, <2>4
<1> QED
  BY <1>2, <1>3

\* What a step of the copy takes of the block: all of it unless the disk is
\* full, and nothing where an earlier block has been cut.
LEMMA BytesTaken ==
  ASSUME NEW S, Block \in Seq(S), pos \in Nat, NEW d \in Nat, d <= pos,
         d = pos \/ (disk = "full" /\ output # Stdout),
         NEW bytes \in IF output = Stdout THEN {Block}
                       ELSE IF d < pos THEN {<<>>}
                       ELSE Written(Block)
  PROVE  /\ Len(bytes) \in 0 .. Len(Block)
         /\ bytes = SubSeq(Block, 1, Len(bytes))
         /\ Len(bytes) = Len(Block) \/ (disk = "full" /\ output # Stdout)
         /\ d = pos \/ Len(bytes) = 0
<1>1. Len(Block) \in Nat
  OBVIOUS
<1>2. CASE output = Stdout
  BY <1>1, <1>2, SubSeqFull
<1>3. CASE output # Stdout /\ d < pos
  <2>1. bytes = <<>> /\ disk = "full"
    BY <1>3
  <2>2. SubSeq(Block, 1, 0) = <<>>
    BY SubSeqEmpty
  <2> QED
    BY <1>1, <1>3, <2>1, <2>2
<1>4. CASE output # Stdout /\ ~(d < pos)
  <2>1. bytes \in Written(Block)
    BY <1>4
  <2>2. Len(bytes) \in 0 .. Len(Block) /\ bytes = SubSeq(Block, 1, Len(bytes))
        /\ (Len(bytes) = Len(Block) \/ disk = "full")
    BY <2>1, WrittenBegins
  <2> QED
    BY <1>4, <2>2
<1> QED
  BY <1>2, <1>3, <1>4

\* A step of the copy appends what comes next of the object.
LEMMA CopyDelivers ==
  ASSUME CostInv, DeliverInv, copy_files, UNCHANGED <<before, disk, given>>
  PROVE  DeliverInv'
<1>1. phase = "copy" /\ UNCHANGED <<output, tempfile>>
  BY DEF copy_files, At
<1> DEFINE d == Len(files[output])
<1>0. SourceText \in DOMAIN Outcomes /\ \E result \in Results : Holds(result.bytes)
  BY <1>1 DEF DeliverInv, Copying
<1> PICK result \in Results : Holds(result.bytes)
  BY <1>0
<1> DEFINE object == result.bytes
<1>3. object \in Seq(ToSet(object)) /\ Len(object) \in Nat
  BY <1>0, ResultSeq
<1> HIDE DEF object
<1>2. /\ Begins(tempfile, object)
      /\ Len(tempfile) = Len(object) \/ disk = "full"
      /\ pos \in 0 .. Len(tempfile)
      /\ Begins(files[output], object)
      /\ d <= pos
      /\ d = pos \/ (disk = "full" /\ output # Stdout)
      /\ DOMAIN files = DOMAIN before \cup {output}
      /\ \A name \in DOMAIN before \ {output} : files[name] = before[name]
  BY <1>1 DEF object, Holds, Copying
<1>4. /\ Len(tempfile) \in 0 .. Len(object) /\ pos \in Nat
      /\ d \in 0 .. pos
      /\ files[output] = SubSeq(object, 1, d)
  <2>1. /\ Len(tempfile) \in 0 .. Len(object) /\ d \in 0 .. Len(object)
        /\ files[output] = SubSeq(object, 1, d)
    BY <1>2 DEF Begins
  <2> HIDE DEF d
  <2> QED
    BY <1>2, <1>3, <2>1
<1>5. PICK end \in pos .. Len(tempfile) :
            /\ Block = SubSeq(object, pos + 1, end)
            /\ Len(Block) = end - pos
            /\ Block \in Seq(ToSet(object))
            /\ Len(Block) # BUFSIZ => end = Len(tempfile)
  BY <1>1, <1>3, BlockOfObject DEF object
<1>6. PICK bytes \in IF output = Stdout THEN {Block}
                     ELSE IF d < pos THEN {<<>>}
                     ELSE Written(Block) :
                files' = [files EXCEPT ![output] = @ \o bytes]
  BY DEF copy_files
<1> HIDE DEF d
<1>7. /\ Len(bytes) \in 0 .. Len(Block)
      /\ bytes = SubSeq(Block, 1, Len(bytes))
      /\ Len(bytes) = Len(Block) \/ (disk = "full" /\ output # Stdout)
      /\ d = pos \/ Len(bytes) = 0
  <2>1. d \in Nat
    BY <1>4
  <2> QED
    BY <1>2, <1>4, <1>5, <1>6, <2>1, BytesTaken
<1> DEFINE n == Len(bytes)
<1>8. end \in pos .. Len(object) /\ n \in 0 .. end - pos
  BY <1>4, <1>5, <1>7
<1>9. files'[output] = files[output] \o bytes
  BY <1>2, <1>6
<1>10. files'[output] = SubSeq(object, 1, d + n)
  <2>1. bytes = SubSeq(SubSeq(object, pos + 1, end), 1, n)
    BY <1>5, <1>7
  <2> HIDE DEF n
  <2>2. SubSeq(object, 1, d) \o SubSeq(SubSeq(object, pos + 1, end), 1, n)
            = SubSeq(object, 1, d + n)
    <3>1. d = pos \/ n = 0
      BY <1>7 DEF n
    <3> QED
      BY <1>3, <1>4, <1>8, <3>1, BeginningGrows
  <2> QED
    BY <1>4, <1>9, <2>1, <2>2
<1>11. d + n \in 0 .. end /\ d + n \in 0 .. Len(object)
  BY <1>4, <1>8
<1>12. d + n = end \/ (disk = "full" /\ output # Stdout)
  BY <1>2, <1>4, <1>5, <1>7
<1> HIDE DEF n
<1>13. Len(files'[output]) = d + n /\ Begins(files'[output], object)
  <2>1. /\ Len(SubSeq(object, 1, d + n)) = d + n
        /\ Begins(SubSeq(object, 1, d + n), object)
    BY <1>3, <1>11, CutBegins
  <2> QED
    BY <1>10, <2>1
<1>14. pos' = end
  BY <1>4, <1>5 DEF copy_files
<1>15. /\ phase' \in {"copy", "close"}
       /\ phase' = "close" => end = Len(tempfile)
  BY <1>1, <1>5 DEF copy_files, Proceed
<1>16. /\ DOMAIN files' = DOMAIN before \cup {output}
       /\ \A name \in DOMAIN before \ {output} : files'[name] = before[name]
  BY <1>2, <1>6
<1>17. SourceText' = SourceText /\ Results' = Results
  BY <1>1 DEF SourceText, Results, Input
<1>18. /\ Begins(tempfile', object)
       /\ Begins((files[output])', object)
       /\ Len((files[output])') = d + n
       /\ Len(tempfile') = Len(object)
          \/ disk' = "full"
  BY <1>1, <1>2, <1>13 DEF Begins
<1>19. Holds(object)'
  BY <1>1, <1>2, <1>4, <1>5, <1>11, <1>12, <1>14, <1>15, <1>16, <1>18
     DEF Holds, Copying
<1> QED
  BY <1>0, <1>1, <1>2, <1>14, <1>15, <1>17, <1>19 DEF object, DeliverInv, Copying

\* Every step keeps what has been written so far a beginning of the object.
LEMMA DeliverNext == CostInv /\ DeliverInv /\ [Next]_vars => DeliverInv'
<1> SUFFICES ASSUME CostInv, DeliverInv, [Next]_vars PROVE DeliverInv'
  OBVIOUS
<1> USE DEF Copying
<1>1. CASE CommandNext /\ UNCHANGED fileVars
  BY <1>1, CommandStep DEF fileVars, DeliverInv, CommandPhases
<1>2. CASE main
  <2>1. UNCHANGED <<before, disk, given>>
    BY <1>2 DEF main
  <2>2. CASE open_files
    BY <2>2 DEF open_files, OpenTempfile, OpenInput, OpenStdout, OpenOutput, At,
       Proceed, processVars, Fail, DeliverInv
  <2>3. CASE parse_file
    BY <2>1, <2>3, ParseDelivers
  <2>4. CASE AllocateBuffer
    <3>1. /\ phase = "buffer" /\ phase' \in {"buffer", "copy"}
          /\ UNCHANGED <<files, output, tempfile, pos>>
      BY <2>4 DEF AllocateBuffer, At, Proceed
    <3>2. SourceText' = SourceText /\ Results' = Results
      BY <2>1, <3>1 DEF SourceText, Results, Input
    <3>3. files[output] = <<>>
          /\ DOMAIN files = DOMAIN before \cup {output}
          /\ \A name \in DOMAIN before \ {output} : files[name] = before[name]
      BY <3>1 DEF CostInv, OnlyEmptied, Emptied, Assembling
    <3>4. SourceText \in DOMAIN Outcomes /\ pos = 0
          /\ \E result \in Results : Holds(result.bytes)
      BY <3>1 DEF DeliverInv
    <3> PICK result \in Results : Holds(result.bytes)
      BY <3>4
    <3>5. result.bytes \in Seq(ToSet(result.bytes)) /\ Len(result.bytes) \in Nat
      BY <3>4, ResultSeq
    <3>6. SubSeq(result.bytes, 1, 0) = <<>> /\ Len(<<>>) = 0
      BY SubSeqEmpty
    <3>7. Begins(<<>>, result.bytes) /\ pos \in 0 .. Len(tempfile)
      BY <3>4, <3>5, <3>6 DEF Begins, Holds
    <3>8. Begins(files'[output'], result.bytes) /\ Len(files'[output']) = pos'
      BY <3>1, <3>3, <3>4, <3>6, <3>7
    <3>9. Holds(result.bytes)'
      BY <2>1, <3>1, <3>3, <3>4, <3>7, <3>8 DEF Holds, Begins
    <3> QED
      BY <3>1, <3>2, <3>4, <3>9 DEF DeliverInv
  <2>5. CASE copy_files
    BY <2>1, <2>5, CopyDelivers
  <2>6. CASE closefiles
    BY <2>1, <2>6 DEF closefiles, DeliverInv, SourceText, Results, Holds, Input, Begins
  <2> QED
    BY <1>2, <2>2, <2>3, <2>4, <2>5, <2>6 DEF main
<1>3. CASE FillDisk
  BY <1>3 DEF FillDisk, processVars, commandVars, DeliverInv, SourceText, Results,
     Holds, Input, Begins
<1>4. CASE UNCHANGED vars
  BY <1>4 DEF vars, fileVars, commandVars, processVars, DeliverInv, SourceText,
     Results, Holds, Input, Begins
<1> QED
  BY <1>1, <1>2, <1>3, <1>4 DEF Next

\* The beginning of a sequence is a prefix of it, and the sequence itself if it
\* is as long.
LEMMA BeginsIsPrefix ==
  ASSUME NEW S, NEW t \in Seq(S), NEW s, Begins(s, t)
  PROVE  /\ IsPrefix(s, t)
         /\ Len(s) = Len(t) => s = t
<1>1. /\ Len(s) \in 0 .. Len(t) /\ s = SubSeq(t, 1, Len(s))
  BY DEF Begins
<1>2. s \in Seq(S)
  BY <1>1, CutBegins
<1>3. SubSeq(s, 1, Len(s)) = s /\ SubSeq(t, 1, Len(t)) = t
  BY <1>2, SubSeqFull
<1>4. Len(s) <= Len(t)
  <2>1. Len(t) \in Nat
    OBVIOUS
  <2> QED
    BY <1>1, <2>1
<1>5. SubSeq(s, 1, Len(s)) = SubSeq(t, 1, Len(s))
  BY <1>1, <1>3, Zenon
<1>6. Len(s) = Len(t) => s = t
  BY <1>1, <1>3, Zenon
<1> QED
  BY <1>4, <1>5, <1>6 DEF IsPrefix

\* A success has delivered an object of the source, or as much of it as a full
\* disk had room for, or nothing where the source stops the parser: whatever the
\* files, the blocks, the source and its outcomes.
THEOREM SuccessDelivers == Spec => []Delivered
<1>1. Init => DeliverInv
  BY DEF Init, CommandInit, DeliverInv, Copying
<1>2. CostInv /\ DeliverInv => Delivered
  <2> SUFFICES ASSUME DeliverInv, phase = "close" PROVE Delivered
    BY DEF Delivered
  <2>1. SourceText \in DOMAIN Outcomes /\ \E result \in Results : Holds(result.bytes)
    BY DEF DeliverInv, Copying
  <2> PICK result \in Results : Holds(result.bytes)
    BY <2>1
  <2>2. result.bytes \in Seq(ToSet(result.bytes)) /\ Len(result.bytes) \in Nat
    BY <2>1, ResultSeq
  <2>3. /\ Begins(files[output], result.bytes)
        /\ Len(files[output]) = Len(result.bytes) \/ disk = "full"
        /\ \A name \in DOMAIN before \ {output} : files[name] = before[name]
    BY DEF DeliverInv, Holds, Copying
  <2>4. /\ IsPrefix(files[output], result.bytes)
        /\ Len(files[output]) = Len(result.bytes) => files[output] = result.bytes
    BY <2>2, <2>3, BeginsIsPrefix
  <2>5. /\ result \in Outcomes[SourceText]
        /\ result.kind \in {"object", "stopped"}
        /\ result.kind = "stopped" => result = Stopped
    BY <2>1, DriverAssumption DEF Results
  <2>6. result = Stopped => files[output] = <<>>
    <3> SUFFICES ASSUME result = Stopped PROVE files[output] = <<>>
      OBVIOUS
    <3>1. result.bytes = <<>>
      BY DEF Stopped
    <3>2. Len(files[output]) \in 0 .. 0 /\ files[output] = SubSeq(<<>>, 1, Len(files[output]))
      BY <2>3, <3>1 DEF Begins
    <3>3. Len(files[output]) = 0
      BY <3>2
    <3>4. files[output] = SubSeq(<<>>, 1, 0)
      BY <3>2, <3>3, Zenon
    <3> QED
      BY <3>4, SubSeqEmpty
  <2> QED
    BY <2>3, <2>4, <2>5, <2>6 DEF Delivered, SourceText
<1> QED
  BY <1>1, <1>2, CostAlways, DeliverNext, PTL DEF Spec
-----------------------------------------------------------------------------
(* Induction.  Over a predicate it would need an operator as a parameter,  *)
(* so it is stated for sets of numbers.                                    *)

\* A set of natural numbers that is not empty has a least element.
LEMMA HasLeast ==
    ASSUME NEW S \in SUBSET Nat, S # {}
    PROVE  \E x \in S : \A y \in S : x <= y
<1>1. PICK x \in S : \A y \in S : ~(<<y, x>> \in OpToRel(<, Nat))
  BY NatLessThanWellFounded, WFMin
<1>2. \A y \in S : ~(y < x)
  BY <1>1 DEF OpToRel
<1> QED
  BY <1>2

\* Induction, over a set instead of a predicate.
LEMMA Inductive ==
    ASSUME NEW S \in SUBSET Nat, 0 \in S, \A n \in S : n + 1 \in S
    PROVE  S = Nat
<1>1. ASSUME Nat \ S # {} PROVE FALSE
  <2>1. PICK n \in Nat \ S : \A m \in Nat \ S : n <= m
    BY <1>1, HasLeast
  <2>2. n - 1 \in Nat
    BY <2>1
  <2>3. n - 1 \in S
    BY <2>1, <2>2
  <2>4. (n - 1) + 1 \in S
    BY <2>3
  <2> QED
    BY <2>1, <2>4
<1> QED
  BY <1>1

\* A loop of N rounds, the round j taking s to F[j][s], has a run.
IsRun(f, N, S, first, F) ==
    /\ f \in [0 .. N -> S]
    /\ f[0] = first
    /\ \A j \in 1 .. N : f[j] = F[j][f[j - 1]]

\* A loop always has a run.
LEMMA LoopRuns ==
    ASSUME NEW N \in Nat, NEW S, NEW first \in S, NEW F \in [1 .. N -> [S -> S]]
    PROVE  \E f : IsRun(f, N, S, first, F)
<1> DEFINE Runs(n) == \E f \in [0 .. n -> S] :
                            /\ f[0] = first
                            /\ \A j \in 1 .. n : f[j] = F[j][f[j - 1]]
<1>1. Runs(0)
  <2> DEFINE g == [j \in 0 .. 0 |-> first]
  <2>1. g \in [0 .. 0 -> S] /\ g[0] = first
    OBVIOUS
  <2> HIDE DEF g
  <2> QED
    BY <2>1
<1>2. ASSUME NEW n \in Nat, n < N, Runs(n) PROVE Runs(n + 1)
  <2>1. PICK f \in [0 .. n -> S] : /\ f[0] = first
                                   /\ \A j \in 1 .. n : f[j] = F[j][f[j - 1]]
    BY <1>2
  <2> DEFINE g == [j \in 0 .. n + 1 |-> IF j <= n THEN f[j] ELSE F[n + 1][f[n]]]
  <2>2. f[n] \in S /\ n + 1 \in 1 .. N
    BY <1>2, <2>1
  <2>3. F[n + 1][f[n]] \in S
    BY <2>2
  <2>4. g \in [0 .. n + 1 -> S]
    BY <2>1, <2>3
  <2>5. g[0] = first
    BY <2>1
  <2>6. \A j \in 1 .. n : g[j] = F[j][g[j - 1]]
    BY <2>1
  <2>7. g[n + 1] = F[n + 1][g[(n + 1) - 1]]
    OBVIOUS
  <2> HIDE DEF g
  <2>8. \A j \in 1 .. n + 1 : g[j] = F[j][g[j - 1]]
    BY <2>6, <2>7
  <2> QED
    BY <2>4, <2>5, <2>8
<1>3. Runs(N)
  <2> HIDE DEF Runs
  <2> DEFINE with == {n \in Nat : n <= N => Runs(n)}
  <2>1. 0 \in with
    BY <1>1
  <2>2. \A n \in with : n + 1 \in with
    BY <1>2
  <2>3. with \in SUBSET Nat
    OBVIOUS
  <2> HIDE DEF with
  <2>4. with = Nat
    BY <2>1, <2>2, <2>3, Inductive
  <2> QED
    BY <2>4 DEF with
<1> QED
  BY <1>3 DEF IsRun

-----------------------------------------------------------------------------
(* The greatest common divisor.                                            *)

\* What Euclid's algorithm computes satisfies its equation.
GcdEquation(g, n) ==
    \A y \in 1 .. n, x \in Nat : g[y][x] = IF x % y = 0 THEN y ELSE g[x % y][y]

\* Division with a remainder.
LEMMA Division ==
    ASSUME NEW x \in Int, NEW y \in Nat \ {0}
    PROVE  \E q, r \in Int : /\ x = y * q + r /\ r \in 0 .. y - 1
                            /\ q = x \div y /\ r = x % y
  BY Z3

\* A remainder is smaller than what is divided by.
LEMMA Remainder ==
    ASSUME NEW x \in Nat, NEW y \in Nat \ {0}
    PROVE  /\ x % y \in 0 .. y - 1
           /\ \E q \in Int, r \in 0 .. y - 1 : x = y * q + r /\ r = x % y
<1>1. x % y \in 0 .. y - 1
  OBVIOUS
<1>2. \E q, r \in Int : x = y * q + r /\ r \in 0 .. y - 1 /\ r = x % y
  BY Z3
<1> QED
  BY <1>1, <1>2, Zenon

\* Euclid's equation has a solution.
LEMMA GcdExists ==
    ASSUME NEW N \in Nat
    PROVE  \E g \in [1 .. N -> [Nat -> Nat]] : GcdEquation(g, N)
<1> DEFINE Has(n) == \E g \in [1 .. n -> [Nat -> Nat]] : GcdEquation(g, n)
<1>1. Has(0)
  <2>1. [y \in 1 .. 0 |-> [x \in Nat |-> 0]] \in [1 .. 0 -> [Nat -> Nat]]
    OBVIOUS
  <2>2. \A g \in [1 .. 0 -> [Nat -> Nat]] : GcdEquation(g, 0)
    BY DEF GcdEquation
  <2> QED
    BY <2>1, <2>2
<1>2. ASSUME NEW m \in Nat, Has(m) PROVE Has(m + 1)
  <2>1. PICK f \in [1 .. m -> [Nat -> Nat]] : GcdEquation(f, m)
    BY <1>2
  <2> DEFINE n == m + 1
             last == [x \in Nat |-> IF x % n = 0 THEN n ELSE f[x % n][n]]
             g == [y \in 1 .. n |-> IF y <= m THEN f[y] ELSE last]
  <2>2. n \in Nat \ {0} /\ n - 1 = m
    OBVIOUS
  <2> HIDE DEF n
  <2>3. \A x \in Nat : x % n = 0 \/ x % n \in 1 .. m
    BY <2>2, Remainder
  <2>4. last \in [Nat -> Nat]
    <3>1. ASSUME NEW x \in Nat, x % n # 0 PROVE f[x % n][n] \in Nat
      <4>1. f[x % n] \in [Nat -> Nat]
        BY <2>1, <2>3, <3>1
      <4> QED
        BY <2>2, <4>1
    <3> QED
      BY <2>2, <3>1
  <2>5. g \in [1 .. n -> [Nat -> Nat]]
    <3>1. \A y \in 1 .. n : y <= m => f[y] \in [Nat -> Nat]
      BY <2>1
    <3> HIDE DEF last
    <3> QED
      BY <2>4, <3>1
  <2>6. ASSUME NEW y \in 1 .. n, NEW x \in Nat
        PROVE  g[y][x] = IF x % y = 0 THEN y ELSE g[x % y][y]
    <3>1. CASE y <= m
      <4>1. y \in 1 .. m /\ g[y] = f[y]
        BY <2>2, <3>1
      <4>0. y \in Nat \ {0}
        BY <4>1
      <4>2. x % y \in 0 .. y - 1
        BY <4>0, Remainder
      <4>3. x % y # 0 => x % y \in 1 .. n /\ x % y <= m
        BY <2>2, <4>1, <4>2
      <4>4. x % y # 0 => g[x % y] = f[x % y]
        BY <4>3
      <4>5. f[y][x] = IF x % y = 0 THEN y ELSE f[x % y][y]
        BY <2>1, <4>1 DEF GcdEquation
      <4> QED
        BY <4>1, <4>4, <4>5
    <3>2. CASE ~(y <= m)
      <4>1. y = n /\ g[y] = last
        BY <2>2, <3>2
      <4>2. x % n # 0 => x % n \in 1 .. n /\ x % n <= m
        BY <2>2, <2>3
      <4>3. x % n # 0 => g[x % n] = f[x % n]
        BY <4>2
      <4>4. last[x] = IF x % n = 0 THEN n ELSE f[x % n][n]
        OBVIOUS
      <4> HIDE DEF last, g
      <4> QED
        BY <4>1, <4>3, <4>4
    <3> QED
      BY <3>1, <3>2
  <2> HIDE DEF g
  <2>7. GcdEquation(g, n)
    BY <2>6 DEF GcdEquation
  <2>8. Has(n)
    BY <2>5, <2>7
  <2> QED
    BY <2>8 DEF n
<1> HIDE DEF Has
<1> DEFINE with == {n \in Nat : Has(n)}
<1>3. with \in SUBSET Nat /\ 0 \in with /\ \A n \in with : n + 1 \in with
  BY <1>1, <1>2
<1> HIDE DEF with
<1>4. with = Nat
  BY <1>3, Inductive
<1>5. Has(N)
  BY <1>4 DEF with
<1> QED
  BY <1>5 DEF Has

\* The code of gcd satisfies the equation.
LEMMA GcdRuns ==
    ASSUME NEW a \in Nat, NEW b \in Nat \ {0}
    PROVE  \E g : GcdEquation(g, b) /\ gcd(a, b) = g[b][a]
<1> DEFINE Body(g) == [y \in 1 .. b |->
                        [x \in Nat |-> IF x % y = 0 THEN y ELSE g[x % y][y]]]
           G == CHOOSE g : g = Body(g)
<1>1. PICK h \in [1 .. b -> [Nat -> Nat]] : GcdEquation(h, b)
  BY GcdExists
<1>2. h = Body(h)
  <2>1. \A y \in 1 .. b : h[y] = [x \in Nat |-> h[y][x]]
    BY <1>1
  <2>2. \A y \in 1 .. b : h[y] = Body(h)[y]
    BY <1>1, <2>1 DEF GcdEquation
  <2> QED
    BY <1>1, <2>2
<1>3. G = Body(G)
  <2> HIDE DEF Body
  <2> QED
    BY <1>2
<1>4. gcd(a, b) = G[b][a]
  BY DEF gcd
<1> HIDE DEF G
<1>5. GcdEquation(G, b)
  <2> SUFFICES ASSUME NEW y \in 1 .. b, NEW x \in Nat
               PROVE  G[y][x] = IF x % y = 0 THEN y ELSE G[x % y][y]
    BY DEF GcdEquation
  <2>1. G[y] = Body(G)[y]
    BY <1>3
  <2>2. Body(G)[y][x] = IF x % y = 0 THEN y ELSE G[x % y][y]
    OBVIOUS
  <2> QED
    BY <2>1, <2>2
<1> QED
  BY <1>4, <1>5

\* d divides both, and is what a combination of them gives.
IsGcd(x, y, d) ==
    /\ d \in 1 .. y
    /\ \E c, e, u, v \in Int : x = d * c /\ y = d * e /\ d = u * x + v * y

\* A common divisor of y and the remainder divides x.
LEMMA EuclidAlgebra ==
    ASSUME NEW x \in Int, NEW y \in Int, NEW q \in Int, NEW r \in Int, NEW d \in Int,
           NEW c \in Int, NEW e \in Int, NEW u \in Int, NEW v \in Int,
           x = y * q + r, y = d * c, r = d * e, d = u * y + v * r
    PROVE  /\ c * q + e \in Int /\ x = d * (c * q + e)
           /\ u - v * q \in Int /\ d = v * x + (u - v * q) * y
<1>1. c * q + e \in Int /\ u - v * q \in Int
  OBVIOUS
<1>2. x = d * (c * q + e)
  OBVIOUS
<1>3. d = v * x + (u - v * q) * y
  OBVIOUS
<1> QED
  BY <1>1, <1>2, <1>3

\* One round of the algorithm.
LEMMA EuclidStep ==
    ASSUME NEW x \in Nat, NEW y \in Nat \ {0}, NEW d,
           x % y # 0, IsGcd(y, x % y, d)
    PROVE  IsGcd(x, y, d)
<1>1. PICK q \in Int, r \in 0 .. y - 1 : x = y * q + r /\ r = x % y
  BY Remainder
<1>2. x = y * q + r
  BY <1>1
<1>3. r \in 1 .. y - 1
  BY <1>1
<1>4. IsGcd(y, r, d)
  BY <1>1
<1>5. PICK c, e, u, v \in Int : y = d * c /\ r = d * e /\ d = u * y + v * r
  BY <1>4 DEF IsGcd
<1>6. d \in 1 .. r
  BY <1>4 DEF IsGcd
<1>7. d \in 1 .. y /\ d \in Int /\ r \in Int /\ x \in Int /\ y \in Int
  BY <1>3, <1>6
<1>8. /\ c * q + e \in Int /\ x = d * (c * q + e)
      /\ u - v * q \in Int /\ d = v * x + (u - v * q) * y
  BY <1>2, <1>5, <1>7, EuclidAlgebra
<1>9. \E i, j, k, l \in Int : x = d * i /\ y = d * j /\ d = k * x + l * y
  BY <1>5, <1>8, Zenon
<1> QED
  BY <1>7, <1>9, Zenon DEF IsGcd

\* Its last round.
LEMMA EuclidEnd ==
    ASSUME NEW x \in Nat, NEW y \in Nat \ {0}, x % y = 0
    PROVE  IsGcd(x, y, y)
<1>1. PICK q \in Int : x = y * q + 0
  BY Remainder
<1>2. \E c, e, u, v \in Int : x = y * c /\ y = y * e /\ y = u * x + v * y
  <2>1. x = y * q /\ y = y * 1 /\ y = 0 * x + 1 * y
    BY <1>1
  <2> WITNESS q \in Int, 1 \in Int, 0 \in Int, 1 \in Int
  <2> QED
    BY <2>1
<1>3. y \in 1 .. y
  OBVIOUS
<1> QED
  BY <1>2, <1>3, Zenon DEF IsGcd

\* gcd gives the greatest common divisor (argtable3.c:1474).
LEMMA GcdGives ==
    ASSUME NEW a \in Nat, NEW b \in Nat \ {0}
    PROVE  IsGcd(a, b, gcd(a, b))
<1>1. PICK g : GcdEquation(g, b) /\ gcd(a, b) = g[b][a]
  BY GcdRuns
<1> DEFINE wrong == {y \in 1 .. b : \E x \in Nat : ~IsGcd(x, y, g[y][x])}
<1>2. ASSUME NEW y \in wrong, \A z \in wrong : y <= z PROVE FALSE
  <2>1. PICK x \in Nat : ~IsGcd(x, y, g[y][x])
    OBVIOUS
  <2>2. y \in Nat \ {0} /\ g[y][x] = IF x % y = 0 THEN y ELSE g[x % y][y]
    BY <1>1 DEF GcdEquation
  <2>3. CASE x % y = 0
    BY <2>1, <2>2, <2>3, EuclidEnd
  <2>4. CASE x % y # 0
    <3>1. x % y \in 1 .. y - 1
      BY <2>2, <2>4, Remainder
    <3>2. x % y \in 1 .. b /\ x % y \notin wrong
      BY <1>2, <3>1
    <3>3. IsGcd(y, x % y, g[x % y][y])
      BY <2>2, <3>2
    <3> QED
      BY <2>1, <2>2, <2>4, <3>3, EuclidStep
  <2> QED
    BY <2>3, <2>4
<1>3. wrong = {}
  <2>1. wrong \in SUBSET Nat
    OBVIOUS
  <2> HIDE DEF wrong
  <2> QED
    BY <1>2, <2>1, HasLeast
<1> QED
  BY <1>1, <1>3

-----------------------------------------------------------------------------
(* The cycles of a rotation by p places of n = m + p places: there are g   *)
(* of them, of length L each.                                              *)

Shape(m, p, g, L) ==
    /\ m \in Nat \ {0} /\ p \in Nat \ {0} /\ g \in 1 .. p /\ L \in Nat \ {0}
    /\ m + p = g * L
    /\ \E b \in Int : p = g * b
    /\ \E u, v \in Int : g = u * (m + p) + v * p

\* A product that is less than one of its factors is nothing.
LEMMA SmallMultiple ==
    ASSUME NEW n \in Nat \ {0}, NEW z \in Int, -n < n * z, n * z < n
    PROVE  z = 0
<1>1. CASE z >= 1
  <2>1. n * z = n + n * (z - 1)
    OBVIOUS
  <2>2. z - 1 \in Nat
    BY <1>1
  <2>3. n * (z - 1) \in Nat
    BY <2>2
  <2> QED
    BY <2>1, <2>3
<1>2. CASE z <= -1
  <2>1. n * z = n * (z + 1) - n
    OBVIOUS
  <2>2. -(z + 1) \in Nat /\ n * (z + 1) = -(n * (-(z + 1)))
    BY <1>2
  <2>3. n * (-(z + 1)) \in Nat
    BY <2>2
  <2> QED
    BY <2>1, <2>2, <2>3
<1> QED
  BY <1>1, <1>2

\* A factor cancels.
LEMMA Cancel ==
    ASSUME NEW g \in Nat \ {0}, NEW x \in Int, NEW y \in Int, g * x = g * y
    PROVE  x = y
  OBVIOUS

\* What gcd gives has the shape.
LEMMA ShapeOfGcd ==
    ASSUME NEW m \in Nat \ {0}, NEW p \in Nat \ {0}
    PROVE  Shape(m, p, gcd(m, p), (m + p) \div gcd(m, p))
<1> DEFINE g == gcd(m, p)
           L == (m + p) \div g
<1>1. IsGcd(m, p, g)
  BY GcdGives
<1> HIDE DEF g
<1>2. g \in 1 .. p
  BY <1>1 DEF IsGcd
<1>3. PICK c, e, u, v \in Int : m = g * c /\ p = g * e /\ g = u * m + v * p
  BY <1>1 DEF IsGcd
<1>4. m + p = g * (c + e) /\ c + e \in Int
  BY <1>2, <1>3
<1>5. PICK q \in Int, r \in Int : m + p = g * q + r /\ r \in 0 .. g - 1 /\ q = L
  <2>1. m + p \in Int /\ g \in Nat \ {0}
    BY <1>2
  <2> QED
    BY <2>1, Division
<1> HIDE DEF L
<1>6. q = c + e
  <2>1. g * (c + e - q) = r
    BY <1>2, <1>4, <1>5
  <2>2. g \in Nat \ {0} /\ c + e - q \in Int
    BY <1>2, <1>4
  <2>3. c + e - q = 0
    BY <1>5, <2>1, <2>2, SmallMultiple
  <2> QED
    BY <2>3
<1>7. m + p = g * L /\ L \in Int
  BY <1>4, <1>5, <1>6
<1>8. L \in Nat \ {0}
  <2>1. CASE L <= 0
    <3>1. -L \in Nat /\ g \in Nat
      BY <1>2, <1>7, <2>1
    <3>2. g * (-L) \in Nat
      BY <3>1
    <3>3. g * L = -(g * (-L))
      BY <1>2, <1>7
    <3> QED
      BY <1>7, <3>2, <3>3
  <2> QED
    BY <1>7, <2>1
<1>9. g = u * (m + p) + (v - u) * p /\ v - u \in Int
  <2>1. g \in Int
    BY <1>2
  <2> QED
    BY <1>3, <2>1
<1>10. \E i, j \in Int : g = i * (m + p) + j * p
  BY <1>9, Zenon
<1>11. \E b \in Int : p = g * b
  BY <1>3, Zenon
<1>12. Shape(m, p, g, L)
  BY <1>2, <1>7, <1>8, <1>10, <1>11, Zenon DEF Shape
<1> QED
  BY <1>12 DEF g, L

\* Where t rotations take every place back, t is a multiple of L.
LEMMA ReturnTime ==
    ASSUME NEW m, NEW p, NEW g, NEW L, Shape(m, p, g, L),
           NEW t \in Int, NEW q \in Int, t * p = (m + p) * q
    PROVE  \E z \in Int : t = L * z
<1>1. /\ m \in Int /\ p \in Int /\ g \in Nat \ {0} /\ L \in Int
      /\ m + p = g * L
  BY DEF Shape
<1>2. PICK u, v \in Int : g = u * (m + p) + v * p
  BY DEF Shape
<1> DEFINE n == m + p
<1>3. n \in Int /\ n = g * L /\ g = u * n + v * p /\ t * p = n * q
  BY <1>1, <1>2
<1> HIDE DEF n
<1>4. t * g = t * (u * n) + v * (t * p)
  BY <1>1, <1>3
<1>5. t * g = n * (t * u + v * q)
  BY <1>1, <1>3, <1>4
<1>6. g * t = g * (L * (t * u + v * q))
  BY <1>1, <1>3, <1>5
<1>7. t * u + v * q \in Int /\ L * (t * u + v * q) \in Int
  BY <1>1
<1>8. t = L * (t * u + v * q)
  BY <1>1, <1>6, <1>7, Cancel
<1> QED
  BY <1>7, <1>8

\* L rotations do.
LEMMA ReturnsAtL ==
    ASSUME NEW m, NEW p, NEW g, NEW L, Shape(m, p, g, L)
    PROVE  \E q \in Int : L * p = (m + p) * q
<1>1. m \in Int /\ p \in Int /\ g \in Int /\ L \in Int /\ m + p = g * L
  BY DEF Shape
<1>2. PICK b \in Int : p = g * b
  BY DEF Shape
<1>3. L * p = (g * L) * b
  BY <1>1, <1>2
<1>4. L * p = (m + p) * b
  BY <1>1, <1>3
<1> QED
  BY <1>4

\* Places that are a multiple of g apart are a number of rotations apart, and
\* the other way round.
LEMMA Reached ==
    ASSUME NEW m, NEW p, NEW g, NEW L, Shape(m, p, g, L), NEW k \in Int
    PROVE  \E j \in 0 .. L - 1, z \in Int : g * k = j * p + (m + p) * z
<1>1. m \in Int /\ p \in Int /\ g \in Int /\ L \in Nat \ {0} /\ m + p = g * L
  BY DEF Shape
<1>2. PICK u, v \in Int : g = u * (m + p) + v * p
  BY DEF Shape
<1>3. PICK e \in Int : L * p = (m + p) * e
  BY ReturnsAtL
<1> DEFINE n == m + p
           w == k * v
<1>4. n \in Int /\ w \in Int /\ g = u * n + v * p /\ L * p = n * e
  BY <1>1, <1>2, <1>3
<1>5. PICK a, j \in Int : w = L * a + j /\ j \in 0 .. L - 1
  <2> HIDE DEF w
  <2>1. \E q, r \in Int : /\ w = L * q + r /\ r \in 0 .. L - 1
                          /\ q = w \div L /\ r = w % L
    BY <1>1, <1>4, Division, Zenon
  <2> QED
    BY <2>1, Zenon
<1> HIDE DEF n
<1>6. g * k = n * (k * u) + w * p
  BY <1>1, <1>4
<1> HIDE DEF w
<1>7. w * p = (L * p) * a + j * p
  BY <1>1, <1>5
<1>8. w * p = n * (e * a) + j * p
  BY <1>1, <1>4, <1>5, <1>7
<1>9. e * a \in Int /\ k * u \in Int /\ e * a + k * u \in Int
  OBVIOUS
<1>10. g * k = j * p + n * (e * a + k * u)
  BY <1>1, <1>4, <1>6, <1>8, <1>9
<1> QED
  BY <1>5, <1>9, <1>10 DEF n

Multiple(x, g) == \E k \in Int : x = g * k

\* Places a multiple of g apart are reached from one another.
LEMMA SameClass ==
    ASSUME NEW m, NEW p, NEW g, NEW L, Shape(m, p, g, L),
           NEW j \in Int, NEW z \in Int
    PROVE  Multiple(j * p + (m + p) * z, g)
<1>1. m \in Int /\ p \in Int /\ g \in Int /\ L \in Int /\ m + p = g * L
  BY DEF Shape
<1>2. PICK b \in Int : p = g * b
  BY DEF Shape
<1>3. j * p = g * (b * j) /\ (m + p) * z = g * (L * z)
  BY <1>1, <1>2
<1>4. b * j \in Int /\ L * z \in Int /\ b * j + L * z \in Int
  BY <1>1
<1>5. j * p + (m + p) * z = g * (b * j + L * z)
  BY <1>1, <1>3, <1>4
<1> QED
  BY <1>4, <1>5 DEF Multiple

\* The same two facts in the form the provers match.
Reaches(m, p, L, x) == \E j \in 0 .. L - 1, z \in Int : x = j * p + (m + p) * z

\* Reached, by the name of its conclusion.
LEMMA ReachedNamed ==
    \A m, p, g, L, k : Shape(m, p, g, L) => (k \in Int => Reaches(m, p, L, g * k))
  BY Reached DEF Reaches

\* SameClass, by the name of its conclusion.
LEMMA SameClassNamed ==
    \A m, p, g, L : Shape(m, p, g, L) =>
        \A j, z \in Int : Multiple(j * p + (m + p) * z, g)
  BY SameClass, Zenon

-----------------------------------------------------------------------------
(* One cycle.                                                              *)

Blocks(s, e, o) == s \in Nat \ {0} /\ e \in Nat /\ o \in Nat /\ s < e /\ e < o

IsPlaces(at, s, e, o, c, N) ==
    at[0] = c /\ \A j \in 1 .. N : at[j] = NextPlace(s, e, o, at[j - 1])

IsSwapped(swapped, words, at, c, N) ==
    swapped[0] = words /\ \A j \in 1 .. N : swapped[j] = Swap(swapped[j - 1], at[j], c)

\* The next place of a cycle is inside the blocks.
LEMMA NextInside ==
    ASSUME NEW s, NEW e, NEW o, Blocks(s, e, o), NEW x \in s .. o - 1
    PROVE  /\ NextPlace(s, e, o, x) \in s .. o - 1
           /\ \/ NextPlace(s, e, o, x) = x + (o - e)
              \/ NextPlace(s, e, o, x) = x + (o - e) - (o - s)
  BY DEF Blocks, NextPlace

\* The places of a cycle are among those exchanged; the place j is j rotations
\* away from the first.
LEMMA PlacesInside ==
    ASSUME NEW s, NEW e, NEW o, Blocks(s, e, o), NEW c \in s .. o - 1,
           NEW N \in Nat, NEW at, IsPlaces(at, s, e, o, c, N)
    PROVE  \A j \in 0 .. N :
                /\ at[j] \in s .. o - 1
                /\ \E q \in Int : at[j] = c + j * (o - e) + (o - s) * q
<1> DEFINE Right(j) == /\ at[j] \in s .. o - 1
                       /\ \E q \in Int : at[j] = c + j * (o - e) + (o - s) * q
<1>1. s \in Int /\ e \in Int /\ o \in Int
  BY DEF Blocks
<1>2. Right(0)
  <2>1. at[0] = c
    BY DEF IsPlaces
  <2>2. c = c + 0 * (o - e) + (o - s) * 0
    BY <1>1
  <2> QED
    BY <2>1, <2>2
<1>3. ASSUME NEW j \in Nat, j < N, Right(j) PROVE Right(j + 1)
  <2>1. j + 1 \in 1 .. N /\ (j + 1) - 1 = j
    BY <1>3
  <2>2. at[j + 1] = NextPlace(s, e, o, at[j])
    BY <2>1 DEF IsPlaces
  <2>3. PICK q \in Int : at[j] = c + j * (o - e) + (o - s) * q
    BY <1>3
  <2>4. /\ at[j + 1] \in s .. o - 1
        /\ \/ at[j + 1] = at[j] + (o - e)
           \/ at[j + 1] = at[j] + (o - e) - (o - s)
    BY <1>3, <2>2, NextInside
  <2>5. j * (o - e) + (o - e) = (j + 1) * (o - e)
    BY <1>1
  <2>6. (o - s) * q - (o - s) = (o - s) * (q - 1)
    BY <1>1
  <2> DEFINE a == j * (o - e)
             b == (j + 1) * (o - e)
             x == (o - s) * q
             y == (o - s) * (q - 1)
  <2>7. a \in Int /\ b \in Int /\ x \in Int /\ y \in Int /\ c \in Int
    BY <1>1
  <2>8. a + (o - e) = b /\ x - (o - s) = y /\ at[j] = c + a + x
    BY <2>3, <2>5, <2>6
  <2> HIDE DEF a, b, x, y
  <2>9. at[j + 1] = c + b + x \/ at[j + 1] = c + b + y
    BY <1>1, <2>4, <2>7, <2>8
  <2>10. q - 1 \in Int
    OBVIOUS
  <2> QED
    BY <2>4, <2>9, <2>10 DEF b, x, y
<1> HIDE DEF Right
<1> DEFINE with == {j \in Nat : j <= N => Right(j)}
<1>4. with \in SUBSET Nat /\ 0 \in with /\ \A j \in with : j + 1 \in with
  BY <1>2, <1>3
<1> HIDE DEF with
<1>5. with = Nat
  BY <1>4, Inductive
<1>6. \A j \in 0 .. N : Right(j)
  BY <1>5 DEF with
<1> QED
  BY <1>6 DEF Right

\* The code of the cycle does what it says: a run of its loop exists.
LEMMA FollowRuns ==
    ASSUME NEW s, NEW e, NEW o, Blocks(s, e, o), NEW c \in s .. o - 1, NEW N \in Nat,
           NEW D, NEW T, NEW words \in [D -> T], s .. o - 1 \subseteq D
    PROVE  \E at, swapped :
                /\ IsPlaces(at, s, e, o, c, N)
                /\ IsSwapped(swapped, words, at, c, N)
                /\ FollowCycle(s, e, o, N, c, words) = swapped[N]
<1> DEFINE PosBody(at) ==
                [j \in 0 .. N |-> IF j = 0 THEN c ELSE NextPlace(s, e, o, at[j - 1])]
           P == CHOOSE at : at = PosBody(at)
           Body(at, swapped) ==
                [j \in 0 .. N |-> IF j = 0 THEN words
                                  ELSE Swap(swapped[j - 1], at[j], c)]
           Q == CHOOSE swapped : swapped = Body(P, swapped)
<1>1. FollowCycle(s, e, o, N, c, words) = Q[N]
  BY DEF FollowCycle
<1>2. P = PosBody(P)
  <2> DEFINE F == [j \in 1 .. N |-> [x \in s .. o - 1 |-> NextPlace(s, e, o, x)]]
  <2>1. F \in [1 .. N -> [s .. o - 1 -> s .. o - 1]]
    BY NextInside
  <2>2. \A j \in 1 .. N, x \in s .. o - 1 : F[j][x] = NextPlace(s, e, o, x)
    OBVIOUS
  <2> HIDE DEF F
  <2>3. PICK f : IsRun(f, N, s .. o - 1, c, F)
    BY <2>1, LoopRuns
  <2>4. \A j \in 0 .. N : j # 0 => j \in 1 .. N /\ f[j - 1] \in s .. o - 1
    BY <2>3 DEF IsRun
  <2>5. \A j \in 0 .. N : f[j] = IF j = 0 THEN c ELSE NextPlace(s, e, o, f[j - 1])
    BY <2>2, <2>3, <2>4 DEF IsRun
  <2>6. f = PosBody(f)
    BY <2>3, <2>5 DEF IsRun
  <2> HIDE DEF PosBody
  <2> QED
    BY <2>6
<1>3. IsPlaces(P, s, e, o, c, N)
  <2> HIDE DEF P
  <2>1. \A j \in 0 .. N : P[j] = PosBody(P)[j]
    BY <1>2
  <2>2. P[0] = c
    BY <2>1
  <2>3. \A j \in 1 .. N : P[j] = NextPlace(s, e, o, P[j - 1])
    BY <2>1
  <2> QED
    BY <2>2, <2>3 DEF IsPlaces
<1> HIDE DEF P, PosBody
<1>4. Q = Body(P, Q)
  <2> DEFINE F == [j \in 1 .. N |-> [w \in [D -> T] |-> Swap(w, P[j], c)]]
  <2>1. \A j \in 1 .. N, w \in [D -> T] : Swap(w, P[j], c) \in [D -> T]
    <3>1. \A j \in 1 .. N : P[j] \in D /\ c \in D
      BY <1>3, PlacesInside
    <3> QED
      BY <3>1 DEF Swap
  <2>2. F \in [1 .. N -> [[D -> T] -> [D -> T]]]
    BY <2>1
  <2>3. \A j \in 1 .. N, w \in [D -> T] : F[j][w] = Swap(w, P[j], c)
    OBVIOUS
  <2> HIDE DEF F
  <2>4. PICK f : IsRun(f, N, [D -> T], words, F)
    BY <2>2, LoopRuns
  <2>5. \A j \in 0 .. N : j # 0 => j \in 1 .. N /\ f[j - 1] \in [D -> T]
    BY <2>4 DEF IsRun
  <2>6. \A j \in 0 .. N : f[j] = IF j = 0 THEN words ELSE Swap(f[j - 1], P[j], c)
    BY <2>3, <2>4, <2>5 DEF IsRun
  <2>7. f = Body(P, f)
    BY <2>4, <2>6 DEF IsRun
  <2> HIDE DEF Body
  <2> QED
    BY <2>7
<1>5. IsSwapped(Q, words, P, c, N)
  <2> HIDE DEF Q
  <2>1. \A j \in 0 .. N : Q[j] = Body(P, Q)[j]
    BY <1>4
  <2>2. Q[0] = words
    BY <2>1
  <2>3. \A j \in 1 .. N : Q[j] = Swap(Q[j - 1], P[j], c)
    BY <2>1
  <2> QED
    BY <2>2, <2>3 DEF IsSwapped
<1> HIDE DEF Q
<1> QED
  BY <1>1, <1>3, <1>5

\* A cycle comes back to its first place after L steps and no sooner.
LEMMA PlacesApart ==
    ASSUME NEW s, NEW e, NEW o, Blocks(s, e, o), NEW c \in s .. o - 1,
           NEW g, NEW L, Shape(e - s, o - e, g, L),
           NEW at, IsPlaces(at, s, e, o, c, L)
    PROVE  /\ \A i, j \in 0 .. L - 1 : at[i] = at[j] => i = j
           /\ at[L] = c
<1> DEFINE n == o - s
           p == o - e
<1>1. s \in Int /\ n \in Nat \ {0} /\ p \in Int /\ c \in Int /\ (e - s) + p = n
  BY DEF Blocks
<1>2. L \in Nat \ {0}
  BY DEF Shape
<1>3. \A j \in 0 .. L : /\ at[j] \in s .. o - 1
                        /\ \E q \in Int : at[j] = c + j * p + n * q
  BY <1>2, PlacesInside
<1>4. ASSUME NEW i \in 0 .. L - 1, NEW j \in 0 .. L - 1, at[i] = at[j]
      PROVE  i = j
  <2>1. PICK a \in Int : at[i] = c + i * p + n * a
    BY <1>2, <1>3
  <2>2. PICK b \in Int : at[j] = c + j * p + n * b
    BY <1>2, <1>3
  <2> HIDE DEF n, p
  <2>3. (i - j) * p = n * (b - a)
    <3>1. (i - j) * p = i * p - j * p /\ n * (b - a) = n * b - n * a
      BY <1>1, <1>2
    <3>2. i * p \in Int /\ j * p \in Int /\ n * a \in Int /\ n * b \in Int
      BY <1>1, <1>2
    <3>3. i * p + n * a = j * p + n * b
      <4> DEFINE w == i * p
                 x == j * p
                 y == n * a
                 z == n * b
      <4>1. /\ w \in Int /\ x \in Int /\ y \in Int /\ z \in Int
            /\ c + w + y = c + x + z
        BY <1>4, <2>1, <2>2, <3>2
      <4> HIDE DEF w, x, y, z
      <4>2. w + y = x + z
        BY <1>1, <4>1
      <4> QED
        BY <4>2 DEF w, x, y, z
    <3> QED
      BY <3>1, <3>2, <3>3
  <2>4. i - j \in Int /\ b - a \in Int /\ Shape(e - s, p, g, L)
        /\ (i - j) * p = ((e - s) + p) * (b - a)
    BY <1>1, <1>2, <2>3 DEF p
  <2>5. PICK z \in Int : i - j = L * z
    BY <2>4, ReturnTime
  <2>6. z = 0
    <3>1. -L < L * z /\ L * z < L
      BY <1>2, <2>5
    <3> QED
      BY <1>2, <3>1, SmallMultiple
  <2> QED
    BY <1>2, <2>5, <2>6
<1>5. at[L] = c
  <2>1. PICK a \in Int : at[L] = c + L * p + n * a
    BY <1>2, <1>3
  <2>2. at[L] \in s .. o - 1
    BY <1>2, <1>3
  <2>3. PICK b \in Int : L * p = n * b
    BY <1>1, ReturnsAtL
  <2>4. n * b + n * a = n * (b + a) /\ n * b \in Int /\ n * a \in Int /\ b + a \in Int
    BY <1>1
  <2>5. at[L] - c = n * (b + a)
    <3> HIDE DEF n, p
    <3> QED
      BY <1>1, <2>1, <2>3, <2>4
  <2>6. -n < at[L] - c /\ at[L] - c < n
    BY <2>2 DEF Blocks
  <2>7. b + a = 0
    <3> HIDE DEF n, p
    <3> QED
      BY <1>1, <2>4, <2>5, <2>6, SmallMultiple
  <2> QED
    BY <1>1, <2>2, <2>5, <2>7
<1> QED
  BY <1>4, <1>5

\* The places of a cycle are those a multiple of g away.
LEMMA PlacesCover ==
    ASSUME NEW s, NEW e, NEW o, Blocks(s, e, o), NEW c \in s .. o - 1,
           NEW g, NEW L, Shape(e - s, o - e, g, L),
           NEW at, IsPlaces(at, s, e, o, c, L), NEW y \in s .. o - 1
    PROVE  (\E j \in 0 .. L - 1 : at[j] = y) <=> (\E k \in Int : y = c + g * k)
<1> DEFINE n == o - s
           p == o - e
<1>1. s \in Int /\ n \in Nat \ {0} /\ p \in Int /\ c \in Int /\ y \in Int
      /\ (e - s) + p = n
  BY DEF Blocks
<1>2. L \in Nat \ {0} /\ g \in Int
  BY DEF Shape
<1>3. \A j \in 0 .. L : /\ at[j] \in s .. o - 1
                        /\ \E q \in Int : at[j] = c + j * p + n * q
  BY <1>2, PlacesInside
<1>4. ASSUME NEW j \in 0 .. L - 1, at[j] = y PROVE \E k \in Int : y = c + g * k
  <2>1. PICK q \in Int : at[j] = c + j * p + n * q
    BY <1>2, <1>3
  <2>2. j \in Int
    OBVIOUS
  <2> HIDE DEF n, p
  <2>0. Shape(e - s, p, g, L)
    BY DEF p
  <2>3. PICK k \in Int : j * p + ((e - s) + p) * q = g * k
    <3>1. Multiple(j * p + ((e - s) + p) * q, g)
      BY <2>0, <2>2, SameClassNamed, Zenon
    <3> QED
      BY <3>1 DEF Multiple
  <2>4. j * p + n * q = g * k
    BY <1>1, <2>3
  <2>5. j * p \in Int /\ n * q \in Int /\ g * k \in Int
    BY <1>1, <1>2
  <2>6. y = c + g * k
    BY <1>1, <1>4, <2>1, <2>4, <2>5
  <2> QED
    BY <2>6
<1>5. ASSUME NEW k \in Int, y = c + g * k PROVE \E j \in 0 .. L - 1 : at[j] = y
  <2>0. Shape(e - s, p, g, L)
    OBVIOUS
  <2>1. PICK j \in 0 .. L - 1, z \in Int : g * k = j * p + ((e - s) + p) * z
    <3> HIDE DEF n, p
    <3>1. Reaches(e - s, p, L, g * k)
      BY <2>0, ReachedNamed, Zenon
    <3> QED
      BY <3>1 DEF Reaches
  <2>2. PICK q \in Int : at[j] = c + j * p + n * q
    BY <1>2, <1>3
  <2>3. at[j] \in s .. o - 1
    BY <1>2, <1>3
  <2>4. -n < y - at[j] /\ y - at[j] < n
    BY <2>3 DEF Blocks
  <2>5. at[j] \in Int
    BY <1>1, <2>3
  <2> HIDE DEF n, p
  <2>6. g * k = j * p + n * z
    BY <1>1, <2>1
  <2>7. /\ j * p \in Int /\ n * q \in Int /\ n * z \in Int /\ g * k \in Int
        /\ n * (z - q) = n * z - n * q /\ z - q \in Int
    BY <1>1, <1>2
  <2>8. y - at[j] = n * (z - q)
    BY <1>1, <1>5, <2>2, <2>5, <2>6, <2>7
  <2>9. z - q = 0
    BY <1>1, <2>4, <2>7, <2>8, SmallMultiple
  <2>10. y = at[j]
    BY <1>1, <2>5, <2>8, <2>9
  <2> QED
    BY <2>10
<1> QED
  BY <1>4, <1>5

\* How far a cycle has come after k swaps: its first place holds the word of
\* the last place reached, the other places reached have the words of the
\* places before them, and nothing else has moved.
Moved(swapped, words, at, c, k) ==
    /\ DOMAIN swapped[k] = DOMAIN words
    /\ swapped[k][c] = words[at[k]]
    /\ \A j \in 1 .. k : swapped[k][at[j]] = words[at[j - 1]]
    /\ \A y \in DOMAIN words :
            (\A j \in 0 .. k : y # at[j]) => swapped[k][y] = words[y]

\* What a swap does to each place.
LEMMA SwapMoves ==
    ASSUME NEW words, NEW i \in DOMAIN words, NEW j \in DOMAIN words
    PROVE  /\ DOMAIN Swap(words, i, j) = DOMAIN words
           /\ Swap(words, i, j)[i] = words[j]
           /\ Swap(words, i, j)[j] = words[i]
           /\ \A y \in DOMAIN words : y # i /\ y # j => Swap(words, i, j)[y] = words[y]
  BY DEF Swap

\* One swap of a cycle.
LEMMA CycleMoves ==
    ASSUME NEW L \in Nat \ {0}, NEW at, NEW words, NEW swapped, NEW c,
           \A j \in 0 .. L : at[j] \in DOMAIN words,
           \A i, j \in 0 .. L - 1 : at[i] = at[j] => i = j,
           at[0] = c, IsSwapped(swapped, words, at, c, L)
    PROVE  \A k \in 0 .. L - 1 : Moved(swapped, words, at, c, k)
<1>1. Moved(swapped, words, at, c, 0)
  <2>1. swapped[0] = words
    BY DEF IsSwapped
  <2> QED
    BY <2>1 DEF Moved
<1>2. ASSUME NEW k \in Nat, k + 1 < L, Moved(swapped, words, at, c, k)
      PROVE  Moved(swapped, words, at, c, k + 1)
  <2> DEFINE old == swapped[k]
             new == swapped[k + 1]
             x == at[k + 1]
  <2>1. k + 1 \in 1 .. L /\ (k + 1) - 1 = k
    BY <1>2
  <2>2. new = Swap(old, x, c)
    BY <2>1 DEF IsSwapped
  <2>3. c \in DOMAIN words /\ x \in DOMAIN words /\ DOMAIN old = DOMAIN words
    BY <1>2, <2>1 DEF Moved
  <2>4. \A j \in 0 .. k : at[j] # x
    <3> SUFFICES ASSUME NEW j \in 0 .. k, at[j] = x PROVE FALSE
      OBVIOUS
    <3>1. j \in 0 .. L - 1 /\ k + 1 \in 0 .. L - 1 /\ j # k + 1
      BY <1>2
    <3> QED
      BY <3>1
  <2>5. \A j \in 1 .. k : at[j] # c
    <3> SUFFICES ASSUME NEW j \in 1 .. k, at[j] = at[0] PROVE FALSE
      OBVIOUS
    <3>1. j \in 0 .. L - 1 /\ 0 \in 0 .. L - 1 /\ j # 0
      BY <1>2
    <3> QED
      BY <3>1
  <2>6. old[x] = words[x] /\ old[c] = words[at[k]]
    BY <1>2, <2>3, <2>4 DEF Moved
  <2> HIDE DEF old, new, x
  <2>7. /\ DOMAIN new = DOMAIN words
        /\ new[x] = words[at[k]]
        /\ new[c] = words[x]
        /\ \A y \in DOMAIN words : y # x /\ y # c => new[y] = old[y]
    <3>1. x \in DOMAIN old /\ c \in DOMAIN old
      BY <2>3
    <3>2. /\ DOMAIN Swap(old, x, c) = DOMAIN old
          /\ Swap(old, x, c)[x] = old[c]
          /\ Swap(old, x, c)[c] = old[x]
          /\ \A y \in DOMAIN old : y # x /\ y # c => Swap(old, x, c)[y] = old[y]
      BY <3>1, SwapMoves
    <3> QED
      BY <2>2, <2>3, <2>6, <3>2
  <2>8. \A j \in 1 .. k + 1 : new[at[j]] = words[at[j - 1]]
    <3> SUFFICES ASSUME NEW j \in 1 .. k + 1 PROVE new[at[j]] = words[at[j - 1]]
      OBVIOUS
    <3>1. CASE j = k + 1
      BY <2>1, <2>7, <3>1 DEF x
    <3>2. CASE j # k + 1
      <4>1. j \in 1 .. k /\ j \in 0 .. L /\ j \in 0 .. k
        BY <1>2, <3>2
      <4>2. at[j] # x /\ at[j] # c /\ at[j] \in DOMAIN words
        BY <2>4, <2>5, <4>1
      <4>3. old[at[j]] = words[at[j - 1]]
        BY <1>2, <4>1 DEF Moved, old
      <4> QED
        BY <2>7, <4>2, <4>3
    <3> QED
      BY <3>1, <3>2
  <2>9. ASSUME NEW y \in DOMAIN words, \A j \in 0 .. k + 1 : y # at[j]
        PROVE  new[y] = words[y]
    <3>1. y # x /\ y # c /\ \A j \in 0 .. k : y # at[j]
      BY <2>9 DEF x
    <3> QED
      BY <1>2, <2>7, <3>1 DEF Moved, old
  <2> QED
    BY <2>7, <2>8, <2>9 DEF Moved, new, x
<1> DEFINE with == {k \in Nat : k < L => Moved(swapped, words, at, c, k)}
<1>3. with \in SUBSET Nat /\ 0 \in with /\ \A k \in with : k + 1 \in with
  BY <1>1, <1>2
<1> HIDE DEF with
<1>4. with = Nat
  BY <1>3, Inductive
<1> QED
  BY <1>4 DEF with

-----------------------------------------------------------------------------
(* All the cycles.                                                         *)

InCycle(y, c, g) == \E k \in Int : y = c + g * k

\* The place whose word comes to y.
Before(s, e, o, y) == IF y < s + (o - e) THEN y + (e - s) ELSE y - (o - e)

\* Before undoes NextPlace.
LEMMA BeforeNext ==
    ASSUME NEW s, NEW e, NEW o, Blocks(s, e, o), NEW x \in s .. o - 1
    PROVE  Before(s, e, o, NextPlace(s, e, o, x)) = x
  BY DEF Blocks, NextPlace, Before

\* Before stays inside the blocks.
LEMMA BeforeInside ==
    ASSUME NEW s, NEW e, NEW o, Blocks(s, e, o), NEW y \in s .. o - 1
    PROVE  Before(s, e, o, y) \in s .. o - 1
  BY DEF Blocks, Before

\* One call of FollowCycle turns the words of its cycle and leaves the others.
Turned(s, e, o, c, g, words) ==
    [y \in DOMAIN words |->
        IF y \in s .. o - 1 /\ InCycle(y, c, g)
        THEN words[Before(s, e, o, y)] ELSE words[y]]

\* A whole cycle.
LEMMA CycleDone ==
    ASSUME NEW s, NEW e, NEW o, Blocks(s, e, o), NEW c \in s .. o - 1,
           NEW g, NEW L, Shape(e - s, o - e, g, L),
           NEW D, NEW T, NEW words \in [D -> T], s .. o - 1 \subseteq D
    PROVE  FollowCycle(s, e, o, L, c, words) = Turned(s, e, o, c, g, words)
<1>1. L \in Nat \ {0} /\ L \in Nat /\ L - 1 \in 0 .. L - 1 /\ L \in 1 .. L
  BY DEF Shape
<1>2. PICK at, swapped : /\ IsPlaces(at, s, e, o, c, L)
                          /\ IsSwapped(swapped, words, at, c, L)
                          /\ FollowCycle(s, e, o, L, c, words) = swapped[L]
  BY <1>1, FollowRuns
<1>3. /\ \A i, j \in 0 .. L - 1 : at[i] = at[j] => i = j
      /\ at[L] = c
  BY <1>2, PlacesApart
<1>4. \A j \in 0 .. L : at[j] \in s .. o - 1
  BY <1>1, <1>2, PlacesInside
<1>5. \A j \in 0 .. L : at[j] \in DOMAIN words
  BY <1>4
<1>6. at[0] = c
  BY <1>2 DEF IsPlaces
<1>7. Moved(swapped, words, at, c, L - 1)
  <2>1. \A k \in 0 .. L - 1 : Moved(swapped, words, at, c, k)
    BY <1>1, <1>2, <1>3, <1>5, <1>6, CycleMoves
  <2> QED
    BY <1>1, <2>1
<1> DEFINE almost == swapped[L - 1]
           done == swapped[L]
<1>8. done = Swap(almost, c, c)
  BY <1>1, <1>2, <1>3 DEF IsSwapped
<1>9. /\ DOMAIN almost = DOMAIN words
      /\ almost[c] = words[at[L - 1]]
      /\ \A j \in 1 .. L - 1 : almost[at[j]] = words[at[j - 1]]
      /\ \A y \in DOMAIN words :
              (\A j \in 0 .. L - 1 : y # at[j]) => almost[y] = words[y]
  BY <1>7 DEF Moved
<1> HIDE DEF almost, done
<1>10. c \in DOMAIN words
  BY <1>1, <1>5, <1>6
<1>11. done = [y \in DOMAIN words |-> almost[y]]
  BY <1>8, <1>9, <1>10 DEF Swap
<1>12. \A j \in 1 .. L : Before(s, e, o, at[j]) = at[j - 1]
  <2> SUFFICES ASSUME NEW j \in 1 .. L PROVE Before(s, e, o, at[j]) = at[j - 1]
    OBVIOUS
  <2>1. j - 1 \in 0 .. L
    BY <1>1
  <2>2. at[j - 1] \in s .. o - 1 /\ at[j] = NextPlace(s, e, o, at[j - 1])
    BY <1>2, <1>4, <2>1 DEF IsPlaces
  <2> QED
    BY <2>2, BeforeNext
<1>13. ASSUME NEW y \in DOMAIN words, y \in s .. o - 1, InCycle(y, c, g)
       PROVE  almost[y] = words[Before(s, e, o, y)]
  <2>1. PICK j \in 0 .. L - 1 : at[j] = y
    BY <1>2, <1>13, PlacesCover DEF InCycle
  <2>2. CASE j = 0
    <3>1. Before(s, e, o, c) = at[L - 1]
      BY <1>1, <1>3, <1>12
    <3> QED
      BY <1>6, <1>9, <2>1, <2>2, <3>1
  <2>3. CASE j # 0
    <3>1. j \in 1 .. L - 1 /\ j \in 1 .. L
      BY <1>1, <2>3
    <3> QED
      BY <1>9, <1>12, <2>1, <3>1
  <2> QED
    BY <2>2, <2>3
<1>14. ASSUME NEW y \in DOMAIN words, ~(y \in s .. o - 1 /\ InCycle(y, c, g))
       PROVE  almost[y] = words[y]
  <2>1. ASSUME NEW j \in 0 .. L - 1, y = at[j] PROVE FALSE
    <3>1. y \in s .. o - 1
      BY <1>1, <1>4, <2>1
    <3>2. InCycle(y, c, g)
      BY <1>2, <2>1, <3>1, PlacesCover DEF InCycle
    <3> QED
      BY <1>14, <3>1, <3>2
  <2> QED
    BY <1>9, <2>1
<1>15. done = Turned(s, e, o, c, g, words)
  BY <1>11, <1>13, <1>14 DEF Turned
<1> QED
  BY <1>2, <1>15 DEF done

\* A word comes from a place of the cycle it goes to.
LEMMA BeforeInCycle ==
    ASSUME NEW s, NEW e, NEW o, Blocks(s, e, o), NEW g, NEW L,
           Shape(e - s, o - e, g, L), NEW y \in Int, NEW c \in Int, InCycle(y, c, g)
    PROVE  InCycle(Before(s, e, o, y), c, g)
<1>1. /\ e - s \in Int /\ o - e \in Int /\ g \in Int /\ L \in Int
      /\ (e - s) + (o - e) = g * L
  BY DEF Shape
<1>2. PICK b \in Int : o - e = g * b
  BY DEF Shape
<1>3. PICK k \in Int : y = c + g * k
  BY DEF InCycle
<1>4. e - s = g * (L - b)
  BY <1>1, <1>2
<1>5. g * k + g * (L - b) = g * (k + (L - b)) /\ g * k - g * b = g * (k - b)
  BY <1>1
<1>6. /\ k + (L - b) \in Int /\ k - b \in Int
      /\ g * k \in Int /\ g * (L - b) \in Int /\ g * b \in Int
  BY <1>1
<1>7. Before(s, e, o, y) = y + (e - s) \/ Before(s, e, o, y) = y - (o - e)
  BY DEF Before
<1>8. CASE Before(s, e, o, y) = y + (e - s)
  <2>1. Before(s, e, o, y) = (c + g * k) + g * (L - b)
    BY <1>3, <1>4, <1>8
  <2>2. Before(s, e, o, y) = c + g * (k + (L - b))
    BY <1>5, <1>6, <2>1
  <2> QED
    BY <1>6, <2>2 DEF InCycle
<1>9. CASE Before(s, e, o, y) = y - (o - e)
  <2>1. Before(s, e, o, y) = (c + g * k) - g * b
    BY <1>2, <1>3, <1>9
  <2>2. Before(s, e, o, y) = c + g * (k - b)
    BY <1>5, <1>6, <2>1
  <2> QED
    BY <1>6, <2>2 DEF InCycle
<1> QED
  BY <1>7, <1>8, <1>9

\* Cycles that begin less than g places apart share no place.
LEMMA CyclesApart ==
    ASSUME NEW g \in Nat \ {0}, NEW e \in Int, NEW y \in Int,
           NEW i \in 0 .. g - 1, NEW t \in 0 .. g - 1,
           InCycle(y, e + i, g), InCycle(y, e + t, g)
    PROVE  i = t
<1>1. PICK a \in Int : y = (e + i) + g * a
  BY DEF InCycle
<1>2. PICK b \in Int : y = (e + t) + g * b
  BY DEF InCycle
<1>3. g * (a - b) = g * a - g * b /\ g * a \in Int /\ g * b \in Int /\ a - b \in Int
  OBVIOUS
<1>4. g * (a - b) = t - i
  <2> DEFINE v == g * a
             w == g * b
  <2>1. v \in Int /\ w \in Int /\ y = (e + i) + v /\ y = (e + t) + w
    BY <1>1, <1>2, <1>3
  <2> HIDE DEF v, w
  <2>2. v - w = t - i
    BY <2>1
  <2> QED
    BY <1>3, <2>2 DEF v, w
<1>5. -g < t - i /\ t - i < g
  OBVIOUS
<1>6. a - b = 0
  BY <1>3, <1>4, <1>5, SmallMultiple
<1> QED
  BY <1>4, <1>6

\* The g cycles that begin at e have all the places.
LEMMA CyclesCover ==
    ASSUME NEW g \in Nat \ {0}, NEW e \in Int, NEW y \in Int
    PROVE  \E t \in 0 .. g - 1 : InCycle(y, e + t, g)
<1>1. \E q, r \in Int : y - e = g * q + r /\ r \in 0 .. g - 1
                        /\ q = (y - e) \div g /\ r = (y - e) % g
  <2>1. y - e \in Int
    OBVIOUS
  <2> QED
    BY <2>1, Division
<1>2. PICK q, r \in Int : y - e = g * q + r /\ r \in 0 .. g - 1
  BY <1>1, Zenon
<1>3. y = (e + r) + g * q
  <2> DEFINE v == g * q
  <2>1. v \in Int /\ y - e = v + r
    BY <1>2
  <2> HIDE DEF v
  <2>2. y = (e + r) + v
    BY <2>1
  <2> QED
    BY <2>2 DEF v
<1> QED
  BY <1>2, <1>3 DEF InCycle

\* The words after the first i cycles.
Permuted(s, e, o, g, words, i) ==
    [y \in DOMAIN words |->
        IF y \in s .. o - 1 /\ \E t \in 0 .. i - 1 : InCycle(y, e + t, g)
        THEN words[Before(s, e, o, y)] ELSE words[y]]

CycleFollows(s, e, o, g, L, words, i) ==
    FollowCycle(s, e, o, L, e + i, Permuted(s, e, o, g, words, i))
      = Permuted(s, e, o, g, words, i + 1)

\* One cycle more.
LEMMA NextCycle ==
    ASSUME NEW s, NEW e, NEW o, Blocks(s, e, o), NEW g, NEW L,
           Shape(e - s, o - e, g, L),
           NEW D, NEW T, NEW words \in [D -> T], s .. o - 1 \subseteq D,
           NEW i \in 0 .. g - 1
    PROVE  CycleFollows(s, e, o, g, L, words, i)
<1> DEFINE old == Permuted(s, e, o, g, words, i)
           new == Permuted(s, e, o, g, words, i + 1)
<1>1. g \in Nat \ {0} /\ g \in 1 .. o - e
  BY DEF Shape, Blocks
<1>2. e + i \in s .. o - 1 /\ e \in Int
  BY <1>1 DEF Blocks
<1>3. \A y \in s .. o - 1 : Before(s, e, o, y) \in D
  BY BeforeInside
<1>4. old \in [D -> T]
  BY <1>3 DEF Permuted
<1>5. FollowCycle(s, e, o, L, e + i, old) = Turned(s, e, o, e + i, g, old)
  <2> HIDE DEF old
  <2> QED
    BY <1>2, <1>4, CycleDone
<1>6. DOMAIN old = D /\ DOMAIN new = D /\ DOMAIN words = D
  BY DEF Permuted
<1>7. \A y \in D : old[y] =
            IF y \in s .. o - 1 /\ \E t \in 0 .. i - 1 : InCycle(y, e + t, g)
            THEN words[Before(s, e, o, y)] ELSE words[y]
  BY DEF Permuted
<1>8. new = [y \in D |->
            IF y \in s .. o - 1 /\ \E t \in 0 .. (i + 1) - 1 : InCycle(y, e + t, g)
            THEN words[Before(s, e, o, y)] ELSE words[y]]
  BY DEF Permuted
<1> HIDE DEF old, new
<1>9. ASSUME NEW y \in D
      PROVE  (IF y \in s .. o - 1 /\ InCycle(y, e + i, g)
              THEN old[Before(s, e, o, y)] ELSE old[y]) =
             (IF y \in s .. o - 1 /\ \E t \in 0 .. (i + 1) - 1 : InCycle(y, e + t, g)
              THEN words[Before(s, e, o, y)] ELSE words[y])
  <2>1. CASE y \notin s .. o - 1
    BY <1>7, <2>1
  <2>2. CASE y \in s .. o - 1 /\ InCycle(y, e + i, g)
    <3> DEFINE z == Before(s, e, o, y)
    <3>1. z \in s .. o - 1 /\ z \in D
      BY <1>3, <2>2, BeforeInside
    <3>2. InCycle(z, e + i, g)
      <4>1. y \in Int /\ e + i \in Int
        BY <1>2, <2>2
      <4> QED
        BY <2>2, <4>1, BeforeInCycle
    <3> HIDE DEF z
    <3>3. ASSUME NEW t \in 0 .. i - 1, InCycle(z, e + t, g) PROVE FALSE
      <4>1. z \in Int /\ t \in 0 .. g - 1 /\ t # i
        BY <1>1, <3>1
      <4> QED
        BY <1>1, <1>2, <3>2, <3>3, <4>1, CyclesApart
    <3>4. old[z] = words[z]
      BY <1>7, <3>1, <3>3
    <3>5. i \in 0 .. (i + 1) - 1
      BY <1>1
    <3> QED
      BY <2>2, <3>4, <3>5 DEF z
  <2>3. CASE y \in s .. o - 1 /\ ~InCycle(y, e + i, g)
    <3>1. (\E t \in 0 .. (i + 1) - 1 : InCycle(y, e + t, g))
            <=> (\E t \in 0 .. i - 1 : InCycle(y, e + t, g))
      <4>1. \A t \in 0 .. (i + 1) - 1 : t = i \/ t \in 0 .. i - 1
        BY <1>1
      <4>2. 0 .. i - 1 \subseteq 0 .. (i + 1) - 1
        BY <1>1
      <4> QED
        BY <2>3, <4>1, <4>2
    <3> QED
      BY <1>7, <2>3, <3>1
  <2> QED
    BY <2>1, <2>2, <2>3
<1>10. Turned(s, e, o, e + i, g, old) = new
  BY <1>6, <1>8, <1>9 DEF Turned
<1> QED
  BY <1>5, <1>10 DEF CycleFollows, old, new

\* The words with the two blocks exchanged, each in its own order.
Exchanged(s, e, o, words) ==
    [y \in DOMAIN words |->
        IF y \in s .. o - 1 THEN words[Before(s, e, o, y)] ELSE words[y]]

\* All cycles.
LEMMA PermuteDone ==
    ASSUME NEW s, NEW e, NEW o, Blocks(s, e, o),
           NEW D, NEW T, NEW words \in [D -> T], s .. o - 1 \subseteq D
    PROVE  permute_args(s, e, o, words) = Exchanged(s, e, o, words)
<1> DEFINE g == gcd(e - s, o - e)
           L == (o - s) \div g
           P(i) == Permuted(s, e, o, g, words, i)
           Body(f) == [i \in 0 .. g |->
                            IF i = 0 THEN words
                            ELSE FollowCycle(s, e, o, L, e + i - 1, f[i - 1])]
           Q == CHOOSE f : f = Body(f)
<1>1. permute_args(s, e, o, words) = Q[g]
  BY DEF permute_args
<1>2. Shape(e - s, o - e, g, L)
  <2>1. e - s \in Nat \ {0} /\ o - e \in Nat \ {0} /\ (e - s) + (o - e) = o - s
    BY DEF Blocks
  <2>2. Shape(e - s, o - e, gcd(e - s, o - e),
              ((e - s) + (o - e)) \div gcd(e - s, o - e))
    BY <2>1, ShapeOfGcd
  <2> QED
    BY <2>1, <2>2
<1> HIDE DEF g, L
<1>3. g \in Nat \ {0} /\ e \in Int
  BY <1>2 DEF Shape, Blocks
<1>4. P(0) = words
  <2>1. \A t : t \notin 0 .. 0 - 1
    OBVIOUS
  <2>2. P(0) = [y \in DOMAIN words |-> words[y]]
    BY <2>1 DEF Permuted
  <2> QED
    BY <2>2
<1>5. \A i \in 0 .. g - 1 : FollowCycle(s, e, o, L, e + i, P(i)) = P(i + 1)
  <2> HIDE DEF P, Body, Q
  <2>1. \A i \in 0 .. g - 1 :
            FollowCycle(s, e, o, L, e + i, Permuted(s, e, o, g, words, i))
              = Permuted(s, e, o, g, words, i + 1)
    <3>1. \A i \in 0 .. g - 1 : CycleFollows(s, e, o, g, L, words, i)
      BY <1>2, NextCycle
    <3> QED
      BY <3>1 DEF CycleFollows
  <2> QED
    BY <2>1 DEF P
<1> HIDE DEF P
<1>6. Q = Body(Q)
  <2> DEFINE f == [i \in 0 .. g |-> P(i)]
  <2>1. ASSUME NEW i \in 0 .. g
        PROVE  f[i] = IF i = 0 THEN words
                      ELSE FollowCycle(s, e, o, L, e + i - 1, f[i - 1])
    <3>1. CASE i = 0
      BY <1>4, <3>1
    <3>2. CASE i # 0
      <4>1. i - 1 \in 0 .. g - 1 /\ i - 1 \in 0 .. g /\ e + (i - 1) = e + i - 1 /\ (i - 1) + 1 = i
        BY <1>3, <3>2
      <4>2. FollowCycle(s, e, o, L, e + i - 1, P(i - 1)) = P(i)
        BY <1>5, <4>1
      <4> QED
        BY <3>2, <4>1, <4>2
    <3> QED
      BY <3>1, <3>2
  <2>2. f = Body(f)
    BY <2>1
  <2> HIDE DEF f, Body
  <2> QED
    BY <2>2
<1>7. \A i \in 0 .. g : Q[i] = IF i = 0 THEN words
                               ELSE FollowCycle(s, e, o, L, e + i - 1, Q[i - 1])
  <2> HIDE DEF Q
  <2> QED
    BY <1>6
<1> HIDE DEF Q, Body
<1> DEFINE right == {i \in Nat : i <= g => Q[i] = P(i)}
<1>8. 0 \in right
  BY <1>3, <1>4, <1>7
<1>9. ASSUME NEW i \in right PROVE i + 1 \in right
  <2> SUFFICES ASSUME i + 1 <= g PROVE Q[i + 1] = P(i + 1)
    OBVIOUS
  <2>1. /\ i \in 0 .. g - 1 /\ i + 1 \in 0 .. g /\ i + 1 # 0
        /\ (i + 1) - 1 = i /\ e + (i + 1) - 1 = e + i /\ Q[i] = P(i)
    BY <1>3
  <2>2. Q[i + 1] = FollowCycle(s, e, o, L, e + (i + 1) - 1, Q[(i + 1) - 1])
    BY <1>7, <2>1
  <2>3. Q[i + 1] = FollowCycle(s, e, o, L, e + i, P(i))
    BY <2>1, <2>2
  <2> QED
    BY <1>5, <2>1, <2>3
<1>10. right = Nat
  <2>1. right \in SUBSET Nat
    OBVIOUS
  <2> HIDE DEF right
  <2> QED
    BY <1>8, <1>9, <2>1, Inductive
<1>11. Q[g] = P(g)
  <2>1. g \in right
    BY <1>3, <1>10
  <2> QED
    BY <1>3, <2>1
<1>12. P(g) = Exchanged(s, e, o, words)
  <2>1. \A y \in s .. o - 1 : \E t \in 0 .. g - 1 : InCycle(y, e + t, g)
    <3> SUFFICES ASSUME NEW y \in s .. o - 1
                 PROVE  \E t \in 0 .. g - 1 : InCycle(y, e + t, g)
      OBVIOUS
    <3>1. y \in Int
      OBVIOUS
    <3> QED
      BY <1>3, <3>1, CyclesCover
  <2> QED
    BY <2>1 DEF P, Permuted, Exchanged
<1> QED
  BY <1>1, <1>11, <1>12

\* permute_args keeps the number of words and the words.
LEMMA PermuteKeeps ==
    ASSUME NEW s, NEW e, NEW o, Blocks(s, e, o),
           NEW T, NEW words \in Seq(T), o - 1 <= Len(words)
    PROVE  /\ permute_args(s, e, o, words) \in Seq(T)
           /\ Len(permute_args(s, e, o, words)) = Len(words)
           /\ ToSet(permute_args(s, e, o, words)) = ToSet(words)
<1> DEFINE D == 1 .. Len(words)
           R == permute_args(s, e, o, words)
<1>1. words \in [D -> T] /\ DOMAIN words = D /\ Len(words) \in Nat
  OBVIOUS
<1>2. s .. o - 1 \subseteq D
  BY <1>1 DEF Blocks
<1>3. R = Exchanged(s, e, o, words)
  <2> HIDE DEF D
  <2> QED
    BY <1>1, <1>2, PermuteDone
<1> HIDE DEF R
<1>4. R = [y \in D |-> IF y \in s .. o - 1 THEN words[Before(s, e, o, y)] ELSE words[y]]
  BY <1>1, <1>3 DEF Exchanged
<1>5. \A y \in s .. o - 1 : Before(s, e, o, y) \in D
  BY <1>2, BeforeInside
<1>6. R \in [D -> T]
  BY <1>1, <1>4, <1>5
<1>7. R \in Seq(T) /\ Len(R) = Len(words)
  BY <1>1, <1>6
<1>8. ToSet(R) \subseteq ToSet(words)
  BY <1>1, <1>4, <1>5 DEF ToSet
<1>9. ASSUME NEW x \in D PROVE \E y \in D : R[y] = words[x]
  <2>1. CASE x \notin s .. o - 1
    BY <1>4, <2>1
  <2>2. CASE x \in s .. o - 1
    <3> DEFINE y == NextPlace(s, e, o, x)
    <3>1. y \in s .. o - 1 /\ Before(s, e, o, y) = x
      BY <2>2, NextInside, BeforeNext
    <3>2. y \in D
      BY <1>2, <3>1
    <3> HIDE DEF y
    <3> QED
      BY <1>4, <3>1, <3>2
  <2> QED
    BY <2>1, <2>2
<1>10. DOMAIN R = D
  BY <1>6
<1>11. ToSet(words) \subseteq ToSet(R)
  BY <1>1, <1>9, <1>10 DEF ToSet
<1> QED
  BY <1>7, <1>8, <1>11 DEF R

\* permute_args does what its comment promises: it exchanges the block
\* start .. end - 1 with the block end .. opt_end - 1 and keeps the order of
\* the words in each (argtable3.c:1488).
THEOREM PermuteExchanges ==
    ASSUME NEW start, NEW end, NEW opt_end, Blocks(start, end, opt_end),
           NEW T, NEW words \in Seq(T), opt_end - 1 <= Len(words)
    PROVE  permute_args(start, end, opt_end, words) =
             [k \in DOMAIN words |->
                IF k \notin start .. opt_end - 1 THEN words[k]
                ELSE IF k < start + (opt_end - end)
                THEN words[k + (end - start)]
                ELSE words[k - (opt_end - end)]]
<1>1. words \in [1 .. Len(words) -> T] /\ start .. opt_end - 1 \subseteq 1 .. Len(words)
  BY DEF Blocks
<1>2. permute_args(start, end, opt_end, words) = Exchanged(start, end, opt_end, words)
  BY <1>1, PermuteDone
<1>3. Exchanged(start, end, opt_end, words) =
             [k \in DOMAIN words |->
                IF k \notin start .. opt_end - 1 THEN words[k]
                ELSE IF k < start + (opt_end - end)
                THEN words[k + (end - start)]
                ELSE words[k - (opt_end - end)]]
  BY DEF Exchanged, Before
<1> QED
  BY <1>2, <1>3

-----------------------------------------------------------------------------
(* The types.                                                              *)

Tokens == UNION {UNION {ToSet(word) : word \in ToSet(line)} : line \in CommandLines}
WordType == Seq(Tokens)

\* The words: getopt only ever reorders them, stays inside them, and is in the
\* middle of one only while it reads options.
WordsInv ==
    /\ argv \in CommandLines
    /\ nargv \in Seq(WordType)
    /\ Len(nargv) = Len(argv)
    /\ ToSet(nargv) = ToSet(argv)
    /\ optind \in 1 .. Len(nargv) + 1
    /\ place \in WordType
    /\ place # <<>> => phase = "tagged" /\ optind <= Len(nargv)

\* The blocks that permute_args is to exchange lie behind one another, and an
\* operand never follows the options skipped at once: the block of options is
\* not empty when it is sent in front.
BlocksInv ==
    /\ nonopt_start \in {None} \cup 1 .. Len(nargv)
    /\ nonopt_end \in {None} \cup 1 .. Len(nargv)
    /\ nonopt_start # None => nonopt_start < optind
    /\ nonopt_end # None =>
         nonopt_start # None /\ nonopt_start < nonopt_end /\ nonopt_end <= optind
    /\ nonopt_end = optind =>
         optind <= Len(nargv) /\ IsOption(Word) /\ Word # Terminator

GivenInv ==
    /\ given \in [Entries -> Seq(WordType)]
    /\ \A entry \in Entries : Len(given[entry]) <= MaxCount(entry)
    /\ errors \in 0 .. MaxErrors

LineInv == WordsInv /\ BlocksInv /\ GivenInv

\* The words of a command line have their type.
LEMMA LineTyped ==
  ASSUME NEW line \in CommandLines
  PROVE  line \in Seq(WordType)
<1>1. /\ line \in Seq(ToSet(line))
      /\ \A word \in ToSet(line) : word \in Seq(ToSet(word))
  BY CommandLineAssumption
<1>2. \A word \in ToSet(line) : ToSet(word) \subseteq Tokens
  BY DEF Tokens
<1>3. \A word \in ToSet(line) : word \in WordType
  BY <1>1, <1>2 DEF WordType
<1>4. ToSet(line) \subseteq WordType
  BY <1>3
<1> QED
  BY <1>1, <1>4

\* At the start.
LEMMA LineInit == Init => LineInv
<1> SUFFICES ASSUME Init PROVE LineInv
  OBVIOUS
<1>1. argv \in CommandLines /\ nargv = argv /\ optind = 1 /\ place = <<>>
  BY DEF Init, CommandInit
<1>2. nargv \in Seq(WordType) /\ Len(nargv) \in Nat
  BY <1>1, LineTyped
<1>3. WordsInv
  BY <1>1, <1>2 DEF WordsInv, WordType
<1>4. BlocksInv
  BY <1>1, <1>2 DEF Init, CommandInit, BlocksInv, None
<1>5. GivenInv
  <2>1. given = [entry \in Entries |-> <<>>] /\ errors = 0
    BY DEF Init, CommandInit
  <2>2. \A entry \in Entries : MaxCount(entry) \in Nat
    BY DEF MaxCount
  <2>3. <<>> \in Seq(WordType) /\ Len(<<>>) = 0
    OBVIOUS
  <2> QED
    BY <2>1, <2>2, <2>3, CommandLineAssumption DEF GivenInv
<1> QED
  BY <1>3, <1>4, <1>5 DEF LineInv

-----------------------------------------------------------------------------
(* What the actions have in common.                                        *)

\* Errors stay within their table.
LEMMA Registers ==
  ASSUME NEW n \in Nat, errors \in 0 .. MaxErrors, arg_register_error(n)
  PROVE  errors' \in 0 .. MaxErrors
  BY CommandLineAssumption DEF arg_register_error

\* Values stay within their tables.
LEMMA Scans ==
  ASSUME GivenInv, NEW entry, NEW value \in WordType, arg_scanfn(entry, value)
  PROVE  /\ given' \in [Entries -> Seq(WordType)]
         /\ \A x \in Entries : Len(given'[x]) <= MaxCount(x)
<1>1. given \in [Entries -> Seq(WordType)] /\ \A x \in Entries : Len(given[x]) <= MaxCount(x)
  BY DEF GivenInv
<1>2. given' = [given EXCEPT ![entry] = IF Accepts(entry)
                                        THEN Append(given[entry], value)
                                        ELSE given[entry]]
  BY DEF arg_scanfn
<1>3. \A x \in Entries : given'[x] = given[x] \/
          (x = entry /\ Accepts(entry) /\ given'[x] = Append(given[x], value))
  BY <1>1, <1>2
<1>4. \A x \in Entries : Len(given[x]) \in Nat /\ MaxCount(x) \in Nat
  BY <1>1 DEF MaxCount
<1>5. ASSUME NEW x \in Entries
      PROVE  given'[x] \in Seq(WordType) /\ Len(given'[x]) <= MaxCount(x)
  <2>1. CASE given'[x] = given[x]
    BY <1>1, <2>1
  <2>2. CASE x = entry /\ Accepts(entry) /\ given'[x] = Append(given[x], value)
    <3>1. Len(given[x]) < MaxCount(x)
      BY <2>2 DEF Accepts
    <3>2. given[x] \in Seq(WordType)
      BY <1>1
    <3>3. Append(given[x], value) \in Seq(WordType) /\ Len(Append(given[x], value)) = Len(given[x]) + 1
      BY <3>2
    <3> QED
      BY <1>4, <2>2, <3>1, <3>3
  <2> QED
    BY <1>3, <2>1, <2>2
<1>6. given' \in [Entries -> Seq(WordType)]
  BY <1>1, <1>2, <1>5
<1> QED
  BY <1>5, <1>6

\* getopt's answers keep the types of what is given.
LEMMA KeepsGiven ==
  ASSUME GivenInv, UNCHANGED given, NEW n \in Nat, arg_register_error(n)
  PROVE  GivenInv'
  BY Registers DEF GivenInv

\* An answer with a value.
LEMMA ScansGiven ==
  ASSUME GivenInv, NEW entry, NEW value \in WordType, arg_scanfn(entry, value),
         NEW n \in Nat, arg_register_error(n)
  PROVE  GivenInv'
<1>1. errors \in 0 .. MaxErrors
  BY DEF GivenInv
<1> QED
  BY <1>1, Scans, Registers DEF GivenInv

\* What getopt reads next is a word or what is left of one, and optind is at a
\* word.
LEMMA PendingType ==
  ASSUME WordsInv, Reading
  PROVE  /\ Pending \in WordType
         /\ Pending # <<>>
         /\ Len(Pending) \in Nat \ {0}
         /\ Tail(Pending) \in WordType
         /\ optind \in 1 .. Len(nargv)
         /\ place = <<>> => IsOption(Word) /\ Word # Terminator
<1>1. /\ nargv \in Seq(WordType) /\ place \in Seq(Tokens) /\ Len(nargv) \in Nat
      /\ optind \in 1 .. Len(nargv) + 1 /\ Pending # <<>>
  BY DEF WordsInv, WordType, Reading
<1>2. CASE place # <<>>
  <2>1. Pending = place
    BY <1>2 DEF Pending
  <2>2. optind \in 1 .. Len(nargv)
    BY <1>1, <1>2 DEF WordsInv
  <2> QED
    BY <1>1, <1>2, <2>1, <2>2 DEF WordType
<1>3. CASE place = <<>>
  <2>1. /\ optind <= Len(nargv) /\ IsOption(Word) /\ Word # Terminator
        /\ Pending = Tail(Word)
    BY <1>1, <1>3 DEF Pending
  <2>2. optind \in 1 .. Len(nargv)
    BY <1>1, <2>1
  <2>3. Word \in Seq(Tokens)
    BY <1>1, <2>2 DEF Word, WordType
  <2>4. Tail(Word) \in Seq(Tokens)
    BY <2>1, <2>3 DEF IsOption
  <2>5. Pending \in Seq(Tokens)
    BY <2>1, <2>4, Zenon
  <2>6. Len(Pending) \in Nat \ {0} /\ Tail(Pending) \in Seq(Tokens)
    BY <1>1, <2>5
  <2> QED
    BY <1>1, <2>1, <2>2, <2>5, <2>6, Zenon DEF WordType
<1> QED
  BY <1>2, <1>3

\* An answer of getopt moves neither words nor blocks, and optind only forward.
LEMMA ReadingKeeps ==
  ASSUME WordsInv, BlocksInv, Reading, UNCHANGED argv,
         optind' \in optind .. Len(nargv) + 1, place' \in WordType,
         place' # <<>> => optind' = optind
  PROVE  WordsInv' /\ BlocksInv'
<1>1. /\ UNCHANGED <<nargv, nonopt_start, phase>> /\ phase = "tagged"
      /\ nonopt_end' = IF place = <<>> THEN NonoptEnd ELSE nonopt_end
  BY DEF Reading, Tagged
<1>2. /\ optind \in 1 .. Len(nargv)
      /\ place = <<>> => IsOption(Word) /\ Word # Terminator
  BY PendingType
<1>3. Len(nargv) \in Nat
  BY DEF WordsInv
<1>4. WordsInv'
  BY <1>1, <1>2, <1>3 DEF WordsInv
<1>5. nonopt_end' = nonopt_end \/
        (nonopt_start # None /\ nonopt_end' = optind /\ IsOption(Word) /\ Word # Terminator)
  BY <1>1, <1>2 DEF NonoptEnd
<1>6. optind' = optind => Word' = Word
  BY <1>1 DEF Word
<1>7. /\ nonopt_start' \in {None} \cup 1 .. Len(nargv')
      /\ nonopt_end' \in {None} \cup 1 .. Len(nargv')
      /\ nonopt_start' # None => nonopt_start' < optind'
      /\ nonopt_end' # None =>
           nonopt_start' # None /\ nonopt_start' < nonopt_end' /\ nonopt_end' <= optind'
  BY <1>1, <1>2, <1>3, <1>5 DEF BlocksInv, None
<1>8. ASSUME nonopt_end' = optind'
      PROVE  optind' <= Len(nargv') /\ IsOption(Word') /\ Word' # Terminator
  <2>1. optind' = optind
    <3>1. nonopt_end' \in Int /\ nonopt_end' <= optind
      BY <1>2, <1>3, <1>5, <1>8 DEF BlocksInv, None
    <3> QED
      BY <1>2, <1>3, <1>8, <3>1
  <2>2. Word' = Word /\ nargv' = nargv
    BY <1>1, <1>6, <2>1
  <2>3. optind <= Len(nargv) /\ IsOption(Word) /\ Word # Terminator
    BY <1>2, <1>5, <1>8, <2>1 DEF BlocksInv
  <2> QED
    BY <2>1, <2>2, <2>3
<1>9. BlocksInv'
  BY <1>7, <1>8 DEF BlocksInv
<1> QED
  BY <1>4, <1>9

\* The value in "name=value" is what follows the first "=".
LEMMA ValueTyped ==
  ASSUME NEW long \in WordType, HasValue(long)
  PROVE  ValueOf(long) \in WordType
<1> DEFINE signs == {i \in DOMAIN long : long[i] = "="}
<1>1. long \in Seq(Tokens) /\ DOMAIN long = 1 .. Len(long) /\ Len(long) \in Nat
  BY DEF WordType
<1>2. signs \in SUBSET Nat /\ signs # {}
  BY <1>1 DEF HasValue
<1>3. PICK i \in signs : \A j \in signs : i <= j
  <2> HIDE DEF signs
  <2> QED
    BY <1>2, HasLeast
<1>4. i \in DOMAIN long /\ long[i] = "=" /\ \A j \in 1 .. i - 1 : long[j] # "="
  BY <1>1, <1>3
<1>5. Equals(long) \in DOMAIN long
  BY <1>4 DEF Equals
<1>6. Equals(long) + 1 \in 1 .. Len(long) + 1
  BY <1>1, <1>5
<1>7. SubSeq(long, Equals(long) + 1, Len(long)) \in Seq(Tokens)
  BY <1>1, <1>6
<1> QED
  BY <1>7 DEF ValueOf, WordType

-----------------------------------------------------------------------------
(* The actions of getopt.                                                  *)

\* Leaving the options keeps what is said of the words.
LEMMA LeaveKeeps ==
  ASSUME LineInv, NEW last, NEW end, Leave(last, end), UNCHANGED argv,
         last \in 1 .. Len(nargv) + 1,
         end # None => Blocks(nonopt_start, end, last)
  PROVE  LineInv'
<1>1. /\ argv \in CommandLines /\ nargv \in Seq(WordType) /\ Len(nargv) \in Nat
      /\ Len(nargv) = Len(argv) /\ ToSet(nargv) = ToSet(argv)
  BY DEF LineInv, WordsInv
<1>2. /\ nonopt_start' = None /\ nonopt_end' = None /\ place' = <<>>
      /\ UNCHANGED <<given, errors>>
  BY DEF Leave
<1>3. /\ nargv' \in Seq(WordType) /\ Len(nargv') = Len(nargv)
      /\ ToSet(nargv') = ToSet(nargv) /\ optind' \in 1 .. Len(nargv) + 1
  <2>1. CASE end = None
    BY <1>1, <2>1 DEF Leave
  <2>2. CASE end # None
    <3>1. /\ nargv' = permute_args(nonopt_start, end, last, nargv)
          /\ optind' = last - (end - nonopt_start)
      BY <2>2 DEF Leave
    <3>2. optind' \in 1 .. Len(nargv) + 1
      BY <1>1, <2>2, <3>1 DEF Blocks
    <3>3. last - 1 <= Len(nargv)
      BY <1>1
    <3> QED
      BY <1>1, <2>2, <3>1, <3>2, <3>3, PermuteKeeps
  <2> QED
    BY <2>1, <2>2
<1>4. WordsInv'
  BY <1>1, <1>2, <1>3 DEF WordsInv, WordType
<1>5. BlocksInv'
  BY <1>1, <1>2, <1>3 DEF BlocksInv, None
<1>6. GivenInv'
  BY <1>2 DEF LineInv, GivenInv
<1> QED
  BY <1>4, <1>5, <1>6 DEF LineInv

\* The end of the words.
LEMMA EndOfWordsKeeps ==
  ASSUME LineInv, EndOfWords, UNCHANGED argv
  PROVE  LineInv'
<1>1. optind > Len(nargv) /\ Len(nargv) \in Nat /\ optind \in 1 .. Len(nargv) + 1
  BY DEF EndOfWords, LineInv, WordsInv
<1>2. CASE nonopt_end = None /\ nonopt_start # None
  <2>1. Leave(nonopt_start, None) /\ nonopt_start \in 1 .. Len(nargv) + 1
    BY <1>1, <1>2 DEF EndOfWords, LineInv, BlocksInv
  <2> QED
    BY <2>1, LeaveKeeps
<1>3. CASE ~(nonopt_end = None /\ nonopt_start # None)
  <2>1. Leave(optind, nonopt_end)
    BY <1>3 DEF EndOfWords
  <2>2. nonopt_end # None => Blocks(nonopt_start, nonopt_end, optind)
    BY <1>1 DEF LineInv, BlocksInv, Blocks, None
  <2> QED
    BY <1>1, <2>1, <2>2, LeaveKeeps
<1> QED
  BY <1>2, <1>3

\* The word "--".
LEMMA EndOfOptionsKeeps ==
  ASSUME LineInv, EndOfOptions, UNCHANGED argv
  PROVE  LineInv'
<1>1. optind <= Len(nargv) /\ Len(nargv) \in Nat /\ optind \in 1 .. Len(nargv) + 1
  BY DEF EndOfOptions, LineInv, WordsInv
<1>2. NonoptEnd # None => Blocks(nonopt_start, NonoptEnd, optind + 1)
  BY <1>1 DEF LineInv, BlocksInv, Blocks, None, NonoptEnd
<1>3. optind + 1 \in 1 .. Len(nargv) + 1
  BY <1>1
<1>4. Leave(optind + 1, NonoptEnd)
  BY DEF EndOfOptions
<1> QED
  BY <1>2, <1>3, <1>4, LeaveKeeps

\* An operand that ends the options.
LEMMA FirstOperandKeeps ==
  ASSUME LineInv, FirstOperand, UNCHANGED argv
  PROVE  LineInv'
<1>1. UNCHANGED <<argv, nargv, optind, place, nonopt_start, nonopt_end, given, errors>>
  BY DEF FirstOperand, getoptVars
<1>2. place = <<>>
  BY DEF FirstOperand, BetweenWords
<1>3. WordsInv'
  BY <1>1, <1>2 DEF LineInv, WordsInv
<1>4. BlocksInv'
  BY <1>1 DEF LineInv, BlocksInv, Word
<1> QED
  BY <1>1, <1>3, <1>4 DEF LineInv, GivenInv

\* An operand that is skipped.
LEMMA SkipOperandKeeps ==
  ASSUME LineInv, SkipOperand, UNCHANGED argv
  PROVE  LineInv'
<1>1. /\ argv \in CommandLines /\ nargv \in Seq(WordType) /\ Len(nargv) \in Nat
      /\ Len(nargv) = Len(argv) /\ ToSet(nargv) = ToSet(argv)
      /\ optind \in 1 .. Len(nargv)
      /\ place = <<>>
  BY DEF LineInv, WordsInv, SkipOperand, BetweenWords
<1>2. UNCHANGED <<place, phase, given, errors>> /\ ~IsOption(Word) /\ optind' = optind + 1
      /\ nonopt_end' = None
  BY DEF SkipOperand
<1>3. nonopt_end # None => Blocks(nonopt_start, nonopt_end, optind)
  BY <1>1, <1>2 DEF LineInv, BlocksInv, Blocks, None
<1>4. /\ nargv' \in Seq(WordType) /\ Len(nargv') = Len(nargv)
      /\ ToSet(nargv') = ToSet(nargv)
  <2>1. CASE nonopt_end = None
    BY <1>1, <2>1 DEF SkipOperand
  <2>2. CASE nonopt_end # None
    <3>1. nargv' = permute_args(nonopt_start, nonopt_end, optind, nargv)
      BY <2>2 DEF SkipOperand
    <3>2. optind - 1 <= Len(nargv)
      BY <1>1
    <3> QED
      BY <1>1, <1>3, <2>2, <3>1, <3>2, PermuteKeeps
  <2> QED
    BY <2>1, <2>2
<1>5. nonopt_start' \in 1 .. Len(nargv) /\ nonopt_start' < optind + 1
  <2>1. nonopt_start' = IF nonopt_start = None THEN optind
                        ELSE IF nonopt_end # None THEN optind - (nonopt_end - nonopt_start)
                        ELSE nonopt_start
    BY DEF SkipOperand
  <2> QED
    BY <1>1, <1>3, <2>1 DEF LineInv, BlocksInv, Blocks, None
<1>6. WordsInv'
  <2>1. optind' \in 1 .. Len(nargv') + 1
    BY <1>1, <1>2, <1>4
  <2>2. Len(nargv') = Len(argv') /\ ToSet(nargv') = ToSet(argv') /\ argv' \in CommandLines
    BY <1>1, <1>4
  <2>3. place' = <<>> /\ place' \in WordType
    BY <1>1, <1>2 DEF WordType
  <2> QED
    BY <1>4, <2>1, <2>2, <2>3 DEF WordsInv
<1>7. BlocksInv'
  BY <1>1, <1>2, <1>4, <1>5 DEF BlocksInv, None
<1>8. GivenInv'
  BY <1>2 DEF LineInv, GivenInv
<1> QED
  BY <1>6, <1>7, <1>8 DEF LineInv

\* The answers: every one of them reads on, adds at most one value and keeps
\* the errors in their table.
LEMMA AnswerKeeps ==
  ASSUME LineInv, UNCHANGED argv,
         \/ NamelessOption \/ BadLongOption \/ LongOptionLacksValue
         \/ parse_long_options \/ UnknownLetter \/ FlagLetter
         \/ LetterLacksValue \/ ValueLetter
  PROVE  LineInv'
<1>1. Reading
  BY DEF NamelessOption, BadLongOption, LongOptionLacksValue, parse_long_options,
     UnknownLetter, FlagLetter, LetterLacksValue, ValueLetter, ReadingLong, ReadingShort
<1>2. WordsInv /\ BlocksInv /\ GivenInv
  BY DEF LineInv
<1>3. /\ Pending \in WordType /\ Pending # <<>> /\ Rest \in WordType
      /\ Long \in WordType /\ optind \in 1 .. Len(nargv)
  BY <1>1, <1>2, PendingType DEF Rest, Long
<1>4. Len(nargv) \in Nat /\ nargv \in Seq(WordType) /\ <<>> \in WordType
  BY <1>2 DEF WordsInv, WordType
<1>5. PastLetter \in optind .. Len(nargv) + 1 /\ (Rest # <<>> => PastLetter = optind)
  BY <1>3, <1>4 DEF PastLetter
<1> DEFINE Moves == /\ optind' \in optind .. Len(nargv) + 1 /\ place' \in WordType
                    /\ place' # <<>> => optind' = optind
           Scanned == \E entry, value : \E n \in Nat :
                        /\ value \in WordType
                        /\ arg_scanfn(entry, value) /\ arg_register_error(n)
           Rejected == UNCHANGED given /\ \E n \in Nat : arg_register_error(n)
<1>6. \A entry : ScanErrors(entry) \in Nat
  BY DEF ScanErrors
<1>7. ASSUME NamelessOption PROVE Moves /\ (Scanned \/ Rejected)
  <2>1. Moves
    BY <1>3, <1>4, <1>7 DEF NamelessOption
  <2>2. Rejected
    BY <1>7 DEF NamelessOption
  <2> QED
    BY <2>1, <2>2
<1>8. ASSUME BadLongOption PROVE Moves /\ (Scanned \/ Rejected)
  <2>1. Moves
    BY <1>3, <1>4, <1>8 DEF BadLongOption, ReadingLong
  <2>2. Rejected
    BY <1>8 DEF BadLongOption
  <2> QED
    BY <2>1, <2>2
<1>9. ASSUME LongOptionLacksValue PROVE Moves /\ (Scanned \/ Rejected)
  <2>1. Moves
    BY <1>3, <1>4, <1>9 DEF LongOptionLacksValue, ReadingLong
  <2>2. Rejected
    BY <1>9 DEF LongOptionLacksValue
  <2> QED
    BY <2>1, <2>2
<1>10. ASSUME parse_long_options PROVE Moves /\ (Scanned \/ Rejected)
  <2> DEFINE fromNext == LongEntry \in Files /\ ~HasValue(Long)
             value == IF fromNext THEN nargv[optind + 1]
                      ELSE IF HasValue(Long) THEN ValueOf(Long) ELSE <<>>
             n == ScanErrors(LongEntry) + IF LongEntry \in Files /\ value = <<>> THEN 1 ELSE 0
  <2>1. fromNext => optind < Len(nargv)
    BY <1>10 DEF parse_long_options
  <2>2. optind' = (IF fromNext THEN optind + 2 ELSE optind + 1) /\ place' = <<>>
    BY <1>10 DEF parse_long_options, ReadingLong
  <2>3. Moves
    BY <1>3, <1>4, <2>1, <2>2
  <2>4. value \in WordType
    <3>1. CASE fromNext
      <4>1. optind + 1 \in 1 .. Len(nargv)
        BY <1>3, <1>4, <2>1, <3>1
      <4> QED
        BY <1>4, <3>1, <4>1
    <3>2. CASE ~fromNext /\ HasValue(Long)
      <4>1. value = ValueOf(Long)
        BY <3>2
      <4> QED
        BY <1>3, <3>2, <4>1, ValueTyped
    <3>3. CASE ~fromNext /\ ~HasValue(Long)
      BY <1>4, <3>3
    <3> QED
      BY <3>1, <3>2, <3>3
  <2>5. n \in Nat
    BY <1>6
  <2>6. arg_scanfn(LongEntry, value) /\ arg_register_error(n)
    BY <1>10 DEF parse_long_options
  <2> HIDE DEF value, n
  <2>7. Scanned
    BY <2>4, <2>5, <2>6
  <2> QED
    BY <2>3, <2>7
<1>11. ASSUME UnknownLetter PROVE Moves /\ (Scanned \/ Rejected)
  <2>1. Moves
    BY <1>3, <1>4, <1>5, <1>11 DEF UnknownLetter
  <2>2. Rejected
    BY <1>11 DEF UnknownLetter
  <2> QED
    BY <2>1, <2>2
<1>12. ASSUME FlagLetter PROVE Moves /\ (Scanned \/ Rejected)
  <2>1. Moves
    BY <1>3, <1>4, <1>5, <1>12 DEF FlagLetter
  <2>2. Scanned
    BY <1>4, <1>6, <1>12 DEF FlagLetter
  <2> QED
    BY <2>1, <2>2
<1>13. ASSUME LetterLacksValue PROVE Moves /\ (Scanned \/ Rejected)
  <2>1. Moves
    BY <1>3, <1>4, <1>13 DEF LetterLacksValue
  <2>2. Rejected
    BY <1>13 DEF LetterLacksValue
  <2> QED
    BY <2>1, <2>2
<1>14. ASSUME ValueLetter PROVE Moves /\ (Scanned \/ Rejected)
  <2>1. Moves
    BY <1>3, <1>4, <1>14 DEF ValueLetter
  <2> DEFINE value == IF Rest = <<>> THEN nargv[optind + 1] ELSE Rest
  <2>2. value \in WordType
    <3>1. CASE Rest = <<>>
      <4>1. optind + 1 \in 1 .. Len(nargv)
        BY <1>3, <1>4, <1>14, <3>1 DEF ValueLetter
      <4> QED
        BY <1>4, <3>1, <4>1
    <3> QED
      BY <1>3, <3>1
  <2>3. /\ arg_scanfn(ShortOption[Letter], value)
        /\ arg_register_error(ScanErrors(ShortOption[Letter]))
    BY <1>14 DEF ValueLetter
  <2> HIDE DEF value
  <2>4. Scanned
    BY <1>6, <2>2, <2>3
  <2> QED
    BY <2>1, <2>4
<1>15. Moves /\ (Scanned \/ Rejected)
  BY <1>7, <1>8, <1>9, <1>10, <1>11, <1>12, <1>13, <1>14
<1>16. WordsInv' /\ BlocksInv'
  BY <1>1, <1>2, <1>15, ReadingKeeps
<1>17. GivenInv'
  <2>1. CASE Scanned
    BY <1>2, <2>1, ScansGiven
  <2>2. CASE Rejected
    BY <1>2, <2>2, KeepsGiven
  <2> QED
    BY <1>15, <2>1, <2>2
<1> QED
  BY <1>16, <1>17 DEF LineInv

-----------------------------------------------------------------------------
(* The rest of the program.                                                *)

\* An operand that is scanned.
LEMMA UntaggedKeeps ==
  ASSUME LineInv, arg_parse_untagged, UNCHANGED argv
  PROVE  LineInv'
<1>1. /\ phase = "untagged" /\ optind <= Len(nargv) /\ optind' = optind + 1
      /\ arg_scanfn("inputfile", Word) /\ arg_register_error(ScanErrors("inputfile"))
      /\ UNCHANGED <<phase, nargv, place, nonopt_start, nonopt_end>>
  BY DEF arg_parse_untagged
<1>2. /\ nargv \in Seq(WordType) /\ Len(nargv) \in Nat /\ optind \in 1 .. Len(nargv)
  BY <1>1 DEF LineInv, WordsInv
<1>3. Word \in WordType /\ ScanErrors("inputfile") \in Nat
  BY <1>2 DEF Word, ScanErrors
<1>4. GivenInv'
  BY <1>1, <1>3, ScansGiven DEF LineInv
<1>5. WordsInv'
  BY <1>1, <1>2 DEF LineInv, WordsInv
<1>6. BlocksInv'
  <2>1. /\ nonopt_start \in {None} \cup 1 .. Len(nargv)
        /\ nonopt_end \in {None} \cup 1 .. Len(nargv)
        /\ nonopt_start # None => nonopt_start < optind
        /\ nonopt_end # None =>
             nonopt_start # None /\ nonopt_start < nonopt_end /\ nonopt_end <= optind
    BY DEF LineInv, BlocksInv
  <2>2. nonopt_end' # optind'
    BY <1>1, <1>2, <2>1 DEF None
  <2> QED
    BY <1>1, <1>2, <2>1, <2>2 DEF BlocksInv, None
<1> QED
  BY <1>4, <1>5, <1>6 DEF LineInv

\* The check for missing values.
LEMMA CheckKeeps ==
  ASSUME LineInv, arg_parse_check, UNCHANGED argv
  PROVE  LineInv'
<1>1. /\ phase = "untagged"
      /\ UNCHANGED <<argv, nargv, optind, place, nonopt_start, nonopt_end, given>>
      /\ arg_register_error(Cardinality(Missing)) \/ UNCHANGED errors
  BY DEF arg_parse_check, getoptVars
<1>2. Cardinality(Missing) \in Nat
  <2>1. IsFiniteSet(Entries)
    <3>1. Entries = (((({} \cup {"help"}) \cup {"version"}) \cup {"verbose"})
                      \cup {"inputfile"}) \cup {"outputfile"}
      BY DEF Entries, Flags, Files
    <3>2. IsFiniteSet({})
      BY FS_EmptySet
    <3> QED
      BY <3>1, <3>2, FS_AddElement
  <2>2. IsFiniteSet(Missing)
    BY <2>1, FS_Subset DEF Missing
  <2> QED
    BY <2>2, FS_CardinalityType
<1>3. place = <<>>
  BY <1>1 DEF LineInv, WordsInv
<1>4. WordsInv' /\ BlocksInv'
  BY <1>1, <1>3 DEF LineInv, WordsInv, BlocksInv, Word
<1>5. GivenInv'
  BY <1>1, <1>2, KeepsGiven DEF LineInv, GivenInv
<1> QED
  BY <1>4, <1>5 DEF LineInv

\* Once the command line has been read nobody touches it.
LEMMA LineStays ==
  ASSUME LineInv, phase # "tagged",
         UNCHANGED <<argv, nargv, optind, place, nonopt_start, nonopt_end, given, errors>>
  PROVE  LineInv'
<1>1. place = <<>>
  BY DEF LineInv, WordsInv
<1> QED
  BY <1>1 DEF LineInv, WordsInv, BlocksInv, GivenInv, Word

\* Every step of the program.
LEMMA LineNext == LineInv /\ [Next]_vars => LineInv'
<1> SUFFICES ASSUME LineInv, [Next]_vars PROVE LineInv'
  OBVIOUS
<1>1. CASE CommandNext
  <2>1. UNCHANGED argv
    BY <1>1 DEF CommandNext
  <2>2. CASE getopt_internal
    BY <2>1, <2>2, EndOfWordsKeeps, FirstOperandKeeps, SkipOperandKeeps, EndOfOptionsKeeps,
       AnswerKeeps DEF getopt_internal
  <2>3. CASE arg_parse_untagged
    BY <2>1, <2>3, UntaggedKeeps
  <2>4. CASE arg_parse_check
    BY <2>1, <2>4, CheckKeeps
  <2>5. CASE parse_cmdargs
    <3>1. phase = "parsed" /\ UNCHANGED <<getoptVars, given, errors>>
      BY <2>5 DEF parse_cmdargs
    <3> QED
      BY <2>1, <3>1, LineStays DEF getoptVars
  <2> QED
    BY <1>1, <2>2, <2>3, <2>4, <2>5 DEF CommandNext, arg_parse
<1>2. CASE main
  <2>1. UNCHANGED <<argv, getoptVars, given, errors>>
    BY <1>2 DEF main
  <2>2. phase # "tagged"
    BY <1>2 DEF main, open_files, OpenTempfile, OpenInput, OpenStdout, OpenOutput,
       parse_file, AllocateBuffer, copy_files, closefiles, At
  <2> QED
    BY <2>1, <2>2, LineStays DEF getoptVars
<1>3. CASE FillDisk
  BY <1>3, LineStays DEF FillDisk, commandVars, getoptVars
<1>4. CASE UNCHANGED vars
  BY <1>4 DEF vars, commandVars, getoptVars, LineInv, WordsInv, BlocksInv, GivenInv, Word
<1> QED
  BY <1>1, <1>2, <1>3, <1>4 DEF Next

\* What is left to say: the process, the environment and the disk.
RestInv ==
    /\ ProcessTypeOK
    /\ posixly_correct \in BOOLEAN
    /\ disk \in {"free", "full"}

\* Every step of the program.
LEMMA RestNext == CostInv /\ RestInv /\ [Next]_vars => RestInv'
<1> SUFFICES ASSUME CostInv, RestInv, [Next]_vars PROVE RestInv'
  OBVIOUS
<1> USE DEF RestInv, ProcessTypeOK, Diagnostic, Levels, ErrorIds, CommandPhases, Opening,
            Running
<1>1. CASE CommandNext /\ UNCHANGED fileVars
  <2>1. /\ phase \in CommandPhases /\ phase' \in CommandPhases \cup {"tmpfile"}
        /\ UNCHANGED <<posixly_correct, logged, disk>>
    BY <1>1, CommandStep DEF fileVars
  <2>2. status' \in {"running", "success", "failure", "crash"}
    BY <1>1 DEF CommandNext, parse_cmdargs
  <2> QED
    BY <2>1, <2>2
<1>2. CASE main
  <2>1. UNCHANGED <<posixly_correct, disk>>
    BY <1>2 DEF main
  <2> USE DEF At, Proceed, processVars, Fail, Logger, Fatal
  <2>2. CASE open_files
    BY <2>1, <2>2 DEF open_files, OpenTempfile, OpenInput, OpenStdout, OpenOutput
  <2>3. CASE parse_file
    BY <2>1, <2>3 DEF parse_file, ObjectWritten, ReadingStopped, SourceRefused,
       ParserCrash, Die, Fault
  <2>4. CASE AllocateBuffer
    BY <2>1, <2>4 DEF AllocateBuffer, Die
  <2>5. CASE copy_files
    BY <2>1, <2>5 DEF copy_files
  <2>6. CASE closefiles
    BY <2>1, <2>6 DEF closefiles, CleanExit
  <2> QED
    BY <1>2, <2>2, <2>3, <2>4, <2>5, <2>6 DEF main
<1>3. CASE FillDisk
  BY <1>3 DEF FillDisk, processVars, commandVars
<1>4. CASE UNCHANGED vars
  BY <1>4 DEF vars, fileVars, commandVars, processVars
<1> QED
  BY <1>1, <1>2, <1>3, <1>4 DEF Next

\* Type correctness of the whole program: getopt loses no word of the command
\* line however often it permutes its copy, optind stays within it, the values
\* and the errors stay within their tables, and the copy within the temporary
\* file, for every command line.
THEOREM DriverTypes == Spec => []TypeOK
<1>1. Init => RestInv /\ DeliverInv
  BY DEF Init, ProcessInit, CommandInit, RestInv, ProcessTypeOK, DeliverInv, Copying
<1>2. CostInv /\ DeliverInv /\ LineInv /\ RestInv => TypeOK
  <2> SUFFICES ASSUME CostInv, DeliverInv, LineInv, RestInv PROVE TypeOK
    OBVIOUS
  <2>1. CommandTypeOK
    <3>1. phase \in {"tagged", "untagged", "parsed", "tmpfile", "input", "output",
                     "parse", "buffer", "copy", "close"}
      BY DEF CostInv, CommandPhases, Opening, Assembling, Copying
    <3>2. /\ Len(nargv) = Len(argv) /\ ToSet(nargv) = ToSet(argv)
          /\ optind \in 1 .. Len(argv) + 1
      BY DEF LineInv, WordsInv
    <3>3. /\ nonopt_start \in {None} \cup 1 .. Len(argv)
          /\ nonopt_end \in {None} \cup 1 .. Len(argv)
      BY <3>2 DEF LineInv, BlocksInv
    <3> QED
      BY <3>1, <3>2, <3>3 DEF CommandTypeOK, RestInv, LineInv, GivenInv
  <2>2. DOMAIN before \subseteq DOMAIN files /\ output \in DOMAIN files
    <3>1. before \in FileSystems => Stdout \in DOMAIN before
      BY DriverAssumption
    <3>2. CASE phase \in Copying
      BY <3>2 DEF DeliverInv, Holds
    <3>3. CASE phase \in Assembling
      BY <3>3 DEF CostInv, OnlyEmptied, Emptied
    <3>4. CASE phase \in CommandPhases \cup Opening
      BY <3>1, <3>4 DEF CostInv
    <3> QED
      BY <3>2, <3>3, <3>4 DEF CostInv
  <2>3. pos <= Len(tempfile)
    <3>1. CASE phase \in Copying
      BY <3>1 DEF DeliverInv, Holds
    <3>2. CASE phase = "buffer"
      BY <3>2 DEF DeliverInv, Holds, Copying, Begins
    <3>3. CASE phase \notin Copying \cup {"buffer"}
      <4>1. tempfile = <<>> /\ pos = 0
        BY <3>3 DEF DeliverInv
      <4> QED
        BY <4>1
    <3> QED
      BY <3>1, <3>2, <3>3
  <2> QED
    BY <2>1, <2>2, <2>3 DEF TypeOK, RestInv
<1> QED
  BY <1>1, <1>2, LineInit, LineNext, CostAlways, DeliverNext, RestNext, PTL DEF Spec

-----------------------------------------------------------------------------
(* The order of the words.                                                 *)

\* The operands skipped so far.
Skipped ==
    IF nonopt_start = None THEN {}
    ELSE nonopt_start .. (IF nonopt_end = None THEN optind ELSE nonopt_end) - 1

\* Only words in front of optind have been moved, the operands among them are
\* in order, and so are the others.
Sorted(q) ==
    /\ \A i \in Places : i < optind => q[i] < optind
    /\ \A i \in Places : optind <= i => q[i] = i
    /\ InOrder(q, Skipped)
    /\ InOrder(q, Places \ Skipped)

OrderInv ==
    phase = "tagged" =>
        /\ posixly_correct => nonopt_start = None
        /\ place # <<>> => nonopt_start = None \/ nonopt_end # None
        /\ \E q : Rearranges(q) /\ Sorted(q)

\* Exchanging a block of operands with the options behind it.
SortedTo(q, n, o, S) ==
    /\ q \in [1 .. n -> 1 .. n]
    /\ \A i, j \in 1 .. n : q[i] = q[j] => i = j
    /\ \A i \in 1 .. n : i < o => q[i] < o
    /\ \A i \in 1 .. n : o <= i => q[i] = i
    /\ InOrder(q, S)
    /\ InOrder(q, 1 .. n \ S)

\* Different places come from different places.
LEMMA BeforeApart ==
  ASSUME NEW s, NEW e, NEW o, Blocks(s, e, o),
         NEW i \in s .. o - 1, NEW j \in s .. o - 1,
         Before(s, e, o, i) = Before(s, e, o, j)
  PROVE  i = j
  BY DEF Blocks, Before

\* The exchange keeps the order on both sides.
LEMMA ExchangeSorts ==
  ASSUME NEW n \in Nat, NEW s, NEW e, NEW o, Blocks(s, e, o), o <= n + 1,
         NEW q, SortedTo(q, n, o, s .. e - 1)
  PROVE  SortedTo(Exchanged(s, e, o, q), n, o, s + (o - e) .. o - 1)
<1> DEFINE p == Exchanged(s, e, o, q)
           B(i) == Before(s, e, o, i)
           f == s + (o - e)
<1>1. /\ s \in Nat \ {0} /\ e \in Nat /\ o \in Nat /\ s < e /\ e < o /\ o <= n + 1
      /\ f \in Nat /\ s < f /\ f < o
  BY DEF Blocks
<1>2. /\ q \in [1 .. n -> 1 .. n]
      /\ \A i, j \in 1 .. n : q[i] = q[j] => i = j
      /\ \A i \in 1 .. n : i < o => q[i] < o
      /\ \A i \in 1 .. n : o <= i => q[i] = i
      /\ \A i, j \in s .. e - 1 : i < j => q[i] < q[j]
      /\ \A i, j \in 1 .. n \ (s .. e - 1) : i < j => q[i] < q[j]
  BY DEF SortedTo, InOrder
<1>3. p = [i \in 1 .. n |-> IF i \in s .. o - 1 THEN q[B(i)] ELSE q[i]]
  BY <1>2 DEF Exchanged
<1>4. \A i \in s .. o - 1 : B(i) \in s .. o - 1
  BY BeforeInside
<1>5. /\ \A i \in s .. f - 1 : B(i) = i + (e - s)
      /\ \A i \in f .. o - 1 : B(i) = i - (o - e)
  BY <1>1 DEF Before
<1>6. \A i, j \in s .. o - 1 : B(i) = B(j) => i = j
  BY BeforeApart
<1> HIDE DEF p, B, f
<1>0. \A i \in s .. o - 1 : i \in 1 .. n /\ i < o
  BY <1>1
<1>7. \A i \in s .. o - 1 : B(i) \in 1 .. n /\ B(i) < o
  BY <1>0, <1>4
<1>8. \A i \in 1 .. n : i \in s .. o - 1 => p[i] = q[B(i)]
  BY <1>3
<1>9. \A i \in 1 .. n : i \notin s .. o - 1 => p[i] = q[i]
  BY <1>3
<1>16. p \in [1 .. n -> 1 .. n]
  <2>1. \A i \in 1 .. n : p[i] \in 1 .. n
    BY <1>2, <1>7, <1>8, <1>9
  <2> QED
    BY <1>3, <2>1
<1>10. ASSUME NEW i \in 1 .. n, NEW j \in 1 .. n, p[i] = p[j] PROVE i = j
  <2>1. CASE i \in s .. o - 1 /\ j \in s .. o - 1
    <3>1. B(i) = B(j)
      BY <1>2, <1>7, <1>8, <1>10, <2>1
    <3> QED
      BY <1>6, <2>1, <3>1
  <2>2. CASE i \in s .. o - 1 /\ j \notin s .. o - 1
    <3>1. q[B(i)] = q[j] /\ B(i) \in 1 .. n
      BY <1>7, <1>8, <1>9, <1>10, <2>2
    <3>2. B(i) = j
      BY <1>2, <3>1
    <3> QED
      BY <1>4, <2>2, <3>2
  <2>3. CASE i \notin s .. o - 1 /\ j \in s .. o - 1
    <3>1. B(j) = i
      BY <1>2, <1>7, <1>8, <1>9, <1>10, <2>3
    <3> QED
      BY <1>4, <2>3, <3>1
  <2>4. CASE i \notin s .. o - 1 /\ j \notin s .. o - 1
    BY <1>2, <1>9, <1>10, <2>4
  <2> QED
    BY <2>1, <2>2, <2>3, <2>4
<1>11. ASSUME NEW i \in 1 .. n, i < o PROVE p[i] < o
  <2>1. CASE i \in s .. o - 1
    BY <1>2, <1>7, <1>8, <2>1
  <2>2. CASE i \notin s .. o - 1
    BY <1>2, <1>9, <1>11, <2>2
  <2> QED
    BY <2>1, <2>2
<1>12. \A i \in 1 .. n : o <= i => p[i] = i
  <2> SUFFICES ASSUME NEW i \in 1 .. n, o <= i PROVE p[i] = i
    OBVIOUS
  <2>1. i \notin s .. o - 1
    BY <1>1
  <2> QED
    BY <1>2, <1>9, <2>1
<1>13. \A i, j \in f .. o - 1 : i < j => p[i] < p[j]
  <2> SUFFICES ASSUME NEW i \in f .. o - 1, NEW j \in f .. o - 1, i < j
               PROVE  p[i] < p[j]
    OBVIOUS
  <2>1. /\ i \in s .. o - 1 /\ i \in 1 .. n /\ j \in s .. o - 1 /\ j \in 1 .. n
    BY <1>1
  <2>2. /\ B(i) = i - (o - e) /\ B(j) = j - (o - e)
    BY <1>5
  <2>3. B(i) \in s .. e - 1 /\ B(j) \in s .. e - 1 /\ B(i) < B(j)
    BY <1>1, <2>2 DEF f
  <2> QED
    BY <1>2, <1>8, <2>1, <2>3
<1>14. \A i, j \in 1 .. n \ (f .. o - 1) : i < j => p[i] < p[j]
  <2> SUFFICES ASSUME NEW i \in 1 .. n \ (f .. o - 1), NEW j \in 1 .. n \ (f .. o - 1), i < j
               PROVE  p[i] < p[j]
    OBVIOUS
  <2> DEFINE C(k) == IF k \in s .. f - 1 THEN k + (e - s) ELSE k
  <2>1. \A k \in 1 .. n \ (f .. o - 1) : p[k] = q[C(k)] /\ C(k) \in 1 .. n \ (s .. e - 1)
    <3> SUFFICES ASSUME NEW k \in 1 .. n \ (f .. o - 1)
                 PROVE  p[k] = q[C(k)] /\ C(k) \in 1 .. n \ (s .. e - 1)
      OBVIOUS
    <3>1. CASE k \in s .. f - 1
      <4>1. k \in s .. o - 1 /\ k \in 1 .. n
        BY <1>1, <3>1
      <4>2. p[k] = q[B(k)] /\ B(k) = k + (e - s)
        BY <1>5, <1>8, <3>1, <4>1
      <4>3. k + (e - s) \in 1 .. n \ (s .. e - 1)
        BY <1>1, <3>1 DEF f
      <4> QED
        BY <3>1, <4>2, <4>3
    <3>2. CASE k \notin s .. f - 1
      <4>1. k \notin s .. o - 1
        BY <1>1, <3>2
      <4> QED
        BY <1>1, <1>9, <3>2, <4>1
    <3> QED
      BY <3>1, <3>2
  <2>2. C(i) < C(j)
    BY <1>1 DEF f
  <2> HIDE DEF C
  <2> QED
    BY <1>2, <2>1, <2>2
<1>15. SortedTo(p, n, o, f .. o - 1)
  BY <1>16, <1>10, <1>11, <1>12, <1>13, <1>14 DEF SortedTo, InOrder
<1> QED
  BY <1>15 DEF p, f

\* Rearranging nargv further rearranges argv.
LEMMA RearrangesExchanged ==
  ASSUME WordsInv, NEW q, Rearranges(q), NEW s, NEW e, NEW o, Blocks(s, e, o),
         o <= Len(argv) + 1
  PROVE  permute_args(s, e, o, nargv)
            = [i \in Places |-> argv[Exchanged(s, e, o, q)[i]]]
<1>1. /\ Len(argv) \in Nat /\ nargv = [i \in Places |-> argv[q[i]]]
      /\ q \in [Places -> Places]
  <2>1. Len(argv) \in Nat
    BY DEF WordsInv
  <2> QED
    BY <2>1 DEF Rearranges
<1>2. nargv \in [Places -> WordType]
  BY <1>1 DEF WordsInv, Places
<1>3. s .. o - 1 \subseteq Places
  BY <1>1 DEF Blocks, Places
<1>4. permute_args(s, e, o, nargv) = Exchanged(s, e, o, nargv)
  BY <1>2, <1>3, PermuteDone
<1>5. \A i \in s .. o - 1 : Before(s, e, o, i) \in Places
  BY <1>3, BeforeInside
<1>6. DOMAIN nargv = Places /\ DOMAIN q = Places
  BY <1>1
<1>7. Exchanged(s, e, o, nargv) = [i \in Places |->
          IF i \in s .. o - 1 THEN nargv[Before(s, e, o, i)] ELSE nargv[i]]
  BY <1>6 DEF Exchanged
<1>8. \A i \in Places : Exchanged(s, e, o, q)[i] =
          IF i \in s .. o - 1 THEN q[Before(s, e, o, i)] ELSE q[i]
  BY <1>6 DEF Exchanged
<1>9. \A i \in Places : nargv[i] = argv[q[i]]
  BY <1>1
<1>10. \A i \in Places :
          (IF i \in s .. o - 1 THEN nargv[Before(s, e, o, i)] ELSE nargv[i])
            = argv[Exchanged(s, e, o, q)[i]]
  BY <1>5, <1>8, <1>9
<1> QED
  BY <1>4, <1>7, <1>10

\* permute_args sends the operands skipped behind the options that follow them
\* and sorts the words in doing so.
LEMMA PermuteSorts ==
  ASSUME WordsInv, NEW q, Rearranges(q), NEW s, NEW e, NEW o, Blocks(s, e, o),
         o <= Len(argv) + 1, SortedTo(q, Len(argv), o, s .. e - 1),
         UNCHANGED argv, nargv' = permute_args(s, e, o, nargv)
  PROVE  \E p : /\ Rearranges(p)'
                /\ SortedTo(p, Len(argv), o, s + (o - e) .. o - 1)
<1> DEFINE p == Exchanged(s, e, o, q)
<1>1. Len(argv) \in Nat
  BY DEF WordsInv
<1>2. SortedTo(p, Len(argv), o, s + (o - e) .. o - 1)
  BY <1>1, ExchangeSorts
<1>3. nargv' = [i \in Places |-> argv[p[i]]]
  BY RearrangesExchanged
<1> HIDE DEF p
<1>4. Places' = Places
  BY DEF Places
<1>5. Rearranges(p)'
  BY <1>2, <1>3, <1>4 DEF Rearranges, SortedTo, Places
<1> QED
  BY <1>2, <1>5

-----------------------------------------------------------------------------
(* The order while getopt reads.                                           *)

\* The part of BlocksInv that speaks of numbers.
LEMMA BlockPlaces ==
  ASSUME LineInv
  PROVE  /\ Len(argv) \in Nat /\ Len(nargv) = Len(argv)
         /\ optind \in 1 .. Len(argv) + 1
         /\ nonopt_start = None \/ nonopt_start \in 1 .. optind - 1
         /\ \/ nonopt_end = None
            \/ /\ nonopt_start # None /\ nonopt_end \in nonopt_start + 1 .. optind
               /\ nonopt_end \in Nat
<1>1. /\ nargv \in Seq(WordType) /\ Len(nargv) = Len(argv)
      /\ optind \in 1 .. Len(nargv) + 1
  BY DEF LineInv, WordsInv
<1>2. /\ nonopt_start \in {None} \cup 1 .. Len(nargv)
      /\ nonopt_end \in {None} \cup 1 .. Len(nargv)
      /\ nonopt_start # None => nonopt_start < optind
      /\ nonopt_end # None =>
           nonopt_start # None /\ nonopt_start < nonopt_end /\ nonopt_end <= optind
  BY DEF LineInv, BlocksInv
<1> QED
  BY <1>1, <1>2 DEF None

\* A step that moves optind forward and leaves the words and the operands
\* skipped where they are.
LEMMA SortedOnwards ==
  ASSUME NEW q, Rearranges(q), Sorted(q), Len(argv) \in Nat,
         optind \in 1 .. Len(argv) + 1, optind' \in optind .. Len(argv) + 1,
         UNCHANGED <<argv, nargv>>, Skipped' = Skipped
  PROVE  Rearranges(q)' /\ Sorted(q)'
<1>1. Rearranges(q)' /\ Places' = Places
  BY DEF Rearranges, Places
<1>2. /\ q \in [Places -> Places]
      /\ \A i \in Places : i < optind => q[i] < optind
      /\ \A i \in Places : optind <= i => q[i] = i
  BY DEF Rearranges, Sorted
<1>3. \A i \in Places : i \in Int /\ q[i] \in Int
  BY <1>2 DEF Places
<1>4. \A i \in Places : i < optind' => q[i] < optind'
  <2> SUFFICES ASSUME NEW i \in Places, i < optind' PROVE q[i] < optind'
    OBVIOUS
  <2>1. CASE i < optind
    BY <1>2, <1>3, <2>1
  <2>2. CASE ~(i < optind)
    BY <1>2, <1>3, <2>2
  <2> QED
    BY <2>1, <2>2
<1>5. \A i \in Places : optind' <= i => q[i] = i
  BY <1>2, <1>3
<1>6. InOrder(q, Skipped') /\ InOrder(q, Places' \ Skipped')
  BY <1>1 DEF Sorted
<1> QED
  BY <1>1, <1>4, <1>5, <1>6 DEF Sorted

\* A word read as an option leaves the operands skipped what they are.
LEMMA ReadingSkips ==
  ASSUME LineInv, Reading, place # <<>> => nonopt_start = None \/ nonopt_end # None
  PROVE  Skipped' = Skipped
<1>1. /\ nonopt_start' = nonopt_start
      /\ nonopt_end' = IF place = <<>> THEN NonoptEnd ELSE nonopt_end
      /\ optind \in 1 .. Len(nargv)
  BY PendingType DEF Reading, LineInv
<1>2. CASE nonopt_start = None
  BY <1>1, <1>2 DEF Skipped
<1>3. CASE nonopt_start # None /\ nonopt_end # None
  BY <1>1, <1>3 DEF Skipped, NonoptEnd
<1>4. CASE nonopt_start # None /\ nonopt_end = None /\ place = <<>>
  <2>1. nonopt_end' = optind /\ optind # None
    BY <1>1, <1>4 DEF NonoptEnd, None
  <2> QED
    BY <1>1, <1>4, <2>1 DEF Skipped
<1> QED
  BY <1>2, <1>3, <1>4

\* At the start nothing has been moved.
LEMMA OrderInit == Init => OrderInv
<1> SUFFICES ASSUME Init PROVE OrderInv
  OBVIOUS
<1>1. /\ argv \in CommandLines /\ nargv = argv /\ optind = 1 /\ place = <<>>
      /\ nonopt_start = None
  BY DEF Init, CommandInit
<1>2. argv \in Seq(WordType) /\ Len(argv) \in Nat
  BY <1>1, LineTyped
<1> DEFINE q == [i \in Places |-> i]
<1>3. Rearranges(q)
  <2>1. \A i \in Places : argv[q[i]] = argv[i]
    OBVIOUS
  <2>2. argv = [i \in Places |-> argv[i]]
    BY <1>2 DEF Places
  <2> QED
    BY <1>1, <2>1, <2>2 DEF Rearranges
<1>4. Sorted(q)
  <2>1. \A i \in Places : i \in Int /\ 1 <= i
    BY <1>2 DEF Places
  <2>2. Skipped = {}
    BY <1>1 DEF Skipped
  <2> QED
    BY <1>1, <2>1, <2>2 DEF Sorted, InOrder
<1> HIDE DEF q
<1> QED
  BY <1>1, <1>3, <1>4 DEF OrderInv

\* Every answer of getopt.
LEMMA AnswerSorts ==
  ASSUME LineInv, LineInv', OrderInv, UNCHANGED <<argv, posixly_correct>>,
         \/ NamelessOption \/ BadLongOption \/ LongOptionLacksValue
         \/ parse_long_options \/ UnknownLetter \/ FlagLetter
         \/ LetterLacksValue \/ ValueLetter
  PROVE  OrderInv'
<1>1. Reading
  BY DEF NamelessOption, BadLongOption, LongOptionLacksValue, parse_long_options,
     UnknownLetter, FlagLetter, LetterLacksValue, ValueLetter, ReadingLong, ReadingShort
<1>2. /\ phase = "tagged" /\ UNCHANGED <<nargv, nonopt_start, phase>>
      /\ nonopt_end' = IF place = <<>> THEN NonoptEnd ELSE nonopt_end
  BY <1>1 DEF Reading, Tagged
<1>3. /\ posixly_correct => nonopt_start = None
      /\ place # <<>> => nonopt_start = None \/ nonopt_end # None
  BY <1>2 DEF OrderInv
<1>4. PICK q : Rearranges(q) /\ Sorted(q)
  BY <1>2 DEF OrderInv
<1>5. /\ Len(argv) \in Nat /\ optind \in 1 .. Len(argv) + 1
      /\ optind' \in 1 .. Len(argv) + 1 /\ Len(nargv) = Len(argv)
  <2>1. optind' \in 1 .. Len(argv') + 1
    BY DEF LineInv, WordsInv
  <2> QED
    BY <2>1, BlockPlaces
<1>6. optind <= optind'
  <2>1. optind \in Int
    BY <1>5
  <2>2. optind' = optind \/ optind' = optind + 1 \/ optind' = optind + 2
    BY DEF NamelessOption, BadLongOption, LongOptionLacksValue, parse_long_options,
       UnknownLetter, FlagLetter, LetterLacksValue, ValueLetter, PastLetter
  <2> QED
    BY <2>1, <2>2
<1>7. Skipped' = Skipped
  BY <1>1, <1>3, ReadingSkips
<1>8. Rearranges(q)' /\ Sorted(q)'
  <2>1. optind' \in optind .. Len(argv) + 1
    BY <1>5, <1>6
  <2> QED
    BY <1>2, <1>4, <1>5, <1>7, <2>1, SortedOnwards
<1>9. nonopt_start' = None \/ nonopt_end' # None
  <2>1. optind # None
    BY <1>5 DEF None
  <2> QED
    BY <1>2, <1>3, <2>1 DEF NonoptEnd
<1> QED
  BY <1>2, <1>3, <1>8, <1>9 DEF OrderInv

\* An operand skipped, with those before it sent behind the options between.
LEMMA SkipSorts ==
  ASSUME LineInv, OrderInv, SkipOperand, UNCHANGED <<argv, posixly_correct>>
  PROVE  OrderInv'
<1> DEFINE n == Len(argv)
<1>1. /\ phase = "tagged" /\ place = <<>> /\ ~IsOption(Word) /\ ~posixly_correct
      /\ UNCHANGED <<place, phase>> /\ nonopt_end' = None /\ optind' = optind + 1
      /\ optind <= Len(nargv)
  BY DEF SkipOperand, BetweenWords, Tagged
<1>2. /\ n \in Nat /\ Len(nargv) = n /\ optind \in 1 .. n
      /\ nonopt_start = None \/ nonopt_start \in 1 .. optind - 1
      /\ \/ nonopt_end = None
         \/ /\ nonopt_start # None /\ nonopt_end \in nonopt_start + 1 .. optind
            /\ nonopt_end \in Nat
  BY <1>1, BlockPlaces
<1>3. PICK q : Rearranges(q) /\ Sorted(q)
  BY <1>1 DEF OrderInv
<1>4. /\ q \in [1 .. n -> 1 .. n]
      /\ \A i, j \in 1 .. n : q[i] = q[j] => i = j
      /\ nargv = [i \in 1 .. n |-> argv[q[i]]]
      /\ \A i \in 1 .. n : i < optind => q[i] < optind
      /\ \A i \in 1 .. n : optind <= i => q[i] = i
      /\ InOrder(q, Skipped) /\ InOrder(q, 1 .. n \ Skipped)
  BY <1>3 DEF Rearranges, Sorted, Places
<1>5. \A S, p : /\ S \in SUBSET (1 .. optind - 1)
                /\ SortedTo(p, n, optind, S)
                => /\ \A i \in 1 .. n : i < optind + 1 => p[i] < optind + 1
                   /\ \A i \in 1 .. n : optind + 1 <= i => p[i] = i
                   /\ InOrder(p, S \cup {optind})
                   /\ InOrder(p, 1 .. n \ (S \cup {optind}))
  <2> SUFFICES ASSUME NEW S \in SUBSET (1 .. optind - 1), NEW p, SortedTo(p, n, optind, S)
               PROVE  /\ \A i \in 1 .. n : i < optind + 1 => p[i] < optind + 1
                      /\ \A i \in 1 .. n : optind + 1 <= i => p[i] = i
                      /\ InOrder(p, S \cup {optind})
                      /\ InOrder(p, 1 .. n \ (S \cup {optind}))
    OBVIOUS
  <2>1. /\ p \in [1 .. n -> 1 .. n]
        /\ \A i \in 1 .. n : i < optind => p[i] < optind
        /\ \A i \in 1 .. n : optind <= i => p[i] = i
    BY DEF SortedTo
  <2>2. \A i \in 1 .. n : i \in Int /\ p[i] \in Int
    BY <1>2, <2>1
  <2>3. p[optind] = optind
    BY <1>2, <2>1
  <2>4. InOrder(p, S \cup {optind})
    <3> SUFFICES ASSUME NEW i \in S \cup {optind}, NEW j \in S \cup {optind}, i < j
                 PROVE  p[i] < p[j]
      BY DEF InOrder
    <3>1. i \in S
      BY <1>2
    <3>2. CASE j \in S
      BY <3>1, <3>2 DEF SortedTo, InOrder
    <3>3. CASE j = optind
      BY <1>2, <2>1, <2>3, <3>1, <3>3
    <3> QED
      BY <3>2, <3>3
  <2>5. InOrder(p, 1 .. n \ (S \cup {optind}))
    BY DEF SortedTo, InOrder
  <2> QED
    BY <1>2, <2>1, <2>2, <2>3, <2>4, <2>5
<1> SUFFICES \E p : Rearranges(p)' /\ Sorted(p)'
  BY <1>1 DEF OrderInv
<1>6. Places' = 1 .. n /\ optind # None
  BY <1>2 DEF Places, None
<1>7. CASE nonopt_end = None
  <2>1. nargv' = nargv
    BY <1>7 DEF SkipOperand
  <2>2. nonopt_start' = IF nonopt_start = None THEN optind ELSE nonopt_start
    BY <1>7 DEF SkipOperand
  <2>3. Skipped' = Skipped \cup {optind} /\ Skipped \in SUBSET (1 .. optind - 1)
    BY <1>1, <1>2, <1>6, <1>7, <2>2 DEF Skipped, None
  <2>4. SortedTo(q, n, optind, Skipped)
    BY <1>4 DEF SortedTo
  <2>5. Sorted(q)'
    BY <1>1, <1>5, <1>6, <2>3, <2>4 DEF Sorted
  <2>6. Rearranges(q)'
    BY <1>4, <1>6, <2>1 DEF Rearranges
  <2> QED
    BY <2>5, <2>6
<1>8. CASE nonopt_end # None
  <2> DEFINE s == nonopt_start
             e == nonopt_end
             f == s + (optind - e)
  <2>1. e # optind
    BY <1>1 DEF LineInv, BlocksInv
  <2>2. Blocks(s, e, optind) /\ s # None /\ f \in 1 .. optind - 1
    BY <1>2, <1>8, <2>1 DEF Blocks, None
  <2>3. /\ nargv' = permute_args(s, e, optind, nargv)
        /\ nonopt_start' = optind - (e - s)
    BY <1>8, <2>2 DEF SkipOperand
  <2>4. Skipped = s .. e - 1
    BY <1>8, <2>2 DEF Skipped
  <2>5. SortedTo(q, n, optind, s .. e - 1)
    BY <1>4, <2>4 DEF SortedTo
  <2>6. WordsInv /\ optind <= n + 1
    BY <1>2 DEF LineInv
  <2> HIDE DEF n
  <2>7. PICK p : Rearranges(p)' /\ SortedTo(p, n, optind, f .. optind - 1)
    <3> HIDE DEF s, e, f
    <3> QED
      BY <1>3, <2>2, <2>3, <2>5, <2>6, PermuteSorts DEF n, f
  <2>8. Skipped' = (f .. optind - 1) \cup {optind}
    <3>1. optind - (e - s) = f /\ f # None
      BY <1>2, <2>2 DEF Blocks, None
    <3> QED
      BY <1>1, <1>2, <2>2, <2>3, <3>1 DEF Skipped
  <2>9. f .. optind - 1 \in SUBSET (1 .. optind - 1)
    BY <1>2, <2>2
  <2>10. Sorted(p)'
    BY <1>1, <1>5, <1>6, <2>7, <2>8, <2>9 DEF Sorted
  <2> QED
    BY <2>7, <2>10
<1> QED
  BY <1>7, <1>8

-----------------------------------------------------------------------------
(* The order when getopt returns -1.                                       *)

Returned ==
    \E q \in [Places -> Places] :
        /\ InOrder(q, 1 .. optind' - 1)
        /\ InOrder(q, optind' .. Len(argv))
        /\ Rearranges(q)'

\* Nothing is moved any more: the operands are the words behind optind already.
LEMMA ReturnedPlain ==
  ASSUME NEW q, Rearranges(q), UNCHANGED <<argv, nargv>>,
         InOrder(q, 1 .. optind' - 1), InOrder(q, optind' .. Len(argv))
  PROVE  Returned
<1>1. Places' = Places /\ q \in [Places -> Places]
  BY DEF Places, Rearranges
<1>2. Rearranges(q)'
  BY <1>1 DEF Rearranges
<1> QED
  BY <1>1, <1>2 DEF Returned

\* The operands skipped are sent behind the options up to "last".
LEMMA ReturnedBlock ==
  ASSUME WordsInv, NEW q, Rearranges(q), UNCHANGED argv,
         NEW end, NEW last, Leave(last, end), end # None,
         Blocks(nonopt_start, end, last), last <= Len(argv) + 1,
         SortedTo(q, Len(argv), last, nonopt_start .. end - 1)
  PROVE  Returned
<1> DEFINE s == nonopt_start
           n == Len(argv)
           f == s + (last - end)
<1>1. nargv' = permute_args(s, end, last, nargv) /\ optind' = last - (end - s)
  BY DEF Leave
<1>2. PICK p : Rearranges(p)' /\ SortedTo(p, n, last, f .. last - 1)
  <2> HIDE DEF s
  <2>1. Blocks(s, end, last) /\ SortedTo(q, Len(argv), last, s .. end - 1)
    BY DEF s
  <2> QED
    BY <1>1, <2>1, PermuteSorts DEF n, f
<1>3. /\ n \in Nat /\ last \in Nat /\ last <= n + 1 /\ f \in 1 .. last - 1
      /\ optind' = f
  <2>1. n \in Nat
    BY DEF WordsInv
  <2> QED
    BY <1>1, <2>1 DEF Blocks
<1> HIDE DEF n, f, s
<1>4. /\ p \in [1 .. n -> 1 .. n]
      /\ \A i \in 1 .. n : i < last => p[i] < last
      /\ \A i \in 1 .. n : last <= i => p[i] = i
      /\ \A i, j \in f .. last - 1 : i < j => p[i] < p[j]
      /\ \A i, j \in 1 .. n \ (f .. last - 1) : i < j => p[i] < p[j]
  BY <1>2 DEF SortedTo, InOrder
<1>5. InOrder(p, 1 .. f - 1)
  <2>1. 1 .. f - 1 \subseteq 1 .. n \ (f .. last - 1)
    BY <1>3
  <2> QED
    BY <1>4, <2>1 DEF InOrder
<1>6. InOrder(p, f .. n)
  <2> SUFFICES ASSUME NEW i \in f .. n, NEW j \in f .. n, i < j PROVE p[i] < p[j]
    BY DEF InOrder
  <2>1. i \in 1 .. n /\ j \in 1 .. n /\ p[i] \in Int /\ p[j] \in Int
    BY <1>3, <1>4
  <2>2. CASE j < last
    <3>1. i \in f .. last - 1 /\ j \in f .. last - 1
      BY <1>3, <2>2
    <3> QED
      BY <1>4, <3>1
  <2>3. CASE last <= j /\ i < last
    <3>1. p[j] = j /\ p[i] < last
      BY <1>4, <2>1, <2>3
    <3> QED
      BY <1>3, <2>1, <2>3, <3>1
  <2>4. CASE last <= i
    <3>1. p[i] = i /\ p[j] = j
      BY <1>3, <1>4, <2>1, <2>4
    <3> QED
      BY <3>1
  <2> QED
    BY <1>3, <2>1, <2>2, <2>3, <2>4
<1>7. p \in [Places -> Places]
  BY <1>4 DEF Places, n
<1> QED
  BY <1>2, <1>3, <1>5, <1>6, <1>7 DEF Returned, n

\* The end of the words.
LEMMA EndOfWordsReturns ==
  ASSUME LineInv, OrderInv, EndOfWords, UNCHANGED argv
  PROVE  Returned
<1> DEFINE n == Len(argv)
<1>1. phase = "tagged" /\ optind > Len(nargv)
  BY DEF EndOfWords, BetweenWords, Tagged
<1>2. PICK q : Rearranges(q) /\ Sorted(q)
  BY <1>1 DEF OrderInv
<1>3. /\ n \in Nat /\ Len(nargv) = n /\ optind = n + 1
      /\ nonopt_start = None \/ nonopt_start \in 1 .. n
      /\ \/ nonopt_end = None
         \/ /\ nonopt_start # None /\ nonopt_end \in nonopt_start + 1 .. n + 1
            /\ nonopt_end \in Nat
  BY <1>1, BlockPlaces
<1>4. /\ q \in [1 .. n -> 1 .. n]
      /\ \A i, j \in 1 .. n : q[i] = q[j] => i = j
      /\ \A i \in 1 .. n : i < optind => q[i] < optind
      /\ \A i \in 1 .. n : optind <= i => q[i] = i
      /\ InOrder(q, Skipped) /\ InOrder(q, 1 .. n \ Skipped)
  BY <1>2 DEF Rearranges, Sorted, Places
<1>5. CASE nonopt_end = None /\ nonopt_start # None
  <2>1. nargv' = nargv /\ optind' = nonopt_start
    BY <1>5 DEF EndOfWords, Leave
  <2>2. Skipped = nonopt_start .. n /\ 1 .. n \ Skipped = 1 .. nonopt_start - 1
    BY <1>3, <1>5 DEF Skipped
  <2> QED
    BY <1>2, <1>4, <2>1, <2>2, ReturnedPlain
<1>6. CASE nonopt_end = None /\ nonopt_start = None
  <2>1. nargv' = nargv /\ optind' = n + 1
    BY <1>3, <1>6 DEF EndOfWords, Leave
  <2>2. Skipped = {} /\ 1 .. n \ Skipped = 1 .. (n + 1) - 1
    BY <1>3, <1>6 DEF Skipped
  <2>3. InOrder(q, n + 1 .. n)
    BY <1>3 DEF InOrder
  <2> QED
    BY <1>2, <1>4, <2>1, <2>2, <2>3, ReturnedPlain
<1>7. CASE nonopt_end # None
  <2>1. Leave(optind, nonopt_end)
    BY <1>7 DEF EndOfWords
  <2>2. nonopt_end # optind
    <3>1. nonopt_end = optind => optind <= Len(nargv)
      BY DEF LineInv, BlocksInv
    <3> QED
      BY <1>3, <3>1
  <2>3. Blocks(nonopt_start, nonopt_end, optind)
    BY <1>3, <1>7, <2>2 DEF Blocks
  <2>4. Skipped = nonopt_start .. nonopt_end - 1
    BY <1>3, <1>7 DEF Skipped
  <2>5. SortedTo(q, n, optind, nonopt_start .. nonopt_end - 1)
    BY <1>4, <2>4 DEF SortedTo
  <2>6. WordsInv /\ optind <= n + 1
    BY <1>3 DEF LineInv
  <2> QED
    BY <1>2, <1>7, <2>1, <2>3, <2>5, <2>6, ReturnedBlock
<1> QED
  BY <1>5, <1>6, <1>7

\* The end of the words has not come, but what is left of them are operands.
LEMMA HalvesInOrder ==
  ASSUME NEW n \in Nat, NEW q, InOrder(q, 1 .. n), NEW k \in 1 .. n + 1
  PROVE  InOrder(q, 1 .. k - 1) /\ InOrder(q, k .. n)
<1>1. 1 .. k - 1 \subseteq 1 .. n /\ k .. n \subseteq 1 .. n
  OBVIOUS
<1> QED
  BY <1>1 DEF InOrder

\* An operand that ends the options.
LEMMA FirstOperandReturns ==
  ASSUME LineInv, OrderInv, FirstOperand, UNCHANGED argv
  PROVE  Returned
<1>1. /\ phase = "tagged" /\ posixly_correct /\ UNCHANGED <<nargv, optind>>
  BY DEF FirstOperand, BetweenWords, Tagged, getoptVars
<1>2. PICK q : Rearranges(q) /\ Sorted(q)
  BY <1>1 DEF OrderInv
<1>3. nonopt_start = None
  BY <1>1 DEF OrderInv
<1>4. InOrder(q, 1 .. Len(argv))
  BY <1>2, <1>3 DEF Sorted, Skipped, Places
<1>5. Len(argv) \in Nat /\ optind \in 1 .. Len(argv) + 1
  BY BlockPlaces
<1>6. InOrder(q, 1 .. optind - 1) /\ InOrder(q, optind .. Len(argv))
  BY <1>4, <1>5, HalvesInOrder
<1> QED
  BY <1>1, <1>2, <1>6, ReturnedPlain

\* The word "--".
LEMMA EndOfOptionsReturns ==
  ASSUME LineInv, OrderInv, EndOfOptions, UNCHANGED argv
  PROVE  Returned
<1> DEFINE n == Len(argv)
<1>1. phase = "tagged" /\ optind <= Len(nargv) /\ Leave(optind + 1, NonoptEnd)
  BY DEF EndOfOptions, BetweenWords, Tagged
<1>2. PICK q : Rearranges(q) /\ Sorted(q)
  BY <1>1 DEF OrderInv
<1>3. /\ n \in Nat /\ Len(nargv) = n /\ optind \in 1 .. n
      /\ nonopt_start = None \/ nonopt_start \in 1 .. optind - 1
      /\ \/ nonopt_end = None
         \/ /\ nonopt_start # None /\ nonopt_end \in nonopt_start + 1 .. optind
            /\ nonopt_end \in Nat
  BY <1>1, BlockPlaces
<1>4. /\ q \in [1 .. n -> 1 .. n]
      /\ \A i, j \in 1 .. n : q[i] = q[j] => i = j
      /\ \A i \in 1 .. n : i < optind => q[i] < optind
      /\ \A i \in 1 .. n : optind <= i => q[i] = i
      /\ InOrder(q, Skipped) /\ InOrder(q, 1 .. n \ Skipped)
  BY <1>2 DEF Rearranges, Sorted, Places
<1>5. CASE NonoptEnd = None
  <2>1. nonopt_start = None
    BY <1>3, <1>5 DEF NonoptEnd, None
  <2>2. nargv' = nargv /\ optind' = optind + 1
    BY <1>1, <1>5 DEF Leave
  <2>3. Skipped = {}
    BY <2>1 DEF Skipped
  <2>4. InOrder(q, 1 .. n) /\ optind + 1 \in 1 .. n + 1
    BY <1>3, <1>4, <2>3
  <2>5. InOrder(q, 1 .. optind' - 1) /\ InOrder(q, optind' .. n)
    BY <1>3, <2>2, <2>4, HalvesInOrder
  <2> QED
    BY <1>2, <2>2, <2>5, ReturnedPlain
<1>6. CASE NonoptEnd # None
  <2>1. Blocks(nonopt_start, NonoptEnd, optind + 1)
    <3>1. nonopt_start \in 1 .. optind - 1
      BY <1>3, <1>6 DEF NonoptEnd
    <3>2. NonoptEnd \in nonopt_start + 1 .. optind /\ NonoptEnd \in Nat
      <4>1. CASE nonopt_end = None
        BY <1>3, <1>6, <3>1, <4>1 DEF NonoptEnd, None
      <4>2. CASE nonopt_end # None
        BY <1>3, <4>2 DEF NonoptEnd
      <4> QED
        BY <4>1, <4>2
    <3> HIDE DEF n
    <3> QED
      BY <1>3, <3>1, <3>2 DEF Blocks
  <2>2. Skipped = nonopt_start .. NonoptEnd - 1
    BY <1>3, <1>6 DEF Skipped, NonoptEnd
  <2>3. /\ \A i \in 1 .. n : i < optind + 1 => q[i] < optind + 1
        /\ \A i \in 1 .. n : optind + 1 <= i => q[i] = i
    <3>1. \A i \in 1 .. n : i \in Int /\ q[i] \in Int
      BY <1>4
    <3> QED
      BY <1>3, <1>4, <3>1
  <2>4. SortedTo(q, n, optind + 1, nonopt_start .. NonoptEnd - 1)
    BY <1>4, <2>2, <2>3 DEF SortedTo
  <2>5. WordsInv /\ optind + 1 <= n + 1
    BY <1>3 DEF LineInv
  <2> QED
    BY <1>1, <1>2, <1>6, <2>1, <2>4, <2>5, ReturnedBlock
<1> QED
  BY <1>5, <1>6

-----------------------------------------------------------------------------
\* A step of the program keeps the order, and one that ends the reading of
\* options leaves the words sorted.
OrderStep == phase = "tagged" /\ phase' = "untagged" => Returned

\* Every step of the program.
LEMMA OrderNext ==
  LineInv /\ LineInv' /\ OrderInv /\ [Next]_vars => OrderInv' /\ [OrderStep]_vars
<1> SUFFICES ASSUME LineInv, LineInv', OrderInv, [Next]_vars
             PROVE  OrderInv' /\ [OrderStep]_vars
  OBVIOUS
<1>1. CASE CommandNext
  <2>1. UNCHANGED <<argv, posixly_correct>>
    BY <1>1 DEF CommandNext
  <2>2. CASE EndOfWords \/ EndOfOptions \/ FirstOperand
    <3>1. phase' = "untagged"
      BY <2>2 DEF EndOfWords, EndOfOptions, FirstOperand, Leave
    <3> QED
      BY <2>1, <2>2, <3>1, EndOfWordsReturns, EndOfOptionsReturns, FirstOperandReturns
         DEF OrderInv, OrderStep
  <2>3. CASE SkipOperand
    <3>1. phase' = phase
      BY <2>3 DEF SkipOperand
    <3> QED
      BY <2>1, <2>3, <3>1, SkipSorts DEF OrderStep
  <2>4. CASE \/ NamelessOption \/ BadLongOption \/ LongOptionLacksValue
             \/ parse_long_options \/ UnknownLetter \/ FlagLetter
             \/ LetterLacksValue \/ ValueLetter
    <3>1. phase' = phase
      BY <2>4 DEF NamelessOption, BadLongOption, LongOptionLacksValue, parse_long_options,
         UnknownLetter, FlagLetter, LetterLacksValue, ValueLetter, ReadingLong,
         ReadingShort, Reading
    <3> QED
      BY <2>1, <2>4, <3>1, AnswerSorts DEF OrderStep
  <2>5. CASE arg_parse_untagged \/ arg_parse_check \/ parse_cmdargs
    <3>1. phase # "tagged" /\ phase' # "tagged"
      BY <2>5 DEF arg_parse_untagged, arg_parse_check, parse_cmdargs
    <3> QED
      BY <3>1 DEF OrderInv, OrderStep
  <2> QED
    BY <1>1, <2>2, <2>3, <2>4, <2>5 DEF CommandNext, arg_parse, getopt_internal
<1>2. CASE main
  <2>1. phase # "tagged" /\ phase' # "tagged"
    BY <1>2 DEF main, open_files, OpenTempfile, OpenInput, OpenStdout, OpenOutput,
       parse_file, ObjectWritten, ReadingStopped, SourceRefused, ParserCrash,
       AllocateBuffer, copy_files, closefiles, At, Proceed, processVars
  <2> QED
    BY <2>1 DEF OrderInv, OrderStep
<1>3. CASE FillDisk \/ UNCHANGED vars
  <2>1. UNCHANGED commandVars
    BY <1>3 DEF FillDisk, vars
  <2>2. UNCHANGED <<phase, posixly_correct, argv, nargv, optind, place, nonopt_start, nonopt_end>>
    BY <2>1 DEF commandVars, getoptVars
  <2> QED
    BY <2>2 DEF OrderInv, OrderStep, Rearranges, Sorted, Skipped, Places
<1> QED
  BY <1>1, <1>2, <1>3 DEF Next

\* However often getopt has permuted its copy of argv, when it returns -1 the
\* words in front of optind and those behind it are each in the order in which
\* they were given, for every command line and whatever its words mean.
THEOREM GetoptKeepsOrder == Spec => OrderKept
<1>1. Spec => [][OrderStep]_vars
  BY LineInit, LineNext, OrderInit, OrderNext, PTL DEF Spec
<1>2. [][OrderStep]_vars => OrderKept
  BY DEF OrderKept, OrderStep, Returned
<1> QED
  BY <1>1, <1>2

-----------------------------------------------------------------------------
(* The folding by which a line is read.                                    *)

\* The two foldings of a reading: over the words of a line, and over the items
\* of a word.
Step(reads, r, x) == IF reads = "items" THEN ReadItem(r, x) ELSE ReadWord(r, x)

\* g is the recursion of a folding of q, which takes the last place out first.
FoldsUp(reads, base, q, S, g) ==
    g = [s \in SUBSET S |-> IF s = {} THEN base
                            ELSE LET x == Max(s) IN Step(reads, g[s \ {x}], q[x])]

\* What the folding comes to.
Folded(reads, base, q) ==
    (CHOOSE g : FoldsUp(reads, base, q, DOMAIN q, g))[DOMAIN q]

\* What the recursion says of its values.
FoldMeans(reads, base, q, S, g) ==
    /\ g[{}] = base
    /\ \A s \in SUBSET S : s # {} =>
            Max(s) \in s /\ g[s] = Step(reads, g[s \ {Max(s)}], q[Max(s)])

\* A set of places has a last one.
LEMMA LastPlace ==
  ASSUME NEW n \in Nat, NEW s \in SUBSET (1 .. n), s # {}
  PROVE  Max(s) \in s /\ \A y \in s : Max(s) >= y
<1> DEFINE d == {n - x : x \in s}
<1>1. d \in SUBSET Nat /\ d # {}
  <2>1. \A x \in s : n - x \in Nat
    OBVIOUS
  <2>2. d \in SUBSET Nat
    BY <2>1
  <2>3. PICK x \in s : TRUE
    OBVIOUS
  <2>4. n - x \in d
    OBVIOUS
  <2> QED
    BY <2>2, <2>4
<1>2. PICK m \in d : \A y \in d : m <= y
  <2> HIDE DEF d
  <2> QED
    BY <1>1, HasLeast
<1>3. PICK x \in s : m = n - x
  BY <1>2
<1>4. \A y \in s : n - y \in d
  OBVIOUS
<1>5. \A y \in s : x >= y
  <2> SUFFICES ASSUME NEW y \in s PROVE x >= y
    OBVIOUS
  <2>1. n - x <= n - y
    BY <1>2, <1>3, <1>4
  <2>2. x \in 1 .. n /\ y \in 1 .. n
    BY <1>3
  <2> QED
    BY <2>1, <2>2
<1> QED
  BY <1>5 DEF Max

\* The recursion, value by value.
LEMMA FoldsUpMeans ==
  ASSUME NEW reads, NEW base, NEW q, NEW n \in Nat, NEW g,
         FoldsUp(reads, base, q, 1 .. n, g)
  PROVE  FoldMeans(reads, base, q, 1 .. n, g)
<1> DEFINE S == 1 .. n
           G(s) == IF s = {} THEN base ELSE Step(reads, g[s \ {Max(s)}], q[Max(s)])
<1>1. \A s \in SUBSET S : s # {} => Max(s) \in s
  BY LastPlace
<1>2. \A s \in SUBSET S : g[s] = G(s)
  <2>1. g = [s \in SUBSET S |-> G(s)]
    BY DEF FoldsUp
  <2> HIDE DEF G, S
  <2>2. \A s \in SUBSET S : [u \in SUBSET S |-> G(u)][s] = G(s)
    OBVIOUS
  <2> QED
    BY <2>1, <2>2
<1>3. {} \in SUBSET S
  OBVIOUS
<1> QED
  BY <1>1, <1>2, <1>3 DEF FoldMeans

\* Sets of subsets of a finite set have minimal elements.
LEMMA MinimalSet ==
  ASSUME NEW S, IsFiniteSet(S), NEW B \in SUBSET (SUBSET S), B # {}
  PROVE  \E t \in B : \A u \in SUBSET t : u # t => u \notin B
<1>1. IsWellFoundedOn(StrictSubsetOrdering(S), SUBSET S)
  BY FS_StrictSubsetOrderingWellFounded, FS_FiniteSubsetsOfFinite
<1>2. PICK t \in B : \A u \in B : <<u, t>> \notin StrictSubsetOrdering(S)
  BY <1>1, WFMin
<1>3. ASSUME NEW u \in SUBSET t, u # t, u \in B PROVE FALSE
  <2>1. <<u, t>> \in (SUBSET S) \X (SUBSET S)
    BY <1>3
  <2>2. <<u, t>>[1] \subseteq <<u, t>>[2] /\ <<u, t>>[1] # <<u, t>>[2]
    BY <1>3
  <2>3. <<u, t>> \in StrictSubsetOrdering(S)
    BY <2>1, <2>2 DEF StrictSubsetOrdering
  <2> QED
    BY <1>2, <1>3, <2>3
<1> QED
  BY <1>2, <1>3

\* Two recursions agree where both are defined and fold the same things.
LEMMA FoldsAgree ==
  ASSUME NEW reads, NEW base, NEW q, NEW p, NEW n \in Nat, NEW m \in Nat, NEW g, NEW h,
         FoldsUp(reads, base, q, 1 .. n, g), FoldsUp(reads, base, p, 1 .. m, h),
         NEW v \in SUBSET (1 .. n), v \in SUBSET (1 .. m), \A i \in v : q[i] = p[i]
  PROVE  g[v] = h[v]
<1>2. FoldMeans(reads, base, q, 1 .. n, g) /\ FoldMeans(reads, base, p, 1 .. m, h)
  BY FoldsUpMeans
<1> DEFINE B == {u \in SUBSET v : g[u] # h[u]}
<1> SUFFICES ASSUME B # {} PROVE FALSE
  OBVIOUS
<1>1. PICK t \in B : \A u \in SUBSET t : u # t => u \notin B
  <2>1. IsFiniteSet(v)
    <3>1. IsFiniteSet(1 .. n)
      BY FS_Interval
    <3> QED
      BY <3>1, FS_Subset
  <2>2. B \in SUBSET (SUBSET v)
    OBVIOUS
  <2> HIDE DEF B
  <2> QED
    BY <2>1, <2>2, MinimalSet
<1>7. t \in SUBSET v /\ g[t] # h[t] /\ t # {}
  BY <1>1, <1>2 DEF FoldMeans
<1> DEFINE x == Max(t)
<1>3. /\ x \in t /\ g[t] = Step(reads, g[t \ {x}], q[x])
      /\ h[t] = Step(reads, h[t \ {x}], p[x])
  BY <1>2, <1>7 DEF FoldMeans
<1> HIDE DEF x
<1>4. t \ {x} \in SUBSET t /\ t \ {x} # t
  BY <1>3
<1>5. g[t \ {x}] = h[t \ {x}]
  BY <1>1, <1>4, <1>7
<1>6. q[x] = p[x]
  BY <1>3, <1>7
<1> QED
  BY <1>3, <1>5, <1>6, <1>7

\* There is such a recursion.
LEMMA FoldsExist ==
  ASSUME NEW reads, NEW base, NEW q, NEW n \in Nat
  PROVE  \E g : FoldsUp(reads, base, q, 1 .. n, g)
<1> DEFINE F(g, s) == IF s = {} THEN base ELSE Step(reads, g[s \ {Max(s)}], q[Max(s)])
           Runs(m) == \E g : /\ DOMAIN g = SUBSET (1 .. m)
                             /\ \A s \in SUBSET (1 .. m) : g[s] = F(g, s)
<1>1. Runs(0)
  <2> DEFINE g == [s \in SUBSET (1 .. 0) |-> base]
  <2>1. \A s \in SUBSET (1 .. 0) : s = {}
    OBVIOUS
  <2>2. DOMAIN g = SUBSET (1 .. 0) /\ \A s \in SUBSET (1 .. 0) : g[s] = F(g, s)
    BY <2>1
  <2> HIDE DEF F, g
  <2> QED
    BY <2>2
<1>2. ASSUME NEW m \in Nat, Runs(m) PROVE Runs(m + 1)
  <2>1. PICK g : /\ DOMAIN g = SUBSET (1 .. m)
                 /\ \A s \in SUBSET (1 .. m) : g[s] = F(g, s)
    BY <1>2
  <2> DEFINE h == [s \in SUBSET (1 .. m + 1) |->
                     IF s \in SUBSET (1 .. m) THEN g[s]
                     ELSE Step(reads, g[s \ {m + 1}], q[m + 1])]
  <2>2. \A s \in SUBSET (1 .. m) : h[s] = g[s]
    OBVIOUS
  <2>3. ASSUME NEW s \in SUBSET (1 .. m + 1) PROVE h[s] = F(h, s)
    <3>1. CASE s \in SUBSET (1 .. m)
      <4>1. s \ {Max(s)} \in SUBSET (1 .. m)
        BY <3>1
      <4>2. h[s \ {Max(s)}] = g[s \ {Max(s)}] /\ h[s] = g[s]
        BY <2>2, <3>1, <4>1
      <4>3. g[s] = F(g, s)
        BY <2>1, <3>1
      <4> HIDE DEF h
      <4> QED
        BY <4>2, <4>3
    <3>2. CASE s \notin SUBSET (1 .. m)
      <4>1. m + 1 \in s
        BY <3>2
      <4>2. Max(s) = m + 1
        <5>1. m + 1 \in Nat /\ s # {}
          BY <4>1
        <5>2. Max(s) \in s /\ Max(s) >= m + 1
          BY <4>1, <5>1, LastPlace
        <5>3. Max(s) \in 1 .. m + 1
          BY <5>2
        <5> QED
          BY <5>2, <5>3
      <4>3. s \ {m + 1} \in SUBSET (1 .. m)
        OBVIOUS
      <4>4. h[s \ {m + 1}] = g[s \ {m + 1}]
        BY <2>2, <4>3
      <4>5. h[s] = Step(reads, g[s \ {m + 1}], q[m + 1])
        BY <3>2
      <4> HIDE DEF h
      <4> QED
        BY <4>1, <4>2, <4>4, <4>5
    <3> QED
      BY <3>1, <3>2
  <2>4. DOMAIN h = SUBSET (1 .. m + 1)
    OBVIOUS
  <2> HIDE DEF h, F
  <2> QED
    BY <2>3, <2>4
<1>3. Runs(n)
  <2> HIDE DEF Runs
  <2> DEFINE with == {m \in Nat : Runs(m)}
  <2>1. 0 \in with /\ \A m \in with : m + 1 \in with
    BY <1>1, <1>2
  <2>2. with \in SUBSET Nat
    OBVIOUS
  <2> HIDE DEF with
  <2>3. with = Nat
    BY <2>1, <2>2, Inductive
  <2> QED
    BY <2>3 DEF with
<1>4. PICK g : DOMAIN g = SUBSET (1 .. n) /\ \A s \in SUBSET (1 .. n) : g[s] = F(g, s)
  BY <1>3
<1>5. FoldsUp(reads, base, q, 1 .. n, [s \in SUBSET (1 .. n) |-> g[s]])
  <2> DEFINE h == [s \in SUBSET (1 .. n) |-> g[s]]
  <2>1. \A s \in SUBSET (1 .. n) : h[s] = g[s] /\ s \ {Max(s)} \in SUBSET (1 .. n)
    OBVIOUS
  <2>2. \A s \in SUBSET (1 .. n) : F(g, s) = F(h, s)
    <3> HIDE DEF h
    <3> QED
      BY <2>1
  <2>3. h = [s \in SUBSET (1 .. n) |-> F(h, s)]
    <3> HIDE DEF F
    <3>1. \A s \in SUBSET (1 .. n) : g[s] = F(h, s)
      BY <1>4, <2>2
    <3>2. [s \in SUBSET (1 .. n) |-> g[s]] = [s \in SUBSET (1 .. n) |-> F(h, s)]
      BY <3>1
    <3> QED
      BY <3>2
  <2> HIDE DEF h
  <2>4. FoldsUp(reads, base, q, 1 .. n, h)
    BY <2>3 DEF FoldsUp
  <2> QED
    BY <2>4 DEF h
<1> QED
  BY <1>5

\* Nothing folds to the base, one more thing takes one more step.
LEMMA FoldEmpty ==
  ASSUME NEW reads, NEW base
  PROVE  Folded(reads, base, <<>>) = base
<1> DEFINE g == CHOOSE g : FoldsUp(reads, base, <<>>, 1 .. 0, g)
<1>1. DOMAIN <<>> = 1 .. 0 /\ 1 .. 0 = {}
  OBVIOUS
<1>2. FoldsUp(reads, base, <<>>, 1 .. 0, g)
  BY FoldsExist
<1>3. Folded(reads, base, <<>>) = g[1 .. 0]
  BY <1>1 DEF Folded
<1> HIDE DEF g
<1>4. FoldMeans(reads, base, <<>>, 1 .. 0, g)
  BY <1>2, FoldsUpMeans
<1> QED
  BY <1>1, <1>3, <1>4 DEF FoldMeans

\* The last element is folded in last.
LEMMA FoldLast ==
  ASSUME NEW reads, NEW base, NEW T, NEW q \in Seq(T), NEW x \in T
  PROVE  Folded(reads, base, Append(q, x)) = Step(reads, Folded(reads, base, q), x)
<1> DEFINE p == Append(q, x)
           n == Len(q)
           g == CHOOSE g : FoldsUp(reads, base, q, 1 .. n, g)
           h == CHOOSE h : FoldsUp(reads, base, p, 1 .. n + 1, h)
<1>1. /\ n \in Nat /\ DOMAIN q = 1 .. n /\ DOMAIN p = 1 .. n + 1
      /\ p[n + 1] = x /\ \A i \in 1 .. n : p[i] = q[i]
  OBVIOUS
<1>2. FoldsUp(reads, base, q, 1 .. n, g) /\ FoldsUp(reads, base, p, 1 .. n + 1, h)
  <2>1. n \in Nat /\ n + 1 \in Nat
    OBVIOUS
  <2> HIDE DEF n, p
  <2>2. FoldsUp(reads, base, q, 1 .. n, g)
    BY <2>1, FoldsExist
  <2>3. FoldsUp(reads, base, p, 1 .. n + 1, h)
    BY <2>1, FoldsExist
  <2> QED
    BY <2>2, <2>3
<1>3. Folded(reads, base, q) = g[1 .. n] /\ Folded(reads, base, p) = h[1 .. n + 1]
  BY <1>1 DEF Folded
<1> HIDE DEF g, h, n, p
<1>4. FoldMeans(reads, base, p, 1 .. n + 1, h)
  BY <1>1, <1>2, FoldsUpMeans
<1>5. /\ 1 .. n + 1 \in SUBSET (1 .. n + 1) /\ 1 .. n + 1 # {}
      /\ n + 1 \in Nat
  <2>1. n + 1 \in 1 .. n + 1 /\ n + 1 \in Nat
    BY <1>1
  <2> HIDE DEF n
  <2>2. 1 .. n + 1 # {}
    BY <2>1
  <2> QED
    BY <2>1, <2>2
<1>6. Max(1 .. n + 1) = n + 1
  <2>1. \A y \in 1 .. n + 1 : Max(1 .. n + 1) >= y
    BY <1>1, <1>5, LastPlace
  <2>2. Max(1 .. n + 1) \in 1 .. n + 1
    BY <1>1, <1>5, LastPlace
  <2>3. n + 1 \in 1 .. n + 1
    BY <1>1
  <2> QED
    BY <1>1, <2>1, <2>2, <2>3
<1>7. (1 .. n + 1) \ {n + 1} = 1 .. n
  BY <1>1
<1>8. h[1 .. n + 1] = Step(reads, h[1 .. n], x)
  BY <1>1, <1>4, <1>5, <1>6, <1>7 DEF FoldMeans
<1>9. h[1 .. n] = g[1 .. n]
  <2>1. 1 .. n \in SUBSET (1 .. n) /\ 1 .. n \in SUBSET (1 .. n + 1)
    BY <1>1
  <2> QED
    BY <1>1, <1>2, <2>1, FoldsAgree
<1> QED
  BY <1>3, <1>8, <1>9 DEF p

\* The readings of a word and of a line are such foldings.
LEMMA LineFolds ==
  ASSUME NEW line
  PROVE  Read(line) = Folded("words", Unread, line)
<1> DEFINE S == DOMAIN line
           P(g) == g = [s \in SUBSET S |-> IF s = {} THEN Unread
                            ELSE LET x == Max(s) IN ReadWord(g[s \ {x}], line[x])]
<1>1. ASSUME NEW g PROVE P(g) <=> FoldsUp("words", Unread, line, S, g)
  BY DEF FoldsUp, Step
<1>2. (CHOOSE g : P(g)) = (CHOOSE g : FoldsUp("words", Unread, line, S, g))
  <2> HIDE DEF P
  <2> QED
    BY <1>1
<1>3. Read(line) = (CHOOSE g : P(g))[S]
  BY DEF Read, FoldLeft, MapThenFoldSet
<1> QED
  BY <1>2, <1>3 DEF Folded

\* The reading of an option word.
LEMMA WordFolds ==
  ASSUME NEW r, ~r.stuck, r.wants = "nothing", ~r.ended,
         NEW word \in DOMAIN Vocabulary, word # Terminator
  PROVE  ReadWord(r, word) = Folded("items", r, Vocabulary[word])
<1> DEFINE q == Vocabulary[word]
           S == DOMAIN q
           P(g) == g = [s \in SUBSET S |-> IF s = {} THEN r
                            ELSE LET x == Max(s) IN ReadItem(g[s \ {x}], q[x])]
<1>1. ASSUME NEW g PROVE P(g) <=> FoldsUp("items", r, q, S, g)
  BY DEF FoldsUp, Step
<1>2. (CHOOSE g : P(g)) = (CHOOSE g : FoldsUp("items", r, q, S, g))
  <2> HIDE DEF P
  <2> QED
    BY <1>1
<1>3. ReadWord(r, word) = (CHOOSE g : P(g))[S]
  BY DEF ReadWord, FoldLeft, MapThenFoldSet
<1> QED
  BY <1>2, <1>3 DEF Folded

-----------------------------------------------------------------------------
(* The reading of a line, a word at a time.                                *)

\* What a reading keeps of a line.
Readings ==
    [ended : BOOLEAN, wants : {"nothing", "short", "long"}, stuck : BOOLEAN,
     wrong : BOOLEAN, flags : Seq(Flags), ins : Seq(WordType), outs : Seq(WordType)]

\* What option words consist of.
Items ==
    {Flag(entry) : entry \in Flags} \cup {ToFile(name) : name \in WordType}
    \cup {ToNextWord(form) : form \in {"short", "long"}} \cup {Mistake, LoneDash}

\* The reading of the first p words.
ReadTo(p) == Read(SubSeq(argv, 1, p))

\* Before the first word nothing has been read.
LEMMA ReadToStart == WordsInv => ReadTo(0) = Unread
<1> SUFFICES ASSUME WordsInv PROVE ReadTo(0) = Unread
  OBVIOUS
<1>0. argv \in Seq(WordType)
  BY LineTyped DEF WordsInv
<1>1. SubSeq(argv, 1, 0) = <<>>
  BY <1>0
<1> QED
  BY <1>1, LineFolds, FoldEmpty DEF ReadTo

\* One word more.
LEMMA ReadToNext ==
  ASSUME WordsInv, NEW p \in Nat, p < Len(argv)
  PROVE  ReadTo(p + 1) = ReadWord(ReadTo(p), argv[p + 1])
<1>1. argv \in Seq(WordType)
  BY LineTyped DEF WordsInv
<1>2. SubSeq(argv, 1, p) \in Seq(WordType) /\ argv[p + 1] \in WordType
  BY <1>1
<1>3. SubSeq(argv, 1, p + 1) = Append(SubSeq(argv, 1, p), argv[p + 1])
  <2> HIDE DEF WordType
  <2> QED
    BY <1>1
<1>4. ReadTo(p + 1) = Step("words", ReadTo(p), argv[p + 1])
  <2> DEFINE q == SubSeq(argv, 1, p)
             x == argv[p + 1]
  <2>1. q \in Seq(WordType) /\ x \in WordType /\ SubSeq(argv, 1, p + 1) = Append(q, x)
    BY <1>2, <1>3
  <2>2. ReadTo(p) = Folded("words", Unread, q)
    BY LineFolds DEF ReadTo
  <2>3. ReadTo(p + 1) = Folded("words", Unread, SubSeq(argv, 1, p + 1))
    BY LineFolds DEF ReadTo
  <2> HIDE DEF q, x
  <2>4. Folded("words", Unread, Append(q, x)) = Step("words", Folded("words", Unread, q), x)
    BY <2>1, FoldLast
  <2>5. ReadTo(p + 1) = Step("words", ReadTo(p), x)
    BY <2>1, <2>2, <2>3, <2>4
  <2> QED
    BY <2>5 DEF x
<1> QED
  BY <1>4 DEF Step

\* The last word ends the reading.
LEMMA ReadToEnd == WordsInv => ReadTo(Len(argv)) = Read(argv)
<1> SUFFICES ASSUME WordsInv PROVE ReadTo(Len(argv)) = Read(argv)
  OBVIOUS
<1>1. argv \in Seq(WordType)
  BY LineTyped DEF WordsInv
<1>2. SubSeq(argv, 1, Len(argv)) = argv
  BY <1>1
<1> QED
  BY <1>2 DEF ReadTo

\* The reading of no word.
LEMMA UnreadTyped == Unread \in Readings
  BY DEF Unread, Readings

\* A line that is stuck stays stuck.
LEMMA StuckStays ==
  ASSUME NEW r, r.stuck, NEW word
  PROVE  ReadWord(r, word) = r
  BY DEF ReadWord

-----------------------------------------------------------------------------
(* What a vocabulary has to say.                                           *)

\* means gives the items of the letters of a word, for every number of them.
Explains(word, means) ==
    /\ means \in [0 .. Len(word) - 1 -> Seq(Items)]
    /\ means[0] = <<>>
    /\ \A n \in 1 .. Len(word) - 1 : means[n] = MeaningOf(Letters(word, n), means[n - 1])
    /\ Vocabulary[word] = means[Len(word) - 1]

\* The vocabulary has all option words of the command lines and no other
\* words, and says of each of them what its letters are.
Faithful ==
    \A line \in CommandLines : \A word \in ToSet(line) :
        /\ word \in DOMAIN Vocabulary <=> IsOption(word) /\ word # Terminator
        /\ word \in DOMAIN Vocabulary => \E means : Explains(word, means)

\* r is the reading of the words before optind and of those letters of the
\* word at optind that stand before "letters".
Amid(r, letters) ==
    LET word == argv[optind]
        start == ReadTo(optind - 1)
    IN  \E means : \E done \in Seq(Items) :
            /\ Explains(word, means)
            /\ Len(letters) \in 1 .. Len(word) - 1
            /\ letters = Letters(word, Len(letters))
            /\ Vocabulary[word] = done \o means[Len(letters)]
            /\ r = Folded("items", start, done)
            /\ start \in Readings /\ ~start.stuck /\ ~start.ended
            /\ start.wants = "nothing"
            /\ word \in DOMAIN Vocabulary /\ word # Terminator

\* The items end in a lone dash.
Dashed(items) == items # <<>> /\ items[Len(items)].kind = "dash"

\* getopt reads the word at optind over and over: it ends in a dash, and so do
\* the letters it is about to read.
Sticks(letters) ==
    LET word == argv[optind]
    IN  /\ IsOption(word) /\ word # Terminator
        /\ \E means :
            /\ Explains(word, means)
            /\ Dashed(means[Len(word) - 1])
            /\ letters # <<>> =>
                /\ Len(letters) \in 1 .. Len(word) - 1
                /\ letters = Letters(word, Len(letters))
                /\ Dashed(means[Len(letters)])

\* An item keeps the type of a reading.
LEMMA ItemTyped ==
  ASSUME NEW r \in Readings, NEW item \in Items
  PROVE  ReadItem(r, item) \in Readings
<1>1. CASE \E entry \in Flags : item = Flag(entry)
  <2>1. PICK entry \in Flags : item = Flag(entry)
    BY <1>1
  <2>2. item.kind = "flag" /\ item.entry = entry
    BY <2>1 DEF Flag
  <2>3. Append(r.flags, entry) \in Seq(Flags)
    BY DEF Readings
  <2> QED
    BY <2>2, <2>3 DEF ReadItem, Readings
<1>2. CASE \E name \in WordType : item = ToFile(name)
  <2>1. PICK name \in WordType : item = ToFile(name)
    BY <1>2
  <2>2. item.kind = "file" /\ item.name = name
    BY <2>1 DEF ToFile
  <2>3. Append(r.outs, name) \in Seq(WordType)
    <3> HIDE DEF WordType
    <3> QED
      BY DEF Readings
  <2> QED
    BY <2>2, <2>3 DEF ReadItem, Readings
<1>3. CASE \E form \in {"short", "long"} : item = ToNextWord(form)
  <2>1. PICK form \in {"short", "long"} : item = ToNextWord(form)
    BY <1>3
  <2>2. item.kind = "next" /\ item.form = form
    BY <2>1 DEF ToNextWord
  <2> QED
    BY <2>2 DEF ReadItem, Readings
<1>4. CASE item = Mistake
  BY <1>4 DEF ReadItem, Readings, Mistake
<1>5. CASE item = LoneDash
  BY <1>5 DEF ReadItem, Readings, LoneDash
<1> QED
  BY <1>1, <1>2, <1>3, <1>4, <1>5 DEF Items

\* The last letters of a word.
LEMMA LettersOf ==
  ASSUME NEW word \in WordType, NEW n \in 1 .. Len(word)
  PROVE  /\ Letters(word, n) \in WordType /\ Len(Letters(word, n)) = n
         /\ Tail(Letters(word, n)) = Letters(word, n - 1)
         /\ Len(Letters(word, n - 1)) = n - 1
         /\ Tail(word) = Letters(word, Len(word) - 1)
<1>1. word \in Seq(Tokens) /\ Len(word) \in Nat /\ n \in Nat
  BY DEF WordType
<1>2. /\ Letters(word, n) \in Seq(Tokens) /\ Len(Letters(word, n)) = n
      /\ Letters(word, n - 1) \in Seq(Tokens) /\ Len(Letters(word, n - 1)) = n - 1
      /\ \A i \in 1 .. n : Letters(word, n)[i] = word[Len(word) - n + i]
      /\ \A i \in 1 .. n - 1 : Letters(word, n - 1)[i] = word[Len(word) - (n - 1) + i]
  BY <1>1 DEF Letters
<1>3. ASSUME NEW w \in Seq(Tokens), NEW k \in 1 .. Len(w)
      PROVE  Tail(SubSeq(w, k, Len(w))) = SubSeq(w, k + 1, Len(w))
  <2> DEFINE t == SubSeq(w, k, Len(w))
             u == SubSeq(w, k + 1, Len(w))
             m == Len(w) - k
  <2>1. /\ m \in Nat /\ t \in Seq(Tokens) /\ Len(t) = m + 1
        /\ u \in Seq(Tokens) /\ Len(u) = m
        /\ \A i \in 1 .. m + 1 : t[i] = w[k + i - 1]
        /\ \A i \in 1 .. m : u[i] = w[k + i]
    OBVIOUS
  <2>2. \A i \in 1 .. m : t[i + 1] = u[i]
    <3> SUFFICES ASSUME NEW i \in 1 .. m PROVE t[i + 1] = u[i]
      OBVIOUS
    <3>1. i + 1 \in 1 .. m + 1 /\ k + (i + 1) - 1 = k + i
      BY <2>1
    <3> HIDE DEF t, u, m
    <3> QED
      BY <2>1, <3>1
  <2> HIDE DEF t, u, m
  <2>3. Tail(t) \in Seq(Tokens) /\ Len(Tail(t)) = m /\ \A i \in 1 .. m : Tail(t)[i] = t[i + 1]
    BY <2>1
  <2>4. Tail(t) = u
    BY <2>1, <2>2, <2>3
  <2> QED
    BY <2>4 DEF t, u
<1>4. Tail(Letters(word, n)) = Letters(word, n - 1)
  <2>1. Len(word) - n + 1 \in 1 .. Len(word)
        /\ (Len(word) - n + 1) + 1 = Len(word) - (n - 1) + 1
    BY <1>1
  <2> QED
    BY <1>1, <1>3, <2>1 DEF Letters
<1>5. Tail(word) = Letters(word, Len(word) - 1)
  <2>1. 1 \in 1 .. Len(word) /\ Len(word) - (Len(word) - 1) + 1 = 1 + 1
    BY <1>1
  <2>2. SubSeq(word, 1, Len(word)) = word
    BY <1>1
  <2> QED
    BY <1>1, <1>3, <2>1, <2>2 DEF Letters
<1> QED
  BY <1>2, <1>4, <1>5 DEF WordType

\* getopt begins a word with all of its letters but the dash.
LEMMA AmidStart ==
  ASSUME Faithful, WordsInv, optind \in 1 .. Len(argv),
         IsOption(argv[optind]), argv[optind] # Terminator,
         ReadTo(optind - 1) \in Readings, ~ReadTo(optind - 1).stuck,
         ~ReadTo(optind - 1).ended, ReadTo(optind - 1).wants = "nothing"
  PROVE  Amid(ReadTo(optind - 1), Tail(argv[optind]))
<1> DEFINE word == argv[optind]
           start == ReadTo(optind - 1)
           letters == Tail(word)
<1>1. argv \in CommandLines /\ argv \in Seq(WordType)
  BY LineTyped DEF WordsInv
<1>2. word \in ToSet(argv) /\ word \in WordType
  <2> HIDE DEF WordType
  <2> QED
    BY <1>1 DEF ToSet
<1>3. word \in DOMAIN Vocabulary
  BY <1>1, <1>2 DEF Faithful
<1>4. PICK means : Explains(word, means)
  BY <1>1, <1>2, <1>3 DEF Faithful
<1>5. /\ Len(word) \in Nat /\ Len(word) > 1
  BY <1>2 DEF WordType, IsOption
<1>6. letters = Letters(word, Len(word) - 1) /\ Len(letters) = Len(word) - 1
  <2>1. Len(word) \in 1 .. Len(word) /\ Len(word) - 1 \in 1 .. Len(word)
    BY <1>5
  <2> QED
    BY <1>2, <2>1, LettersOf
<1>7. Vocabulary[word] = <<>> \o means[Len(word) - 1]
  <2>1. /\ Vocabulary[word] = means[Len(word) - 1]
        /\ means \in [0 .. Len(word) - 1 -> Seq(Items)]
    BY <1>4 DEF Explains
  <2>2. means[Len(word) - 1] \in Seq(Items)
    BY <1>5, <2>1
  <2> HIDE DEF Items
  <2> QED
    BY <2>1, <2>2
<1>8. start = Folded("items", start, <<>>)
  BY FoldEmpty
<1>9. <<>> \in Seq(Items)
  OBVIOUS
<1>10. Len(letters) \in 1 .. Len(word) - 1
  BY <1>5, <1>6
<1> QED
  BY <1>3, <1>4, <1>6, <1>7, <1>8, <1>9, <1>10 DEF Amid

\* Items put together.
LEMMA ItemsJoin ==
  ASSUME NEW S, NEW done \in Seq(S), NEW rest \in Seq(S), NEW x \in S, NEW y \in S
  PROVE  /\ done \o <<>> = done
         /\ Append(done, x) \in Seq(S) /\ Append(Append(done, x), y) \in Seq(S)
         /\ done \o <<x>> = Append(done, x)
         /\ done \o <<x, y>> = Append(Append(done, x), y)
         /\ done \o (<<x>> \o rest) = Append(done, x) \o rest
  OBVIOUS

\* The items of the last m letters of a word, after the items "done" of the
\* letters before them.
ItemsLeft(word, means, m, start, done) ==
    /\ means[m] = MeaningOf(Letters(word, m), means[m - 1])
    /\ means[m] \in Seq(Items) /\ means[m - 1] \in Seq(Items)
    /\ \A x \in Items :
         /\ Append(done, x) \in Seq(Items)
         /\ Folded("items", start, Append(done, x))
              = ReadItem(Folded("items", start, done), x)
         /\ means[m] = <<x>> => Vocabulary[word] = Append(done, x)
         /\ means[m] = <<x>> \o means[m - 1] =>
              Vocabulary[word] = Append(done, x) \o means[m - 1]
    /\ \A x, y \in Items : means[m] = <<x, y>> =>
         Folded("items", start, Vocabulary[word])
           = ReadItem(ReadItem(Folded("items", start, done), x), y)

\* The letters at the end of a word and what they mean.
LEMMA LettersLeft ==
  ASSUME NEW word \in WordType, NEW means, Explains(word, means),
         NEW m \in 1 .. Len(word) - 1, NEW start, NEW done \in Seq(Items),
         Vocabulary[word] = done \o means[m]
  PROVE  ItemsLeft(word, means, m, start, done)
<1>1. Len(word) \in Nat
  BY DEF WordType
<1>2. /\ means \in [0 .. Len(word) - 1 -> Seq(Items)]
      /\ means[m] = MeaningOf(Letters(word, m), means[m - 1])
  BY DEF Explains
<1>3. m \in 0 .. Len(word) - 1 /\ m - 1 \in 0 .. Len(word) - 1
  BY <1>1
<1>4. means[m] \in Seq(Items) /\ means[m - 1] \in Seq(Items)
  BY <1>2, <1>3
<1> HIDE DEF Items
<1>5. ASSUME NEW x \in Items
      PROVE  /\ Append(done, x) \in Seq(Items)
             /\ Folded("items", start, Append(done, x))
                   = ReadItem(Folded("items", start, done), x)
  <2>1. Append(done, x) \in Seq(Items)
    OBVIOUS
  <2>2. Folded("items", start, Append(done, x)) = Step("items", Folded("items", start, done), x)
    BY FoldLast
  <2> QED
    BY <2>1, <2>2 DEF Step
<1>6. ASSUME NEW x \in Items, means[m] = <<x>>
      PROVE  Vocabulary[word] = Append(done, x)
  BY <1>6
<1>7. ASSUME NEW x \in Items, means[m] = <<x>> \o means[m - 1]
      PROVE  Vocabulary[word] = Append(done, x) \o means[m - 1]
  <2> DEFINE rest == means[m - 1]
  <2>1. rest \in Seq(Items)
    BY <1>4
  <2>2. Vocabulary[word] = done \o (<<x>> \o rest)
    BY <1>7
  <2> HIDE DEF rest
  <2>3. Vocabulary[word] = Append(done, x) \o rest
    BY <2>1, <2>2, ItemsJoin
  <2> QED
    BY <2>3 DEF rest
<1>8. ASSUME NEW x \in Items, NEW y \in Items, means[m] = <<x, y>>
      PROVE  Folded("items", start, Vocabulary[word])
               = ReadItem(ReadItem(Folded("items", start, done), x), y)
  <2> DEFINE q == Append(done, x)
  <2>1. Vocabulary[word] = Append(q, y)
    BY <1>8
  <2>2. q \in Seq(Items)
    BY <1>5
  <2>3. Folded("items", start, q) = ReadItem(Folded("items", start, done), x)
    BY <1>5
  <2> HIDE DEF q
  <2>4. Folded("items", start, Append(q, y)) = Step("items", Folded("items", start, q), y)
    BY <2>2, FoldLast
  <2> QED
    BY <2>1, <2>3, <2>4 DEF Step
<1> QED
  BY <1>2, <1>4, <1>5, <1>6, <1>7, <1>8 DEF ItemsLeft

\* Amid, with names for everything it speaks of.
AmidOf(word, means, start, done, m, r, letters) ==
    /\ word = argv[optind] /\ start = ReadTo(optind - 1)
    /\ m = Len(letters)
    /\ Explains(word, means)
    /\ m \in 1 .. Len(word) - 1
    /\ letters = Letters(word, m)
    /\ Vocabulary[word] = done \o means[m]
    /\ r = Folded("items", start, done)
    /\ start \in Readings /\ ~start.stuck /\ ~start.ended
    /\ start.wants = "nothing"
    /\ word \in DOMAIN Vocabulary /\ word # Terminator
    /\ ReadTo(optind) = Folded("items", start, Vocabulary[word])
    /\ Len(word) \in Nat
    /\ letters \in WordType
    /\ Tail(letters) = Letters(word, m - 1) /\ Len(Tail(letters)) = m - 1
    /\ word \in WordType /\ done \in Seq(Items) /\ m \in Nat

\* What is known of a reading when the items of the letters are those
\* MeaningOf gives.
Tells(r, letters, rest) ==
    LET items == MeaningOf(letters, rest)
    IN  /\ \A x \in Items : items = <<x>> => ReadTo(optind) = ReadItem(r, x)
        /\ \A x, y \in Items : items = <<x, y>> =>
              ReadTo(optind) = ReadItem(ReadItem(r, x), y)
        /\ \A x \in Items : items = <<x>> \o rest =>
              IF Tail(letters) = <<>> THEN ReadTo(optind) = ReadItem(r, x)
              ELSE Amid(ReadItem(r, x), Tail(letters))

\* What getopt is in the middle of, as values of the state.
LEMMA AmidGives ==
  ASSUME WordsInv, optind \in 1 .. Len(argv), NEW r, NEW letters, Amid(r, letters)
  PROVE  \E word, means, start, done, m : AmidOf(word, means, start, done, m, r, letters)
<1> DEFINE word == argv[optind]
           start == ReadTo(optind - 1)
           m == Len(letters)
<1>1. argv \in Seq(WordType) /\ Len(argv) \in Nat
  BY LineTyped DEF WordsInv
<1>2. word \in WordType
  <2> HIDE DEF WordType
  <2> QED
    BY <1>1
<1>3. Len(word) \in Nat
  BY <1>2 DEF WordType
<1>4. \E means : \E done \in Seq(Items) :
            /\ Explains(word, means)
            /\ m \in 1 .. Len(word) - 1
            /\ letters = Letters(word, m)
            /\ Vocabulary[word] = done \o means[m]
            /\ r = Folded("items", start, done)
            /\ start \in Readings /\ ~start.stuck /\ ~start.ended
            /\ start.wants = "nothing"
            /\ word \in DOMAIN Vocabulary /\ word # Terminator
  BY DEF Amid
<1>5. ReadTo(optind) = ReadWord(start, word)
  <2>1. optind - 1 \in Nat /\ optind - 1 < Len(argv) /\ (optind - 1) + 1 = optind
    BY <1>1
  <2> QED
    BY <2>1, ReadToNext
<1> HIDE DEF word, start, m
<1>6. PICK means, done :
            /\ done \in Seq(Items)
            /\ Explains(word, means)
            /\ m \in 1 .. Len(word) - 1
            /\ letters = Letters(word, m)
            /\ Vocabulary[word] = done \o means[m]
            /\ r = Folded("items", start, done)
            /\ start \in Readings /\ ~start.stuck /\ ~start.ended
            /\ start.wants = "nothing"
            /\ word \in DOMAIN Vocabulary /\ word # Terminator
  BY <1>4
<1>7. ReadWord(start, word) = Folded("items", start, Vocabulary[word])
  <2>1. ~start.stuck /\ ~start.ended /\ start.wants = "nothing"
    BY <1>6
  <2> QED
    BY <1>6, <2>1, WordFolds
<1>8. m \in Nat /\ m \in 1 .. Len(word)
  BY <1>3, <1>6
<1>9. /\ letters \in WordType
      /\ Tail(letters) = Letters(word, m - 1) /\ Len(Tail(letters)) = m - 1
  <2>1. /\ Letters(word, m) \in WordType
        /\ Tail(Letters(word, m)) = Letters(word, m - 1)
        /\ Len(Letters(word, m - 1)) = m - 1
    BY <1>2, <1>8, LettersOf
  <2> QED
    BY <1>6, <2>1
<1>10. ReadTo(optind) = Folded("items", start, Vocabulary[word])
  BY <1>5, <1>7
<1>11. word = argv[optind] /\ start = ReadTo(optind - 1) /\ m = Len(letters)
  BY DEF word, start, m
<1>12. AmidOf(word, means, start, done, m, r, letters)
  BY <1>2, <1>3, <1>6, <1>8, <1>9, <1>10, <1>11 DEF AmidOf
<1> QED
  BY <1>12

\* What the letters mean: the items of the first, and what is left to read.
LEMMA AmidMeans ==
  ASSUME WordsInv, optind \in 1 .. Len(argv), NEW r, NEW letters, Amid(r, letters)
  PROVE  \E rest \in Seq(Items) : Tells(r, letters, rest)
<1>1. PICK word, means, start, done, m : AmidOf(word, means, start, done, m, r, letters)
  BY AmidGives
<1>2. /\ word = argv[optind] /\ start = ReadTo(optind - 1)
      /\ m = Len(letters)
      /\ Explains(word, means)
      /\ m \in 1 .. Len(word) - 1
      /\ letters = Letters(word, m)
      /\ Vocabulary[word] = done \o means[m]
      /\ r = Folded("items", start, done)
      /\ start \in Readings /\ ~start.stuck /\ ~start.ended
      /\ start.wants = "nothing"
      /\ word \in DOMAIN Vocabulary /\ word # Terminator
      /\ ReadTo(optind) = Folded("items", start, Vocabulary[word])
      /\ Len(word) \in Nat
      /\ letters \in WordType
      /\ Tail(letters) = Letters(word, m - 1) /\ Len(Tail(letters)) = m - 1
      /\ word \in WordType /\ done \in Seq(Items) /\ m \in Nat
  BY <1>1 DEF AmidOf
<1>3. /\ Explains(word, means) /\ m \in 1 .. Len(word) - 1
      /\ Vocabulary[word] = done \o means[m]
      /\ word \in WordType /\ done \in Seq(Items)
  BY <1>2
<1> DEFINE rest == means[m - 1]
           items == MeaningOf(letters, rest)
<1>4. /\ means[m] = items
      /\ rest \in Seq(Items)
      /\ \A x \in Items :
              /\ Append(done, x) \in Seq(Items)
              /\ Folded("items", start, Append(done, x)) = ReadItem(r, x)
              /\ items = <<x>> => Vocabulary[word] = Append(done, x)
              /\ items = <<x>> \o rest => Vocabulary[word] = Append(done, x) \o rest
      /\ \A x, y \in Items : items = <<x, y>> =>
              ReadTo(optind) = ReadItem(ReadItem(r, x), y)
  <2> HIDE DEF Items, WordType
  <2>1. /\ means[m] = MeaningOf(Letters(word, m), rest)
        /\ rest \in Seq(Items)
        /\ \A x \in Items :
              /\ Append(done, x) \in Seq(Items)
              /\ Folded("items", start, Append(done, x))
                   = ReadItem(Folded("items", start, done), x)
              /\ means[m] = <<x>> => Vocabulary[word] = Append(done, x)
              /\ means[m] = <<x>> \o means[m - 1] =>
                   Vocabulary[word] = Append(done, x) \o means[m - 1]
        /\ \A x, y \in Items : means[m] = <<x, y>> =>
              Folded("items", start, Vocabulary[word])
                = ReadItem(ReadItem(Folded("items", start, done), x), y)
    <3>1. ItemsLeft(word, means, m, start, done)
      BY <1>3, LettersLeft
    <3> QED
      BY <3>1 DEF ItemsLeft
  <2>2. means[m] = items
    BY <1>2, <2>1
  <2>3. r = Folded("items", start, done) /\ ReadTo(optind) = Folded("items", start, Vocabulary[word])
    BY <1>2
  <2> HIDE DEF items
  <2> QED
    BY <2>1, <2>2, <2>3
<1> HIDE DEF items, Items
<1>5. \A x \in Items : items = <<x>> => ReadTo(optind) = ReadItem(r, x)
  BY <1>2, <1>4
<1>6. ASSUME NEW x \in Items, items = <<x>> \o rest
      PROVE  IF Tail(letters) = <<>> THEN ReadTo(optind) = ReadItem(r, x)
             ELSE Amid(ReadItem(r, x), Tail(letters))
  <2> DEFINE u == Append(done, x)
  <2>1. u \in Seq(Items) /\ Vocabulary[word] = u \o rest
        /\ Folded("items", start, u) = ReadItem(r, x)
    BY <1>4, <1>6
  <2> HIDE DEF u
  <2>2. m \in Nat /\ m >= 1 /\ m <= Len(word) - 1 /\ Len(word) \in Nat
        /\ Len(Tail(letters)) = m - 1 /\ Tail(letters) = Letters(word, m - 1)
    BY <1>2
  <2>3. CASE Tail(letters) = <<>>
    <3>1. m - 1 = 0
      BY <2>2, <2>3
    <3>2. means[0] = <<>>
      BY <1>3 DEF Explains
    <3>3. u \o rest = u
      BY <2>1, <3>1, <3>2
    <3> QED
      BY <1>2, <2>1, <2>3, <3>3
  <2>4. CASE Tail(letters) # <<>>
    <3>1. m - 1 # 0
      <4>1. CASE m - 1 = 0
        <5>1. Tail(letters) = SubSeq(word, Len(word) + 1, Len(word))
          BY <2>2, <4>1 DEF Letters
        <5>2. Tail(letters) = <<>>
          BY <5>1, <2>2 DEF WordType
        <5> QED
          BY <2>4, <5>2
      <4> QED
        BY <4>1
    <3>2. m - 1 \in 1 .. Len(word) - 1
      BY <2>2, <3>1
    <3> DEFINE t == Tail(letters)
    <3>3. /\ Explains(word, means)
          /\ Len(t) \in 1 .. Len(word) - 1
          /\ t = Letters(word, Len(t))
          /\ Vocabulary[word] = u \o means[Len(t)]
          /\ ReadItem(r, x) = Folded("items", start, u)
          /\ start \in Readings /\ ~start.stuck /\ ~start.ended
          /\ start.wants = "nothing"
          /\ word \in DOMAIN Vocabulary /\ word # Terminator
          /\ word = argv[optind] /\ start = ReadTo(optind - 1)
      BY <1>2, <2>1, <2>2, <3>2
    <3> HIDE DEF t
    <3>4. Amid(ReadItem(r, x), t)
      BY <2>1, <3>3 DEF Amid
    <3> QED
      BY <2>4, <3>4 DEF t
  <2> QED
    BY <2>3, <2>4
<1>7. rest \in Seq(Items) /\ \A x, y \in Items : items = <<x, y>> =>
                      ReadTo(optind) = ReadItem(ReadItem(r, x), y)
  BY <1>4
<1>8. Tells(r, letters, rest)
  BY <1>5, <1>6, <1>7 DEF items, Tells
<1> QED
  BY <1>7, <1>8

\* The reading speaks of nothing that changes.
LEMMA ReadStays ==
  ASSUME UNCHANGED posixly_correct, NEW CONSTANT line
  PROVE  Read(line)' = Read(line)
<1> DEFINE S == DOMAIN line
           P(g) == g = [s \in SUBSET S |-> IF s = {} THEN Unread
                            ELSE LET x == Max(s) IN ReadWord(g[s \ {x}], line[x])]
<1>1. \A r, x : ReadWord(r, x)' = ReadWord(r, x)
  BY DEF ReadWord
<1>2. ASSUME NEW CONSTANT g PROVE P(g)' <=> P(g)
  BY <1>1
<1>3. (CHOOSE g : P(g)') = (CHOOSE g : P(g))
  <2> HIDE DEF P
  <2> QED
    BY <1>2
<1>4. Read(line) = (CHOOSE g : P(g))[S]
  BY DEF Read, FoldLeft, MapThenFoldSet
<1>5. Read(line)' = (CHOOSE g : P(g)')[S]
  BY DEF Read, FoldLeft, MapThenFoldSet
<1> QED
  BY <1>3, <1>4, <1>5

\* The reading of the first words depends on nothing else.
LEMMA ReadToStays ==
  ASSUME UNCHANGED <<argv, posixly_correct>>, NEW CONSTANT p
  PROVE  ReadTo(p)' = ReadTo(p)
<1> DEFINE line == SubSeq(argv, 1, p)
<1>1. PICK rigid : rigid = line
  OBVIOUS
<1>2. line' = rigid
  BY <1>1
<1>3. ReadTo(p) = Read(rigid) /\ ReadTo(p)' = Read(rigid)'
  BY <1>1, <1>2 DEF ReadTo
<1>4. Read(rigid)' = Read(rigid)
  BY ReadStays
<1> QED
  BY <1>3, <1>4

\* Nor does a folding.
LEMMA FoldedStays ==
  ASSUME UNCHANGED posixly_correct, NEW CONSTANT reads, NEW CONSTANT base, NEW CONSTANT q
  PROVE  Folded(reads, base, q)' = Folded(reads, base, q)
<1> DEFINE S == DOMAIN q
           P(g) == g = [s \in SUBSET S |-> IF s = {} THEN base
                            ELSE LET x == Max(s) IN Step(reads, g[s \ {x}], q[x])]
<1>1. \A r, x : Step(reads, r, x)' = Step(reads, r, x)
  BY DEF Step, ReadWord
<1>2. ASSUME NEW CONSTANT g PROVE P(g)' <=> P(g)
  BY <1>1
<1>3. (CHOOSE g : P(g)') = (CHOOSE g : P(g))
  <2> HIDE DEF P
  <2> QED
    BY <1>2
<1>4. Folded(reads, base, q) = (CHOOSE g : P(g))[S]
  BY DEF Folded, FoldsUp
<1>5. Folded(reads, base, q)' = (CHOOSE g : P(g)')[S]
  BY DEF Folded, FoldsUp
<1> QED
  BY <1>3, <1>4, <1>5

\* Nor the reading in the middle of a word.
LEMMA AmidStays ==
  ASSUME UNCHANGED <<argv, posixly_correct, optind>>, NEW CONSTANT r, NEW CONSTANT letters,
         Amid(r, letters)
  PROVE  Amid(r, letters)'
<1>1. PICK word, start : word = argv[optind] /\ start = ReadTo(optind - 1)
  OBVIOUS
<1>2. argv'[optind'] = word /\ ReadTo(optind - 1)' = start
  <2>1. PICK p : p = optind - 1
    OBVIOUS
  <2>2. ReadTo(p)' = ReadTo(p)
    BY ReadToStays
  <2> QED
    BY <1>1, <2>1, <2>2
<1>3. PICK means, done :
            /\ done \in Seq(Items)
            /\ Explains(word, means)
            /\ Len(letters) \in 1 .. Len(word) - 1
            /\ letters = Letters(word, Len(letters))
            /\ Vocabulary[word] = done \o means[Len(letters)]
            /\ r = Folded("items", start, done)
            /\ start \in Readings /\ ~start.stuck /\ ~start.ended
            /\ start.wants = "nothing"
            /\ word \in DOMAIN Vocabulary /\ word # Terminator
  BY <1>1 DEF Amid
<1>4. Folded("items", start, done)' = Folded("items", start, done)
  BY FoldedStays
<1> QED
  BY <1>2, <1>3, <1>4 DEF Amid

\* Nor a word that is read for ever.
LEMMA SticksStays ==
  ASSUME UNCHANGED <<argv, optind>>, NEW CONSTANT letters, Sticks(letters)
  PROVE  Sticks(letters)'
<1>1. PICK word : word = argv[optind]
  OBVIOUS
<1> QED
  BY <1>1 DEF Sticks

\* A long option ends in no dash of its own.
LEMMA LongNotDashed ==
  ASSUME NEW long
  PROVE  ~Dashed(LongItems(long))
<1>1. /\ Mistake.kind # "dash" /\ \A entry : Flag(entry).kind # "dash"
      /\ \A form : ToNextWord(form).kind # "dash"
      /\ \A name : ToFile(name).kind # "dash"
  BY DEF Mistake, Flag, ToNextWord, ToFile
<1>2. \A x : Len(<<x>>) = 1 /\ <<x>>[1] = x
  OBVIOUS
<1>3. \A x, y : Len(<<x, y>>) = 2 /\ <<x, y>>[2] = y
  OBVIOUS
<1>4. \A x : x.kind # "dash" => ~Dashed(<<x>>)
  BY <1>2 DEF Dashed
<1>5. \A x, y : y.kind # "dash" => ~Dashed(<<x, y>>)
  BY <1>3 DEF Dashed
<1> DEFINE matches == LongMatches(NameOf(long))
           entry == LongOption[CHOOSE n \in matches : TRUE]
<1>6. \/ LongItems(long) = <<Mistake>>
      \/ LongItems(long) = <<Flag(entry)>>
      \/ LongItems(long) = <<ToNextWord("long")>>
      \/ LongItems(long) = <<ToFile(<<>>), Mistake>>
      \/ LongItems(long) = <<ToFile(ValueOf(long))>>
  BY DEF LongItems
<1> HIDE DEF entry
<1> QED
  BY <1>1, <1>4, <1>5, <1>6

\* One item in front of others leaves them the last.
LEMMA DashedRest ==
  ASSUME NEW S, NEW x \in S, NEW rest \in Seq(S), x.kind # "dash", Dashed(<<x>> \o rest)
  PROVE  Dashed(rest)
<1>1. CASE rest = <<>>
  <2>1. <<x>> \o rest = <<x>> /\ Len(<<x>>) = 1 /\ <<x>>[1] = x
    BY <1>1
  <2> QED
    BY <2>1 DEF Dashed
<1>2. CASE rest # <<>>
  <2> DEFINE n == Len(rest)
             all == <<x>> \o rest
  <2>1. n \in Nat /\ n >= 1 /\ Len(all) = n + 1 /\ all[n + 1] = rest[n]
    BY <1>2
  <2> HIDE DEF all
  <2>2. all[Len(all)].kind = "dash"
    BY DEF Dashed, all
  <2> QED
    BY <1>2, <2>1, <2>2 DEF Dashed
<1> QED
  BY <1>1, <1>2

\* The next letter of such a word.
LEMMA StickNext ==
  ASSUME WordsInv, optind \in 1 .. Len(argv), NEW letters, letters # <<>>, Sticks(letters)
  PROVE  /\ Sticks(<<>>)
         /\ \/ letters = <<"-">>
            \/ /\ letters[1] # "-"
               /\ \/ letters[1] \notin DOMAIN ShortOption
                  \/ ShortOption[letters[1]] \in Flags
               /\ Tail(letters) # <<>>
               /\ Sticks(Tail(letters))
<1> DEFINE word == argv[optind]
           m == Len(letters)
<1>1. argv \in Seq(WordType) /\ Len(argv) \in Nat
  BY LineTyped DEF WordsInv
<1>2. word \in WordType
  <2> HIDE DEF WordType
  <2> QED
    BY <1>1
<1>3. Len(word) \in Nat
  BY <1>2 DEF WordType
<1>4. Sticks(<<>>)
  BY DEF Sticks
<1>5. PICK means :
        /\ Explains(word, means)
        /\ Dashed(means[Len(word) - 1])
        /\ m \in 1 .. Len(word) - 1
        /\ letters = Letters(word, m)
        /\ Dashed(means[m])
  BY DEF Sticks
<1>6. IsOption(word) /\ word # Terminator
  BY DEF Sticks
<1> DEFINE rest == means[m - 1]
<1>7. m \in Nat /\ m \in 1 .. Len(word) /\ m - 1 \in 0 .. Len(word) - 1
  <2> HIDE DEF word, m
  <2> QED
    BY <1>3, <1>5
<1>8. means[m] = MeaningOf(letters, rest) /\ rest \in Seq(Items)
  BY <1>5, <1>7 DEF Explains
<1>9. Tail(letters) = Letters(word, m - 1) /\ Len(Tail(letters)) = m - 1
  <2>1. /\ Tail(Letters(word, m)) = Letters(word, m - 1)
        /\ Len(Letters(word, m - 1)) = m - 1
    <3> HIDE DEF word, m
    <3> QED
      BY <1>2, <1>7, LettersOf
  <2> QED
    BY <1>5, <2>1
<1>10. CASE letters = <<"-">>
  BY <1>4, <1>10
<1>11. CASE letters # <<"-">>
  <2>1. letters[1] # "-"
    BY <1>5, <1>8, <1>11, LongNotDashed DEF MeaningOf
  <2>2. \/ letters[1] \notin DOMAIN ShortOption /\ means[m] = <<Mistake>> \o rest
        \/ /\ ShortOption[letters[1]] \in Flags
           /\ means[m] = <<Flag(ShortOption[letters[1]])>> \o rest
    <3>1. ~Dashed(<<ToNextWord("short")>>) /\ ~Dashed(<<ToFile(Tail(letters))>>)
      <4>1. \A x : x.kind # "dash" => ~Dashed(<<x>>)
        <5>1. \A x : Len(<<x>>) = 1 /\ <<x>>[1] = x
          OBVIOUS
        <5> QED
          BY <5>1 DEF Dashed
      <4>2. ToNextWord("short").kind # "dash" /\ ToFile(Tail(letters)).kind # "dash"
        BY DEF ToNextWord, ToFile
      <4> QED
        BY <4>1, <4>2
    <3> HIDE DEF rest, m
    <3> QED
      BY <1>5, <1>8, <1>11, <2>1, <3>1 DEF MeaningOf
  <2>3. Dashed(rest)
    <3> HIDE DEF rest, m, word
    <3>1. CASE means[m] = <<Mistake>> \o rest
      <4>1. Mistake \in Items /\ Mistake.kind # "dash"
        BY DEF Items, Mistake
      <4> HIDE DEF Items
      <4> QED
        BY <1>5, <1>8, <3>1, <4>1, DashedRest
    <3>2. CASE ShortOption[letters[1]] \in Flags
               /\ means[m] = <<Flag(ShortOption[letters[1]])>> \o rest
      <4> DEFINE x == Flag(ShortOption[letters[1]])
      <4>1. x \in Items /\ x.kind # "dash"
        BY <3>2 DEF Items, Flag
      <4>2. means[m] = <<x>> \o rest
        BY <3>2
      <4> HIDE DEF Items, x
      <4> QED
        BY <1>5, <1>8, <4>1, <4>2, DashedRest
    <3> QED
      BY <2>2, <3>1, <3>2
  <2>4. m - 1 # 0
    <3>1. means[0] = <<>>
      BY <1>5 DEF Explains
    <3> QED
      BY <2>3, <3>1 DEF Dashed
  <2>5. m - 1 \in 1 .. Len(word) - 1
    <3> HIDE DEF m, word
    <3> QED
      BY <1>7, <2>4
  <2>6. Tail(letters) # <<>>
    <3>1. Len(<<>>) = 0
      OBVIOUS
    <3> QED
      BY <1>9, <2>4, <3>1
  <2>7. Sticks(Tail(letters))
    <3> DEFINE t == Tail(letters)
    <3>1. /\ Len(t) \in 1 .. Len(word) - 1
          /\ t = Letters(word, Len(t))
          /\ Dashed(means[Len(t)])
      BY <1>9, <2>3, <2>5
    <3> HIDE DEF t
    <3>2. Sticks(t)
      BY <1>5, <1>6, <3>1 DEF Sticks
    <3> QED
      BY <3>2 DEF t
  <2> QED
    BY <1>4, <2>1, <2>2, <2>6, <2>7
<1> QED
  BY <1>10, <1>11

\* Its first letter.
LEMMA StickStart ==
  ASSUME WordsInv, optind \in 1 .. Len(argv), Sticks(<<>>)
  PROVE  Tail(argv[optind]) # <<>> /\ Sticks(Tail(argv[optind]))
<1> DEFINE word == argv[optind]
<1>1. argv \in Seq(WordType) /\ Len(argv) \in Nat
  BY LineTyped DEF WordsInv
<1>2. word \in WordType
  <2> HIDE DEF WordType
  <2> QED
    BY <1>1
<1>3. PICK means : Explains(word, means) /\ Dashed(means[Len(word) - 1])
  BY DEF Sticks
<1>4. IsOption(word) /\ word # Terminator
  BY DEF Sticks
<1>5. Len(word) \in Nat /\ Len(word) > 1
  BY <1>2, <1>4 DEF WordType, IsOption
<1>6. Tail(word) = Letters(word, Len(word) - 1) /\ Len(Tail(word)) = Len(word) - 1
  <2>1. Len(word) \in 1 .. Len(word) /\ Len(word) - 1 \in 1 .. Len(word)
    BY <1>5
  <2> HIDE DEF word
  <2> QED
    BY <1>2, <2>1, LettersOf
<1> DEFINE t == Tail(word)
<1>7. /\ t # <<>>
      /\ Len(t) \in 1 .. Len(word) - 1 /\ t = Letters(word, Len(t))
      /\ Dashed(means[Len(t)])
  <2>1. Len(<<>>) = 0
    OBVIOUS
  <2>2. t = Letters(word, Len(word) - 1) /\ Len(t) = Len(word) - 1
    BY <1>6
  <2> HIDE DEF word, t
  <2>3. Len(t) \in 1 .. Len(word) - 1
    BY <1>5, <2>2
  <2>4. t # <<>>
    BY <2>1, <2>3
  <2>5. t = Letters(word, Len(t)) /\ Dashed(means[Len(t)])
    BY <1>3, <2>2
  <2> QED
    BY <2>3, <2>4, <2>5
<1> HIDE DEF t
<1>8. Sticks(t)
  BY <1>3, <1>4, <1>7 DEF Sticks
<1> QED
  BY <1>7, <1>8 DEF t

\* A dash read at the end of the letters is the one the word ends in.
LEMMA AmidSticks ==
  ASSUME Faithful, WordsInv, optind \in 1 .. Len(argv), NEW r, Amid(r, <<"-">>)
  PROVE  Sticks(<<>>)
<1> DEFINE letters == <<"-">>
<1>1. PICK word, means, start, done, m : AmidOf(word, means, start, done, m, r, letters)
  BY AmidGives
<1>2. /\ word = argv[optind] /\ Explains(word, means) /\ m \in 1 .. Len(word) - 1
      /\ letters = Letters(word, m) /\ Vocabulary[word] = done \o means[m]
      /\ word \in WordType /\ done \in Seq(Items) /\ word \in DOMAIN Vocabulary
      /\ word # Terminator /\ Len(word) \in Nat
  BY <1>1 DEF AmidOf
<1>3. means[m] = <<LoneDash>> /\ Vocabulary[word] = means[Len(word) - 1]
  BY <1>2 DEF Explains, MeaningOf
<1>4. LoneDash \in Items /\ LoneDash.kind = "dash"
  BY DEF Items, LoneDash
<1>5. done \o <<LoneDash>> = Append(done, LoneDash)
      /\ Len(Append(done, LoneDash)) = Len(done) + 1 /\ Len(done) \in Nat
      /\ Append(done, LoneDash)[Len(done) + 1] = LoneDash
      /\ Append(done, LoneDash) # <<>>
  <2> HIDE DEF Items
  <2> QED
    BY <1>2, <1>4
<1>6. Dashed(means[Len(word) - 1])
  BY <1>2, <1>3, <1>4, <1>5 DEF Dashed
<1>7. IsOption(word)
  <2>1. argv \in CommandLines /\ argv \in Seq(WordType)
    BY LineTyped DEF WordsInv
  <2>2. word \in ToSet(argv)
    <3> HIDE DEF WordType
    <3> QED
      BY <1>2, <2>1 DEF ToSet
  <2> QED
    BY <1>2, <2>1, <2>2 DEF Faithful
<1> QED
  BY <1>2, <1>6, <1>7 DEF Sticks

-----------------------------------------------------------------------------
(* What has been scanned of a reading.                                     *)

\* What an entry for files keeps of the names it is given.
Kept(names) == SubSeq(names, 1, IF Len(names) < 3 THEN Len(names) ELSE 3)

\* Nothing in the reading is an error, operands and missing files apart.
Sound(r) == ~r.wrong /\ r.wants = "nothing" /\ ~Repeats(r) /\ Len(r.outs) <= 3

\* The options of the reading have been scanned, and their faults counted.
Scanned(r) ==
    /\ \A f \in Flags : given[f] = IF f \in ToSet(r.flags) THEN <<<<>>>> ELSE <<>>
    /\ given["outputfile"] = Kept(r.outs)
    /\ Cardinality(ToSet(r.flags)) <= Len(r.flags)
Seen(r) == Scanned(r) /\ (errors = 0 <=> Sound(r))

\* No error is known exactly if there was none before and none is added.
LEMMA RegistersNone ==
  ASSUME GivenInv, NEW n \in Nat, arg_register_error(n)
  PROVE  errors' = 0 <=> errors = 0 /\ n = 0
<1>1. errors \in 0 .. MaxErrors /\ MaxErrors \in Nat \ {0}
  BY CommandLineAssumption DEF GivenInv
<1> QED
  BY <1>1 DEF arg_register_error

\* One name more for an entry for files.
LEMMA KeptAppend ==
  ASSUME NEW S, NEW names \in Seq(S), NEW name \in S
  PROVE  /\ Kept(names) \in Seq(S)
         /\ Len(Kept(names)) < 3 <=> Len(names) < 3
         /\ Kept(Append(names, name)) =
              IF Len(names) < 3 THEN Append(Kept(names), name) ELSE Kept(names)
<1>1. Len(names) \in Nat /\ Len(Append(names, name)) = Len(names) + 1
      /\ Append(names, name) \in Seq(S)
  OBVIOUS
<1>2. CASE Len(names) < 3
  <2>1. Kept(names) = names
    BY <1>1, <1>2 DEF Kept
  <2>2. Kept(Append(names, name)) = Append(names, name)
    <3> DEFINE q == Append(names, name)
    <3>1. ~(Len(q) < 3) => Len(q) = 3
      BY <1>1, <1>2
    <3>2. q \in Seq(S)
      BY <1>1
    <3> HIDE DEF q
    <3>3. SubSeq(q, 1, Len(q)) = q
      BY <3>2
    <3>4. Kept(q) = SubSeq(q, 1, Len(q))
      BY <3>1 DEF Kept
    <3> QED
      BY <3>3, <3>4 DEF q
  <2> QED
    BY <1>2, <2>1, <2>2
<1>3. CASE ~(Len(names) < 3)
  <2>1. Kept(names) = SubSeq(names, 1, 3)
    BY <1>3 DEF Kept
  <2>2. Kept(Append(names, name)) = SubSeq(Append(names, name), 1, 3)
    <3>1. ~(Len(Append(names, name)) < 3)
      BY <1>1, <1>3
    <3> QED
      BY <3>1 DEF Kept
  <2> DEFINE q == Append(names, name)
             u == SubSeq(q, 1, 3)
             v == SubSeq(names, 1, 3)
  <2>3. v \in Seq(S) /\ Len(v) = 3 /\ \A i \in 1 .. 3 : v[i] = names[i]
    BY <1>1, <1>3
  <2>4. q \in Seq(S) /\ Len(q) \in Nat /\ Len(q) >= 3 /\ \A i \in 1 .. 3 : q[i] = names[i]
    BY <1>1, <1>3
  <2>5. u = v
    <3> HIDE DEF q, v
    <3>1. u \in Seq(S) /\ Len(u) = 3 /\ \A i \in 1 .. 3 : u[i] = q[i]
      BY <2>4
    <3> HIDE DEF u
    <3> QED
      BY <2>3, <2>4, <3>1
  <2> QED
    BY <1>3, <2>1, <2>2, <2>3, <2>5
<1> QED
  BY <1>2, <1>3

\* An error.
LEMMA SeenFault ==
  ASSUME GivenInv, NEW CONSTANT r, NEW CONSTANT q, Seen(r),
         UNCHANGED given, arg_register_error(1),
         q.flags = r.flags, q.outs = r.outs, q.wrong \/ q.wants # "nothing"
  PROVE  Seen(q)'
<1>1. errors' # 0
  BY RegistersNone
<1>2. ~Sound(q)
  BY DEF Sound
<1>3. given' = given
  OBVIOUS
<1> QED
  BY <1>1, <1>2, <1>3 DEF Seen, Scanned

\* A flag.
LEMMA SeenFlag ==
  ASSUME GivenInv, NEW CONSTANT r \in Readings, NEW CONSTANT q \in Readings, Seen(r),
         NEW CONSTANT f \in Flags,
         arg_scanfn(f, <<>>), arg_register_error(ScanErrors(f)),
         q.flags = Append(r.flags, f), q.outs = r.outs, q.wrong = r.wrong,
         q.wants = r.wants
  PROVE  Seen(q)' /\ given'["inputfile"] = given["inputfile"]
<1>1. /\ given \in [Entries -> Seq(WordType)] /\ f \in Entries /\ f \notin Files
      /\ "outputfile" \in Entries /\ "inputfile" \in Entries
      /\ "outputfile" # f /\ "inputfile" # f
      /\ MaxCount(f) = 1 /\ \A x \in Flags : x \in Entries
  BY DEF GivenInv, Entries, Flags, Files, MaxCount
<1>2. given' = [given EXCEPT ![f] = IF Accepts(f) THEN Append(@, <<>>) ELSE @]
  BY DEF arg_scanfn
<1>3. Accepts(f) <=> f \notin ToSet(r.flags)
  <2>1. given[f] = IF f \in ToSet(r.flags) THEN <<<<>>>> ELSE <<>>
    BY DEF Seen, Scanned
  <2>2. Len(<<<<>>>>) = 1 /\ Len(<<>>) = 0
    OBVIOUS
  <2> QED
    BY <1>1, <2>1, <2>2 DEF Accepts
<1>4. r.flags \in Seq(Flags) /\ ToSet(r.flags) \in SUBSET Flags
  <2>1. r.flags \in Seq(Flags)
    BY DEF Readings
  <2> QED
    BY <2>1 DEF ToSet
<1>5. ToSet(q.flags) = ToSet(r.flags) \cup {f} /\ Len(q.flags) = Len(r.flags) + 1
      /\ Len(r.flags) \in Nat
  <2> HIDE DEF Flags
  <2>1. /\ Len(q.flags) = Len(r.flags) + 1 /\ Len(r.flags) \in Nat
        /\ DOMAIN q.flags = 1 .. Len(r.flags) + 1 /\ DOMAIN r.flags = 1 .. Len(r.flags)
        /\ q.flags[Len(r.flags) + 1] = f
        /\ \A i \in 1 .. Len(r.flags) : q.flags[i] = r.flags[i]
    BY <1>4
  <2>2. 1 .. Len(r.flags) + 1 = 1 .. Len(r.flags) \cup {Len(r.flags) + 1}
    BY <2>1
  <2> QED
    BY <2>1, <2>2 DEF ToSet
<1>6. \A x \in Flags : given'[x] = IF x \in ToSet(q.flags) THEN <<<<>>>> ELSE <<>>
  <2> SUFFICES ASSUME NEW x \in Flags
               PROVE  given'[x] = IF x \in ToSet(q.flags) THEN <<<<>>>> ELSE <<>>
    OBVIOUS
  <2>1. given[x] = IF x \in ToSet(r.flags) THEN <<<<>>>> ELSE <<>>
    BY DEF Seen, Scanned
  <2>2. CASE x = f
    <3>1. given'[x] = IF Accepts(f) THEN Append(given[f], <<>>) ELSE given[f]
      BY <1>1, <1>2, <2>2
    <3>2. Append(<<>>, <<>>) = <<<<>>>>
      OBVIOUS
    <3> QED
      BY <1>3, <1>5, <2>1, <2>2, <3>1, <3>2
  <2>3. CASE x # f
    <3>1. given'[x] = given[x]
      BY <1>1, <1>2, <2>3
    <3> QED
      BY <1>5, <2>1, <2>3, <3>1
  <2> QED
    BY <2>2, <2>3
<1>7. given'["outputfile"] = given["outputfile"] /\ given'["inputfile"] = given["inputfile"]
  BY <1>1, <1>2
<1>8. IsFiniteSet(ToSet(r.flags)) /\ Cardinality(ToSet(r.flags)) \in Nat
  <2>1. IsFiniteSet(Flags)
    <3>1. Flags = (({} \cup {"help"}) \cup {"version"}) \cup {"verbose"}
      BY DEF Flags
    <3> QED
      BY <3>1, FS_EmptySet, FS_AddElement
  <2> QED
    BY <1>4, <2>1, FS_Subset, FS_CardinalityType
<1>9. Cardinality(ToSet(q.flags)) = Cardinality(ToSet(r.flags))
                                      + IF f \in ToSet(r.flags) THEN 0 ELSE 1
  <2>1. CASE f \in ToSet(r.flags)
    <3>1. ToSet(q.flags) = ToSet(r.flags)
      BY <1>5, <2>1
    <3> QED
      BY <1>8, <2>1, <3>1
  <2>2. CASE f \notin ToSet(r.flags)
    <3>1. Cardinality(ToSet(r.flags) \cup {f}) = Cardinality(ToSet(r.flags)) + 1
      BY <1>8, <2>2, FS_AddElement
    <3> QED
      BY <1>5, <2>2, <3>1
  <2> QED
    BY <2>1, <2>2
<1>10. Cardinality(ToSet(r.flags)) <= Len(r.flags) /\ (errors = 0 <=> Sound(r))
       /\ given["outputfile"] = Kept(r.outs)
  BY DEF Seen, Scanned
<1>11. Repeats(q) <=> Repeats(r) \/ f \in ToSet(r.flags)
  BY <1>5, <1>8, <1>9, <1>10 DEF Repeats
<1>12. errors' = 0 <=> errors = 0 /\ f \notin ToSet(r.flags)
  <2>1. ScanErrors(f) = IF f \in ToSet(r.flags) THEN 1 ELSE 0
    BY <1>3 DEF ScanErrors
  <2>2. ScanErrors(f) \in Nat
    BY <2>1
  <2> QED
    BY <2>1, <2>2, RegistersNone
<1>13. errors' = 0 <=> Sound(q)
  BY <1>10, <1>11, <1>12 DEF Sound
<1>14. Cardinality(ToSet(q.flags)) <= Len(q.flags)
  BY <1>5, <1>8, <1>9, <1>10
<1> QED
  BY <1>6, <1>7, <1>10, <1>13, <1>14 DEF Seen, Scanned

\* An output file, its name an error or not.
LEMMA SeenValue ==
  ASSUME GivenInv, NEW CONSTANT r \in Readings, NEW CONSTANT q \in Readings, Seen(r),
         r.wants = "nothing", NEW CONSTANT value \in WordType, NEW CONSTANT n \in {0, 1},
         arg_scanfn("outputfile", value), arg_register_error(ScanErrors("outputfile") + n),
         q.flags = r.flags, q.outs = Append(r.outs, value), q.wants = "nothing",
         q.wrong <=> r.wrong \/ n = 1
  PROVE  Seen(q)' /\ given'["inputfile"] = given["inputfile"]
<1>1. /\ given \in [Entries -> Seq(WordType)]
      /\ "outputfile" \in Entries /\ "inputfile" \in Entries
      /\ MaxCount("outputfile") = 3
      /\ \A x \in Flags : x \in Entries /\ x # "outputfile"
  BY DEF GivenInv, Entries, Flags, Files, MaxCount
<1>2. given' = [given EXCEPT !["outputfile"] = IF Accepts("outputfile")
                                               THEN Append(@, value) ELSE @]
  BY DEF arg_scanfn
<1>3. /\ \A f \in Flags : given[f] = IF f \in ToSet(r.flags) THEN <<<<>>>> ELSE <<>>
      /\ given["outputfile"] = Kept(r.outs)
      /\ Cardinality(ToSet(r.flags)) <= Len(r.flags)
      /\ errors = 0 <=> Sound(r)
  BY DEF Seen, Scanned
<1>4. r.outs \in Seq(WordType) /\ Len(r.outs) \in Nat /\ Len(q.outs) = Len(r.outs) + 1
  <2>1. r.outs \in Seq(WordType)
    BY DEF Readings
  <2> HIDE DEF WordType
  <2> QED
    BY <2>1
<1>5. /\ Len(given["outputfile"]) < 3 <=> Len(r.outs) < 3
      /\ Kept(q.outs) = IF Len(r.outs) < 3 THEN Append(Kept(r.outs), value) ELSE Kept(r.outs)
  <2> DEFINE outs == r.outs
  <2>1. outs \in Seq(WordType) /\ value \in WordType
    BY <1>4
  <2>2. q.outs = Append(outs, value) /\ given["outputfile"] = Kept(outs)
    BY <1>3
  <2> HIDE DEF WordType, outs
  <2>3. /\ Len(Kept(outs)) < 3 <=> Len(outs) < 3
        /\ Kept(Append(outs, value)) =
              IF Len(outs) < 3 THEN Append(Kept(outs), value) ELSE Kept(outs)
    BY <2>1, KeptAppend
  <2>4. /\ Len(given["outputfile"]) < 3 <=> Len(outs) < 3
        /\ Kept(q.outs) = IF Len(outs) < 3 THEN Append(Kept(outs), value) ELSE Kept(outs)
    BY <2>2, <2>3
  <2> QED
    BY <2>4 DEF outs
<1>6. Accepts("outputfile") <=> Len(r.outs) < 3
  BY <1>1, <1>5 DEF Accepts
<1>7. given'["outputfile"] = Kept(q.outs)
  BY <1>1, <1>2, <1>3, <1>5, <1>6
<1>8. given'["inputfile"] = given["inputfile"] /\ \A f \in Flags : given'[f] = given[f]
  BY <1>1, <1>2
<1>9. errors' = 0 <=> errors = 0 /\ n = 0 /\ Len(r.outs) < 3
  <2>1. ScanErrors("outputfile") = IF Len(r.outs) < 3 THEN 0 ELSE 1
    BY <1>6 DEF ScanErrors
  <2>2. ScanErrors("outputfile") + n \in Nat
        /\ (ScanErrors("outputfile") + n = 0 <=> n = 0 /\ Len(r.outs) < 3)
    BY <2>1
  <2> QED
    BY <2>2, RegistersNone
<1>10. Repeats(q) <=> Repeats(r)
  BY DEF Repeats
<1>11. errors' = 0 <=> Sound(q)
  BY <1>3, <1>4, <1>9, <1>10 DEF Sound
<1> QED
  BY <1>3, <1>7, <1>8, <1>11 DEF Seen, Scanned

-----------------------------------------------------------------------------
(* What each answer of getopt is in the reading.                           *)

\* A letter that stands for itself.
LEMMA LetterRead ==
  ASSUME WordsInv, optind \in 1 .. Len(argv), NEW r, NEW letters, Amid(r, letters),
         letters[1] # "-", NEW x,
         \/ letters[1] \notin DOMAIN ShortOption /\ x = Mistake
         \/ /\ letters[1] \in DOMAIN ShortOption /\ ShortOption[letters[1]] \in Flags
            /\ x = Flag(ShortOption[letters[1]])
  PROVE  IF Tail(letters) = <<>> THEN ReadTo(optind) = ReadItem(r, x)
         ELSE Amid(ReadItem(r, x), Tail(letters))
<1>1. PICK rest \in Seq(Items) : Tells(r, letters, rest)
  BY AmidMeans
<1>2. letters # <<"-">>
  <2>1. <<"-">>[1] = "-"
    OBVIOUS
  <2> QED
    BY <2>1
<1>3. MeaningOf(letters, rest) = <<x>> \o rest
  BY <1>2 DEF MeaningOf
<1>4. x \in Items
  BY DEF Items
<1> QED
  BY <1>1, <1>3, <1>4 DEF Tells

\* A letter that takes a value.
LEMMA LetterValue ==
  ASSUME WordsInv, optind \in 1 .. Len(argv), NEW r, NEW letters, Amid(r, letters),
         letters[1] # "-", letters[1] \in DOMAIN ShortOption,
         ShortOption[letters[1]] \in Files, Tail(letters) \in WordType
  PROVE  IF Tail(letters) = <<>> THEN ReadTo(optind) = ReadItem(r, ToNextWord("short"))
         ELSE ReadTo(optind) = ReadItem(r, ToFile(Tail(letters)))
<1>1. PICK rest \in Seq(Items) : Tells(r, letters, rest)
  BY AmidMeans
<1>2. letters # <<"-">>
  <2>1. <<"-">>[1] = "-"
    OBVIOUS
  <2> QED
    BY <2>1
<1>3. ShortOption[letters[1]] \notin Flags
  BY DEF Files, Flags
<1> DEFINE x == IF Tail(letters) = <<>> THEN ToNextWord("short") ELSE ToFile(Tail(letters))
<1>4. MeaningOf(letters, rest) = <<x>>
  BY <1>2, <1>3 DEF MeaningOf
<1>5. x \in Items
  BY DEF Items
<1> HIDE DEF x
<1>6. ReadTo(optind) = ReadItem(r, x)
  BY <1>1, <1>4, <1>5 DEF Tells
<1> QED
  BY <1>6 DEF x

\* The entries of the options.
LEMMA ShortEntry ==
  ASSUME NEW letter \in DOMAIN ShortOption
  PROVE  /\ ShortOption[letter] \in Flags \cup {"outputfile"}
         /\ ShortOption[letter] \in Files <=> ShortOption[letter] = "outputfile"
<1>1. ShortOption[letter] \in {"help", "version", "verbose", "outputfile"}
  BY DEF ShortOption
<1> QED
  BY <1>1 DEF Flags, Files

\* A long option is a flag or names the output file.
LEMMA LongEntryKind ==
  ASSUME NEW name, Cardinality(LongMatches(name)) = 1
  PROVE  LET entry == LongOption[CHOOSE n \in LongMatches(name) : TRUE]
         IN  /\ entry \in Flags \cup {"outputfile"}
             /\ entry \in Files <=> entry = "outputfile"
<1>1. LongMatches(name) \subseteq DOMAIN LongOption
  <2>1. \A n : <<n>>[1] = n
    OBVIOUS
  <2> QED
    BY <2>1 DEF LongMatches
<1>2. LongMatches(name) # {}
  BY FS_EmptySet
<1> DEFINE n == CHOOSE n \in LongMatches(name) : TRUE
<1>3. n \in DOMAIN LongOption
  BY <1>1, <1>2
<1>4. \A k \in DOMAIN LongOption :
        LongOption[k] \in {"help", "version", "verbose", "outputfile"}
  BY DEF LongOption
<1>5. LongOption[n] \in {"help", "version", "verbose", "outputfile"}
  BY <1>3, <1>4
<1> HIDE DEF n
<1>6. /\ LongOption[n] \in Flags \cup {"outputfile"}
      /\ LongOption[n] \in Files <=> LongOption[n] = "outputfile"
  BY <1>5 DEF Flags, Files
<1> QED
  BY <1>6 DEF n

\* A long option.
LEMMA LongRead ==
  ASSUME WordsInv, optind \in 1 .. Len(argv), NEW r, NEW letters, Amid(r, letters),
         letters[1] = "-", letters # <<"-">>,
         NEW long \in WordType, long = Tail(letters)
  PROVE  LET matches == LongMatches(NameOf(long))
             entry == LongOption[CHOOSE n \in matches : TRUE]
         IN  /\ Cardinality(matches) # 1 \/ (entry \notin Files /\ HasValue(long)) =>
                  ReadTo(optind) = ReadItem(r, Mistake)
             /\ Cardinality(matches) = 1 /\ entry \notin Files /\ ~HasValue(long) =>
                  ReadTo(optind) = ReadItem(r, Flag(entry))
             /\ Cardinality(matches) = 1 /\ entry \in Files /\ ~HasValue(long) =>
                  ReadTo(optind) = ReadItem(r, ToNextWord("long"))
             /\ Cardinality(matches) = 1 /\ entry \in Files /\ HasValue(long) =>
                  ReadTo(optind) =
                    IF ValueOf(long) = <<>> THEN ReadItem(ReadItem(r, ToFile(<<>>)), Mistake)
                    ELSE ReadItem(r, ToFile(ValueOf(long)))
<1>1. PICK rest \in Seq(Items) : Tells(r, letters, rest)
  BY AmidMeans
<1>2. MeaningOf(letters, rest) = LongItems(long)
  BY DEF MeaningOf
<1> DEFINE matches == LongMatches(NameOf(long))
           entry == LongOption[CHOOSE n \in matches : TRUE]
<1>3. Cardinality(matches) = 1 => entry \in Flags \cup {"outputfile"}
  BY LongEntryKind
<1>4. HasValue(long) => ValueOf(long) \in WordType
  BY ValueTyped
<1>5. <<>> \in WordType
  BY DEF WordType
<1>6. LongItems(long) =
        IF Cardinality(matches) # 1 \/ (entry \notin Files /\ HasValue(long))
        THEN <<Mistake>>
        ELSE IF entry \notin Files THEN <<Flag(entry)>>
        ELSE IF ~HasValue(long) THEN <<ToNextWord("long")>>
        ELSE IF ValueOf(long) = <<>> THEN <<ToFile(<<>>), Mistake>>
        ELSE <<ToFile(ValueOf(long))>>
  BY DEF LongItems
<1> HIDE DEF entry, matches, WordType
<1>7. ASSUME NEW x \in Items, LongItems(long) = <<x>>
      PROVE  ReadTo(optind) = ReadItem(r, x)
  BY <1>1, <1>2, <1>7 DEF Tells
<1>8. ASSUME NEW x \in Items, NEW y \in Items, LongItems(long) = <<x, y>>
      PROVE  ReadTo(optind) = ReadItem(ReadItem(r, x), y)
  BY <1>1, <1>2, <1>8 DEF Tells
<1>9. ASSUME Cardinality(matches) # 1 \/ (entry \notin Files /\ HasValue(long))
      PROVE  ReadTo(optind) = ReadItem(r, Mistake)
  <2>1. Mistake \in Items
    BY DEF Items
  <2>2. LongItems(long) = <<Mistake>>
    BY <1>6, <1>9
  <2> QED
    BY <1>7, <2>1, <2>2
<1>10. ASSUME Cardinality(matches) = 1, entry \notin Files, ~HasValue(long)
       PROVE  ReadTo(optind) = ReadItem(r, Flag(entry))
  <2>1. Flag(entry) \in Items
    BY <1>3, <1>10 DEF Items, Files
  <2>2. LongItems(long) = <<Flag(entry)>>
    BY <1>6, <1>10
  <2> QED
    BY <1>7, <2>1, <2>2
<1>11. ASSUME Cardinality(matches) = 1, entry \in Files, ~HasValue(long)
       PROVE  ReadTo(optind) = ReadItem(r, ToNextWord("long"))
  <2>1. ToNextWord("long") \in Items
    BY DEF Items
  <2>2. LongItems(long) = <<ToNextWord("long")>>
    BY <1>6, <1>11
  <2> QED
    BY <1>7, <2>1, <2>2
<1>12. ASSUME Cardinality(matches) = 1, entry \in Files, HasValue(long)
       PROVE  ReadTo(optind) =
                IF ValueOf(long) = <<>> THEN ReadItem(ReadItem(r, ToFile(<<>>)), Mistake)
                ELSE ReadItem(r, ToFile(ValueOf(long)))
  <2>1. Mistake \in Items /\ ToFile(<<>>) \in Items /\ ToFile(ValueOf(long)) \in Items
    BY <1>4, <1>5, <1>12 DEF Items
  <2>2. LongItems(long) = IF ValueOf(long) = <<>> THEN <<ToFile(<<>>), Mistake>>
                          ELSE <<ToFile(ValueOf(long))>>
    BY <1>6, <1>12
  <2>3. CASE ValueOf(long) = <<>>
    BY <1>8, <2>1, <2>2, <2>3
  <2>4. CASE ValueOf(long) # <<>>
    BY <1>7, <2>1, <2>2, <2>4
  <2> QED
    BY <2>3, <2>4
<1> QED
  BY <1>9, <1>10, <1>11, <1>12 DEF entry, matches

-----------------------------------------------------------------------------
(* The reading while getopt is at it.                                      *)

\* The operands skipped.
Operands ==
    IF nonopt_start = None THEN <<>>
    ELSE SubSeq(nargv, nonopt_start, (IF nonopt_end = None THEN optind ELSE nonopt_end) - 1)

\* getopt has read r.
Midway(r) ==
    /\ r \in Readings /\ ~r.stuck /\ ~r.ended
    /\ r.ins = Operands
    /\ Seen(r)
    /\ IF place = <<>>
       THEN r = ReadTo(optind - 1) /\ (r.wants # "nothing" => optind = Len(argv) + 1)
       ELSE Amid(r, place) /\ r.wants = "nothing"

\* getopt goes on for ever.
Stuck == optind <= Len(argv) /\ Sticks(place)

TaggedInv ==
    phase = "tagged" => given["inputfile"] = <<>> /\ (Stuck \/ \E r : Midway(r))

\* q is what getopt has read after its next answer.
Onwards(r, q) ==
    /\ q \in Readings /\ ~q.stuck /\ ~q.ended /\ q.ins = r.ins
    /\ Seen(q)'
    /\ given'["inputfile"] = given["inputfile"]
    /\ IF place' = <<>>
       THEN q = ReadTo(optind' - 1) /\ (q.wants # "nothing" => optind' = Len(argv) + 1)
       ELSE Amid(q, place') /\ q.wants = "nothing" /\ optind' = optind

\* What all answers start from.
LEMMA PendingAmid ==
  ASSUME Faithful, LineInv, OrderInv, NEW r, Midway(r), Reading
  PROVE  /\ Amid(r, Pending) /\ r.wants = "nothing"
         /\ r \in Readings /\ ~r.stuck /\ ~r.ended /\ Seen(r)
         /\ optind \in 1 .. Len(argv) /\ Len(argv) \in Nat /\ Len(nargv) = Len(argv)
         /\ Pending \in WordType /\ Tail(Pending) \in WordType /\ Pending # <<>>
         /\ WordsInv /\ GivenInv /\ nargv \in Seq(WordType)
         /\ \A i \in optind .. Len(argv) : nargv[i] = argv[i]
<1>1. /\ WordsInv /\ GivenInv /\ nargv \in Seq(WordType)
  BY DEF LineInv, WordsInv
<1>2. Len(argv) \in Nat /\ Len(nargv) = Len(argv)
  BY BlockPlaces
<1>3. /\ Pending \in WordType /\ Tail(Pending) \in WordType /\ Pending # <<>>
      /\ optind \in 1 .. Len(argv)
      /\ place = <<>> => IsOption(Word) /\ Word # Terminator
  BY <1>1, <1>2, PendingType
<1>4. \A i \in optind .. Len(argv) : nargv[i] = argv[i]
  <2>1. PICK q : Rearranges(q) /\ Sorted(q)
    BY DEF OrderInv, Reading, Tagged
  <2>2. \A i \in Places : nargv[i] = argv[q[i]] /\ (optind <= i => q[i] = i)
    BY <2>1 DEF Rearranges, Sorted
  <2>3. \A i \in optind .. Len(argv) : i \in Places /\ optind <= i
    BY <1>2, <1>3 DEF Places
  <2> QED
    BY <2>2, <2>3
<1>5. r \in Readings /\ ~r.stuck /\ ~r.ended /\ Seen(r)
  BY DEF Midway
<1>6. CASE place # <<>>
  <2>1. Pending = place
    BY <1>6 DEF Pending
  <2>2. Amid(r, place) /\ r.wants = "nothing"
    BY <1>6 DEF Midway
  <2> QED
    BY <1>1, <1>2, <1>3, <1>4, <1>5, <2>1, <2>2
<1>7. CASE place = <<>>
  <2>1. r = ReadTo(optind - 1) /\ (r.wants # "nothing" => optind = Len(argv) + 1)
    BY <1>7 DEF Midway
  <2>2. r.wants = "nothing"
    BY <1>2, <1>3, <2>1
  <2>3. Word = argv[optind]
    BY <1>2, <1>3, <1>4 DEF Word
  <2>4. Pending = Tail(argv[optind]) /\ IsOption(argv[optind]) /\ argv[optind] # Terminator
    BY <1>2, <1>3, <1>7, <2>3 DEF Pending
  <2>5. Amid(ReadTo(optind - 1), Tail(argv[optind]))
    BY <1>1, <1>3, <1>5, <2>1, <2>2, <2>4, AmidStart
  <2> QED
    BY <1>1, <1>2, <1>3, <1>4, <1>5, <2>1, <2>2, <2>4, <2>5
<1> QED
  BY <1>6, <1>7

\* An item on its own is one step of the reading.
LEMMA ItemGives ==
  ASSUME NEW r \in Readings, ~r.stuck, NEW x
  PROVE  /\ x = Mistake => ReadItem(r, x) = [r EXCEPT !.wrong = TRUE]
         /\ \A f : x = Flag(f) => ReadItem(r, x) = [r EXCEPT !.flags = Append(@, f)]
         /\ \A name : x = ToFile(name) => ReadItem(r, x) = [r EXCEPT !.outs = Append(@, name)]
         /\ \A form : x = ToNextWord(form) => ReadItem(r, x) = [r EXCEPT !.wants = form]
<1>1. x = Mistake => x.kind = "mistake"
  BY DEF Mistake
<1>2. \A f : x = Flag(f) => x.kind = "flag" /\ x.entry = f
  BY DEF Flag
<1>3. \A name : x = ToFile(name) => x.kind = "file" /\ x.name = name
  BY DEF ToFile
<1>4. \A form : x = ToNextWord(form) => x.kind = "next" /\ x.form = form
  BY DEF ToNextWord
<1> QED
  BY <1>1, <1>2, <1>3, <1>4 DEF ReadItem

\* q is r with the word behind an option that lacks its value.
NextRead(r, form, word, q) ==
    /\ q \in Readings /\ q.ins = r.ins /\ q.outs = Append(r.outs, word)
    /\ q.flags = r.flags /\ q.wants = "nothing"
    /\ q.wrong <=> r.wrong \/ (form = "long" /\ word = <<>>)
    /\ q.stuck = r.stuck /\ q.ended = r.ended

\* The word behind an option that lacks its value is the value.
LEMMA NextWordGives ==
  ASSUME NEW r \in Readings, ~r.stuck, r.wants = "nothing", NEW form \in {"short", "long"},
         NEW word \in WordType, NEW p, p = [r EXCEPT !.wants = form]
  PROVE  NextRead(r, form, word, ReadWord(p, word))
<1> DEFINE q == [p EXCEPT !.outs = Append(@, word), !.wants = "nothing",
                          !.wrong = @ \/ (p.wants = "long" /\ word = <<>>)]
<1>1. /\ p.stuck = r.stuck /\ p.ended = r.ended /\ p.wants = form /\ p.outs = r.outs
      /\ p.flags = r.flags /\ p.ins = r.ins /\ p.wrong = r.wrong
      /\ p \in Readings
  BY DEF Readings
<1>2. Append(r.outs, word) \in Seq(WordType)
  <2>1. r.outs \in Seq(WordType)
    BY DEF Readings
  <2> HIDE DEF WordType
  <2> QED
    BY <2>1
<1>3. ReadWord(p, word) = q
  BY <1>1 DEF ReadWord
<1>4. /\ q.ins = p.ins /\ q.outs = Append(p.outs, word)
      /\ q.flags = p.flags /\ q.wants = "nothing"
      /\ q.wrong = (p.wrong \/ (p.wants = "long" /\ word = <<>>))
      /\ q.stuck = p.stuck /\ q.ended = p.ended
      /\ q \in Readings
  BY <1>1, <1>2 DEF Readings
<1> HIDE DEF q
<1>5. /\ q.wrong <=> r.wrong \/ (form = "long" /\ word = <<>>)
  BY <1>1, <1>4
<1>6. /\ ReadWord(p, word) = q
      /\ q \in Readings /\ q.ins = r.ins /\ q.outs = Append(r.outs, word)
             /\ q.flags = r.flags /\ q.wants = "nothing"
             /\ q.stuck = r.stuck /\ q.ended = r.ended
  BY <1>1, <1>3, <1>4
<1> QED
  BY <1>5, <1>6 DEF NextRead

\* A letter on its own.
LEMMA LetterOnwards ==
  ASSUME Faithful, LineInv, OrderInv, NEW CONSTANT r, Midway(r), ReadingShort,
         NEW CONSTANT x,
         \/ Letter \notin DOMAIN ShortOption /\ x = Mistake
         \/ /\ Letter \in DOMAIN ShortOption /\ ShortOption[Letter] \in Flags
            /\ x = Flag(ShortOption[Letter]),
         place' = Rest, optind' = PastLetter,
         Seen(ReadItem(r, x))', given'["inputfile"] = given["inputfile"]
  PROVE  Onwards(r, ReadItem(r, x))
<1>1. Reading /\ Pending[1] # "-"
  BY DEF ReadingShort
<1>2. /\ Amid(r, Pending) /\ r.wants = "nothing"
      /\ r \in Readings /\ ~r.stuck /\ ~r.ended
      /\ optind \in 1 .. Len(argv) /\ Len(argv) \in Nat /\ WordsInv
  BY <1>1, PendingAmid
<1> DEFINE q == ReadItem(r, x)
<1>3. x \in Items
  BY DEF Items
<1>4. q = [r EXCEPT !.wrong = TRUE] \/ \E f : q = [r EXCEPT !.flags = Append(@, f)]
  BY <1>2, ItemGives
<1>5. q \in Readings
  <2> HIDE DEF Items
  <2> QED
    BY <1>2, <1>3, ItemTyped
<1>6. q.wants = "nothing" /\ ~q.stuck /\ ~q.ended /\ q.ins = r.ins
  BY <1>2, <1>4 DEF Readings
<1>7. IF Rest = <<>> THEN ReadTo(optind) = q ELSE Amid(q, Rest)
  BY <1>1, <1>2, LetterRead DEF Letter, Rest
<1>8. IF place' = <<>> THEN q = ReadTo(optind' - 1) ELSE Amid(q, place') /\ optind' = optind
  <2>1. CASE Rest = <<>>
    <3>1. optind' = optind + 1 /\ optind' - 1 = optind
      BY <1>2, <2>1 DEF PastLetter
    <3> QED
      BY <1>7, <2>1, <3>1
  <2>2. CASE Rest # <<>>
    BY <1>7, <2>2 DEF PastLetter
  <2> QED
    BY <2>1, <2>2
<1> HIDE DEF q
<1>9. Seen(q)'
  BY DEF q
<1>10. Onwards(r, q)
  BY <1>5, <1>6, <1>8, <1>9 DEF Onwards
<1> QED
  BY <1>10 DEF q

\* A letter that is no option.
LEMMA UnknownOnwards ==
  ASSUME Faithful, LineInv, OrderInv, NEW CONSTANT r, Midway(r), UnknownLetter
  PROVE  \E q : Onwards(r, q)
<1>1. /\ ReadingShort /\ Letter \notin DOMAIN ShortOption /\ place' = Rest
      /\ optind' = PastLetter /\ arg_register_error(1) /\ UNCHANGED given
  BY DEF UnknownLetter
<1>2. r \in Readings /\ ~r.stuck /\ Seen(r) /\ GivenInv
  BY <1>1, PendingAmid DEF ReadingShort
<1> DEFINE q == ReadItem(r, Mistake)
<1>3. q = [r EXCEPT !.wrong = TRUE]
  BY <1>2, ItemGives
<1>4. q.flags = r.flags /\ q.outs = r.outs /\ q.wrong
  BY <1>2, <1>3 DEF Readings
<1>5. Seen(q)'
  <2> HIDE DEF q
  <2>1. PICK c : c = q
    OBVIOUS
  <2>2. Seen(c)'
    BY <1>1, <1>2, <1>4, <2>1, SeenFault
  <2>3. q' = c
    BY <2>1 DEF q
  <2> QED
    BY <2>2, <2>3
<1>6. Onwards(r, q)
  BY <1>1, <1>5, LetterOnwards
<1> QED
  BY <1>6

\* A flag.
LEMMA FlagOnwards ==
  ASSUME Faithful, LineInv, OrderInv, NEW CONSTANT r, Midway(r), FlagLetter
  PROVE  \E q : Onwards(r, q)
<1>1. PICK f : f = ShortOption[Letter]
  OBVIOUS
<1>2. /\ ReadingShort /\ Letter \in DOMAIN ShortOption /\ f \in Flags /\ place' = Rest
      /\ optind' = PastLetter /\ arg_scanfn(f, <<>>) /\ arg_register_error(ScanErrors(f))
  BY <1>1 DEF FlagLetter
<1>3. r \in Readings /\ ~r.stuck /\ Seen(r) /\ GivenInv
  BY <1>2, PendingAmid DEF ReadingShort
<1> DEFINE q == ReadItem(r, Flag(f))
<1>4. q = [r EXCEPT !.flags = Append(@, f)]
  BY <1>3, ItemGives
<1>5. q.flags = Append(r.flags, f) /\ q.outs = r.outs /\ q.wrong = r.wrong /\ q.wants = r.wants
  BY <1>3, <1>4 DEF Readings
<1>6. q \in Readings
  <2>1. Flag(f) \in Items
    BY <1>2 DEF Items
  <2> HIDE DEF Items
  <2> QED
    BY <1>3, <2>1, ItemTyped
<1>7. Seen(q)' /\ given'["inputfile"] = given["inputfile"]
  <2> HIDE DEF q
  <2>1. PICK c : c = q
    OBVIOUS
  <2>2. Seen(c)' /\ given'["inputfile"] = given["inputfile"]
    BY <1>2, <1>3, <1>5, <1>6, <2>1, SeenFlag
  <2>3. q' = c
    BY <2>1 DEF q
  <2> QED
    BY <2>2, <2>3
<1>8. Onwards(r, q)
  <2> DEFINE x == Flag(f)
  <2>1. /\ Letter \in DOMAIN ShortOption /\ ShortOption[Letter] \in Flags
        /\ x = Flag(ShortOption[Letter])
    BY <1>1, <1>2
  <2> QED
    BY <1>2, <1>7, <2>1, LetterOnwards
<1> QED
  BY <1>8

\* An answer that ends its word.
LEMMA WordOnwards ==
  ASSUME optind \in 1 .. Len(argv), Len(argv) \in Nat, place' = <<>>, optind' = optind + 1,
         NEW CONSTANT r, NEW CONSTANT q \in Readings, ReadTo(optind) = q,
         ~q.stuck, ~q.ended, q.ins = r.ins, q.wants = "nothing" \/ optind = Len(argv),
         Seen(q)', given'["inputfile"] = given["inputfile"]
  PROVE  Onwards(r, q)
<1>1. optind' - 1 = optind /\ (optind = Len(argv) => optind' = Len(argv) + 1)
  OBVIOUS
<1> QED
  BY <1>1 DEF Onwards

\* One that takes the next word as well.
LEMMA NextWordOnwards ==
  ASSUME WordsInv, optind \in 1 .. Len(argv), Len(argv) \in Nat, optind < Len(argv),
         place' = <<>>, optind' = optind + 2, UNCHANGED <<argv, posixly_correct>>,
         NEW CONSTANT r \in Readings, ~r.stuck, ~r.ended, r.wants = "nothing", Seen(r), GivenInv,
         NEW CONSTANT form \in {"short", "long"}, ReadTo(optind) = ReadItem(r, ToNextWord(form)),
         NEW CONSTANT value \in WordType, value = argv[optind + 1],
         arg_scanfn("outputfile", value),
         arg_register_error(ScanErrors("outputfile")
                             + IF form = "long" /\ value = <<>> THEN 1 ELSE 0)
  PROVE  \E q : Onwards(r, q)
<1> DEFINE p == [r EXCEPT !.wants = form]
           n == IF form = "long" /\ value = <<>> THEN 1 ELSE 0
<1>1. ReadTo(optind) = p
  BY ItemGives
<1>2. ReadTo(optind + 1) = ReadWord(p, value)
  <2>1. optind \in Nat /\ optind < Len(argv)
    OBVIOUS
  <2> QED
    BY <1>1, <2>1, ReadToNext
<1>3. PICK q : q = ReadWord(p, value)
  OBVIOUS
<1>4. /\ q \in Readings /\ q.ins = r.ins /\ q.outs = Append(r.outs, value)
      /\ q.flags = r.flags /\ q.wants = "nothing"
      /\ q.wrong <=> r.wrong \/ (form = "long" /\ value = <<>>)
      /\ q.stuck = r.stuck /\ q.ended = r.ended
  <2>1. p = [r EXCEPT !.wants = form]
    OBVIOUS
  <2> HIDE DEF p
  <2>2. NextRead(r, form, value, ReadWord(p, value))
    BY <2>1, NextWordGives
  <2> QED
    BY <1>3, <2>2 DEF NextRead
<1>5. n \in {0, 1} /\ (n = 1 <=> form = "long" /\ value = <<>>)
      /\ arg_register_error(ScanErrors("outputfile") + n)
  OBVIOUS
<1> HIDE DEF n, p
<1>6. q.wrong <=> r.wrong \/ n = 1
  BY <1>4, <1>5
<1>7. Seen(q)' /\ given'["inputfile"] = given["inputfile"]
  <2>1. PICK m \in {0, 1} : m = n
    BY <1>5
  <2> QED
    BY <1>4, <1>5, <1>6, <2>1, SeenValue
<1>8. optind' - 1 = optind + 1
  OBVIOUS
<1>9. Onwards(r, q)
  BY <1>2, <1>3, <1>4, <1>7, <1>8 DEF Onwards
<1> QED
  BY <1>9

\* An option whose value is missing.
LEMMA LacksOnwards ==
  ASSUME WordsInv, GivenInv, optind \in 1 .. Len(argv), Len(argv) \in Nat,
         optind = Len(argv), place' = <<>>, optind' = optind + 1, UNCHANGED given,
         arg_register_error(1),
         NEW CONSTANT r \in Readings, ~r.stuck, ~r.ended, Seen(r),
         NEW CONSTANT form \in {"short", "long"}, ReadTo(optind) = ReadItem(r, ToNextWord(form))
  PROVE  \E q : Onwards(r, q)
<1>1. PICK q : q = [r EXCEPT !.wants = form]
  OBVIOUS
<1>2. ReadTo(optind) = q
  BY <1>1, ItemGives
<1>3. /\ q \in Readings /\ q.flags = r.flags /\ q.outs = r.outs /\ q.wants # "nothing"
      /\ ~q.stuck /\ ~q.ended /\ q.ins = r.ins
  BY <1>1 DEF Readings
<1>4. Seen(q)'
  BY <1>3, SeenFault
<1>5. Onwards(r, q)
  BY <1>2, <1>3, <1>4, WordOnwards
<1> QED
  BY <1>5

\* An option with its value in the same word.
LEMMA ValueOnwards ==
  ASSUME WordsInv, GivenInv, optind \in 1 .. Len(argv), Len(argv) \in Nat,
         place' = <<>>, optind' = optind + 1,
         NEW CONSTANT r \in Readings, ~r.stuck, ~r.ended, r.wants = "nothing", Seen(r),
         NEW CONSTANT value \in WordType, NEW CONSTANT n \in {0, 1},
         n = 0 => ReadTo(optind) = ReadItem(r, ToFile(value)),
         n = 1 => ReadTo(optind) = ReadItem(ReadItem(r, ToFile(value)), Mistake),
         arg_scanfn("outputfile", value), arg_register_error(ScanErrors("outputfile") + n)
  PROVE  \E q : Onwards(r, q)
<1> DEFINE p == [r EXCEPT !.outs = Append(@, value)]
<1>1. Append(r.outs, value) \in Seq(WordType)
  <2>1. r.outs \in Seq(WordType)
    BY DEF Readings
  <2> HIDE DEF WordType
  <2> QED
    BY <2>1
<1>2. ReadItem(r, ToFile(value)) = p
  BY ItemGives
<1>3. /\ p \in Readings /\ p.flags = r.flags /\ p.outs = Append(r.outs, value)
      /\ p.wants = r.wants /\ p.wrong = r.wrong
      /\ ~p.stuck /\ ~p.ended /\ p.ins = r.ins
  BY <1>1 DEF Readings
<1> HIDE DEF p
<1>4. PICK q : q = IF n = 1 THEN [p EXCEPT !.wrong = TRUE] ELSE p
  OBVIOUS
<1>5. ReadTo(optind) = q
  <2>1. CASE n = 0
    BY <1>2, <1>4, <2>1
  <2>2. CASE n = 1
    <3>1. ReadItem(p, Mistake) = [p EXCEPT !.wrong = TRUE]
      BY <1>3, ItemGives
    <3> QED
      BY <1>2, <1>4, <2>2, <3>1
  <2> QED
    BY <2>1, <2>2
<1>6. /\ q \in Readings /\ q.flags = r.flags /\ q.outs = Append(r.outs, value)
      /\ q.wants = "nothing"
      /\ ~q.stuck /\ ~q.ended /\ q.ins = r.ins
  <2>1. CASE n = 0
    BY <1>3, <1>4, <2>1
  <2>2. CASE n = 1
    BY <1>3, <1>4, <2>2 DEF Readings
  <2> QED
    BY <2>1, <2>2
<1>7. q.wrong <=> r.wrong \/ n = 1
  <2>1. CASE n = 0
    BY <1>3, <1>4, <2>1
  <2>2. CASE n = 1
    BY <1>3, <1>4, <2>2 DEF Readings
  <2> QED
    BY <2>1, <2>2
<1>8. Seen(q)' /\ given'["inputfile"] = given["inputfile"]
  BY <1>6, <1>7, SeenValue
<1>9. Onwards(r, q)
  BY <1>5, <1>6, <1>8, WordOnwards
<1> QED
  BY <1>9

\* -o as the last word.
LEMMA LetterLacksOnwards ==
  ASSUME Faithful, LineInv, OrderInv, NEW CONSTANT r, Midway(r), LetterLacksValue
  PROVE  \E q : Onwards(r, q)
<1>1. /\ Reading /\ Pending[1] # "-"
      /\ Letter \in DOMAIN ShortOption /\ ShortOption[Letter] \in Files /\ Rest = <<>>
      /\ optind = Len(nargv) /\ place' = <<>> /\ optind' = optind + 1
      /\ arg_register_error(1) /\ UNCHANGED given
  BY DEF LetterLacksValue, ReadingShort
<1>2. /\ Amid(r, Pending) /\ r.wants = "nothing"
      /\ r \in Readings /\ ~r.stuck /\ ~r.ended /\ Seen(r)
      /\ optind \in 1 .. Len(argv) /\ Len(argv) \in Nat /\ Len(nargv) = Len(argv)
      /\ Tail(Pending) \in WordType /\ WordsInv /\ GivenInv
  BY <1>1, PendingAmid
<1>3. ReadTo(optind) = ReadItem(r, ToNextWord("short"))
  BY <1>1, <1>2, LetterValue DEF Letter, Rest
<1> QED
  BY <1>1, <1>2, <1>3, LacksOnwards

\* -o with a value.
LEMMA LetterValueOnwards ==
  ASSUME Faithful, LineInv, OrderInv, UNCHANGED <<argv, posixly_correct>>,
         NEW CONSTANT r, Midway(r), ValueLetter
  PROVE  \E q : Onwards(r, q)
<1>1. PICK value : value = IF Rest = <<>> THEN nargv[optind + 1] ELSE Rest
  OBVIOUS
<1>2. /\ Reading /\ Pending[1] # "-"
      /\ Letter \in DOMAIN ShortOption /\ ShortOption[Letter] \in Files
      /\ Rest = <<>> => optind < Len(nargv)
      /\ place' = <<>>
      /\ optind' = IF Rest = <<>> THEN optind + 2 ELSE optind + 1
      /\ arg_scanfn(ShortOption[Letter], value)
      /\ arg_register_error(ScanErrors(ShortOption[Letter]))
  BY <1>1 DEF ValueLetter, ReadingShort
<1>3. /\ Amid(r, Pending) /\ r.wants = "nothing"
      /\ r \in Readings /\ ~r.stuck /\ ~r.ended /\ Seen(r)
      /\ optind \in 1 .. Len(argv) /\ Len(argv) \in Nat /\ Len(nargv) = Len(argv)
      /\ Tail(Pending) \in WordType /\ WordsInv /\ GivenInv
      /\ nargv \in Seq(WordType)
      /\ \A i \in optind .. Len(argv) : nargv[i] = argv[i]
  BY <1>2, PendingAmid
<1>4. ShortOption[Letter] = "outputfile"
  BY <1>2, ShortEntry
<1>5. IF Rest = <<>> THEN ReadTo(optind) = ReadItem(r, ToNextWord("short"))
      ELSE ReadTo(optind) = ReadItem(r, ToFile(Rest))
  BY <1>2, <1>3, LetterValue DEF Letter, Rest
<1>6. ScanErrors("outputfile") \in Nat
  BY DEF ScanErrors
<1>7. CASE Rest = <<>>
  <2>1. optind < Len(argv) /\ optind + 1 \in optind .. Len(argv) /\ optind + 1 \in 1 .. Len(nargv)
    BY <1>2, <1>3, <1>7
  <2>2. value = argv[optind + 1] /\ value = nargv[optind + 1]
    BY <1>1, <1>3, <1>7, <2>1
  <2>3. value \in WordType
    <3> HIDE DEF WordType
    <3> QED
      BY <1>3, <2>1, <2>2
  <2>4. arg_register_error(ScanErrors("outputfile")
                             + IF "short" = "long" /\ value = <<>> THEN 1 ELSE 0)
    <3>1. ScanErrors("outputfile") + (IF "short" = "long" /\ value = <<>> THEN 1 ELSE 0)
            = ScanErrors("outputfile")
      BY <1>6
    <3>2. arg_register_error(ScanErrors("outputfile"))
      BY <1>2, <1>4
    <3> QED
      BY <3>1, <3>2
  <2>5. optind' = optind + 2 /\ arg_scanfn("outputfile", value)
        /\ ReadTo(optind) = ReadItem(r, ToNextWord("short"))
    BY <1>2, <1>4, <1>5, <1>7
  <2>6. PICK form \in {"short", "long"} : form = "short"
    OBVIOUS
  <2>7. arg_register_error(ScanErrors("outputfile")
                             + IF form = "long" /\ value = <<>> THEN 1 ELSE 0)
    BY <2>4, <2>6
  <2> QED
    BY <1>2, <1>3, <2>1, <2>2, <2>3, <2>5, <2>6, <2>7, NextWordOnwards
<1>8. CASE Rest # <<>>
  <2>1. value = Rest /\ value \in WordType
    BY <1>1, <1>3, <1>8 DEF Rest
  <2>2. PICK n \in {0, 1} : n = 0
    OBVIOUS
  <2>3. ScanErrors("outputfile") + n = ScanErrors("outputfile")
    BY <1>6, <2>2
  <2>4. arg_register_error(ScanErrors("outputfile") + n)
    BY <1>2, <1>4, <2>3
  <2>5. optind' = optind + 1 /\ arg_scanfn("outputfile", value)
        /\ ReadTo(optind) = ReadItem(r, ToFile(value))
    BY <1>2, <1>4, <1>5, <1>8, <2>1
  <2> QED
    BY <1>2, <1>3, <2>1, <2>2, <2>4, <2>5, ValueOnwards
<1> QED
  BY <1>7, <1>8

\* What the long options start from.
LEMMA LongAmid ==
  ASSUME Faithful, LineInv, OrderInv, NEW CONSTANT r, Midway(r), ReadingLong
  PROVE  /\ Amid(r, Pending) /\ r.wants = "nothing"
         /\ r \in Readings /\ ~r.stuck /\ ~r.ended /\ Seen(r)
         /\ optind \in 1 .. Len(argv) /\ Len(argv) \in Nat /\ Len(nargv) = Len(argv)
         /\ Long \in WordType /\ WordsInv /\ GivenInv
         /\ nargv \in Seq(WordType)
         /\ \A i \in optind .. Len(argv) : nargv[i] = argv[i]
         /\ Pending[1] = "-" /\ Pending # <<"-">> /\ place' = <<>>
<1>1. Reading /\ Pending[1] = "-" /\ Len(Pending) > 1 /\ place' = <<>>
  BY DEF ReadingLong
<1>2. /\ Amid(r, Pending) /\ r.wants = "nothing"
      /\ r \in Readings /\ ~r.stuck /\ ~r.ended /\ Seen(r)
      /\ optind \in 1 .. Len(argv) /\ Len(argv) \in Nat /\ Len(nargv) = Len(argv)
      /\ Tail(Pending) \in WordType /\ WordsInv /\ GivenInv
      /\ nargv \in Seq(WordType)
      /\ \A i \in optind .. Len(argv) : nargv[i] = argv[i]
  BY <1>1, PendingAmid
<1>3. Len(<<"-">>) = 1
  OBVIOUS
<1>4. ASSUME Pending = <<"-">> PROVE FALSE
  <2>1. Len(Pending) = 1
    BY <1>3, <1>4
  <2> QED
    BY <1>1, <2>1
<1> QED
  BY <1>1, <1>2, <1>4 DEF Long

\* LongRead for the option that is being read.
LEMMA LongReadNow ==
  ASSUME Faithful, LineInv, OrderInv, NEW CONSTANT r, Midway(r), ReadingLong
  PROVE  /\ Cardinality(LongMatch) # 1 \/ (LongEntry \notin Files /\ HasValue(Long)) =>
              ReadTo(optind) = ReadItem(r, Mistake)
         /\ Cardinality(LongMatch) = 1 /\ LongEntry \notin Files /\ ~HasValue(Long) =>
              ReadTo(optind) = ReadItem(r, Flag(LongEntry))
         /\ Cardinality(LongMatch) = 1 /\ LongEntry \in Files /\ ~HasValue(Long) =>
              ReadTo(optind) = ReadItem(r, ToNextWord("long"))
         /\ Cardinality(LongMatch) = 1 /\ LongEntry \in Files /\ HasValue(Long) =>
              ReadTo(optind) =
                IF ValueOf(Long) = <<>> THEN ReadItem(ReadItem(r, ToFile(<<>>)), Mistake)
                ELSE ReadItem(r, ToFile(ValueOf(Long)))
         /\ Cardinality(LongMatch) = 1 =>
              /\ LongEntry \in Flags \cup {"outputfile"}
              /\ LongEntry \in Files <=> LongEntry = "outputfile"
<1>1. /\ Amid(r, Pending) /\ optind \in 1 .. Len(argv) /\ Long \in WordType /\ WordsInv
      /\ Pending[1] = "-" /\ Pending # <<"-">>
  BY LongAmid
<1> DEFINE letters == Pending
           matches == LongMatches(NameOf(Long))
           entry == LongOption[CHOOSE n \in matches : TRUE]
<1>2. Long = Tail(letters) /\ LongMatch = matches /\ LongEntry = entry
  BY DEF Long, LongMatch, LongEntry
<1>3. /\ Long \in WordType /\ Long = Tail(letters) /\ Amid(r, letters)
      /\ letters[1] = "-" /\ letters # <<"-">>
  BY <1>1, <1>2
<1>4. /\ Cardinality(matches) # 1 \/ (entry \notin Files /\ HasValue(Long)) =>
           ReadTo(optind) = ReadItem(r, Mistake)
      /\ Cardinality(matches) = 1 /\ entry \notin Files /\ ~HasValue(Long) =>
           ReadTo(optind) = ReadItem(r, Flag(entry))
      /\ Cardinality(matches) = 1 /\ entry \in Files /\ ~HasValue(Long) =>
           ReadTo(optind) = ReadItem(r, ToNextWord("long"))
      /\ Cardinality(matches) = 1 /\ entry \in Files /\ HasValue(Long) =>
           ReadTo(optind) =
             IF ValueOf(Long) = <<>> THEN ReadItem(ReadItem(r, ToFile(<<>>)), Mistake)
             ELSE ReadItem(r, ToFile(ValueOf(Long)))
  <2> HIDE DEF letters
  <2> QED
    BY <1>1, <1>3, LongRead
<1>5. Cardinality(matches) = 1 =>
              /\ entry \in Flags \cup {"outputfile"}
              /\ entry \in Files <=> entry = "outputfile"
  BY LongEntryKind
<1> HIDE DEF matches, entry
<1> QED
  BY <1>2, <1>4, <1>5

\* A long option that is an error.
LEMMA BadLongOnwards ==
  ASSUME Faithful, LineInv, OrderInv, NEW CONSTANT r, Midway(r), BadLongOption
  PROVE  \E q : Onwards(r, q)
<1>1. /\ ReadingLong /\ (Cardinality(LongMatch) = 1 => LongEntry \notin Files /\ HasValue(Long))
      /\ optind' = optind + 1 /\ arg_register_error(1) /\ UNCHANGED given
  BY DEF BadLongOption
<1>2. /\ r \in Readings /\ ~r.stuck /\ ~r.ended /\ Seen(r) /\ r.wants = "nothing"
      /\ optind \in 1 .. Len(argv) /\ Len(argv) \in Nat /\ GivenInv /\ place' = <<>>
  BY <1>1, LongAmid
<1>3. ReadTo(optind) = ReadItem(r, Mistake)
  BY <1>1, LongReadNow
<1>4. PICK q : q = [r EXCEPT !.wrong = TRUE]
  OBVIOUS
<1>5. ReadTo(optind) = q
  BY <1>2, <1>3, <1>4, ItemGives
<1>6. /\ q \in Readings /\ q.flags = r.flags /\ q.outs = r.outs /\ q.wrong
      /\ ~q.stuck /\ ~q.ended /\ q.ins = r.ins /\ q.wants = "nothing"
  BY <1>2, <1>4 DEF Readings
<1>7. Seen(q)'
  BY <1>1, <1>2, <1>6, SeenFault
<1>8. Onwards(r, q)
  BY <1>1, <1>2, <1>5, <1>6, <1>7, WordOnwards
<1> QED
  BY <1>8

\* --output as the last word.
LEMMA LongLacksOnwards ==
  ASSUME Faithful, LineInv, OrderInv, NEW CONSTANT r, Midway(r), LongOptionLacksValue
  PROVE  \E q : Onwards(r, q)
<1>1. /\ ReadingLong /\ Cardinality(LongMatch) = 1 /\ LongEntry \in Files /\ ~HasValue(Long)
      /\ optind = Len(nargv)
      /\ optind' = optind + 1 /\ arg_register_error(1) /\ UNCHANGED given
  BY DEF LongOptionLacksValue
<1>2. /\ r \in Readings /\ ~r.stuck /\ ~r.ended /\ Seen(r) /\ WordsInv
      /\ optind \in 1 .. Len(argv) /\ Len(argv) \in Nat /\ GivenInv /\ place' = <<>>
      /\ Len(nargv) = Len(argv)
  BY <1>1, LongAmid
<1>3. ReadTo(optind) = ReadItem(r, ToNextWord("long"))
  BY <1>1, LongReadNow
<1> QED
  BY <1>1, <1>2, <1>3, LacksOnwards

\* Any other long option.
LEMMA LongOnwards ==
  ASSUME Faithful, LineInv, OrderInv, UNCHANGED <<argv, posixly_correct>>,
         NEW CONSTANT r, Midway(r), parse_long_options
  PROVE  \E q : Onwards(r, q)
<1> DEFINE fromNext == LongEntry \in Files /\ ~HasValue(Long)
<1>1. PICK value : value = IF fromNext THEN nargv[optind + 1]
                           ELSE IF HasValue(Long) THEN ValueOf(Long) ELSE <<>>
  OBVIOUS
<1>2. /\ ReadingLong /\ Cardinality(LongMatch) = 1
      /\ LongEntry \notin Files => ~HasValue(Long)
      /\ fromNext => optind < Len(nargv)
      /\ optind' = IF fromNext THEN optind + 2 ELSE optind + 1
      /\ arg_scanfn(LongEntry, value)
      /\ arg_register_error(ScanErrors(LongEntry)
                             + IF LongEntry \in Files /\ value = <<>> THEN 1 ELSE 0)
  BY <1>1 DEF parse_long_options
<1>3. /\ r \in Readings /\ ~r.stuck /\ ~r.ended /\ Seen(r) /\ WordsInv /\ r.wants = "nothing"
      /\ optind \in 1 .. Len(argv) /\ Len(argv) \in Nat /\ GivenInv /\ place' = <<>>
      /\ Len(nargv) = Len(argv) /\ Long \in WordType /\ nargv \in Seq(WordType)
      /\ \A i \in optind .. Len(argv) : nargv[i] = argv[i]
  BY <1>2, LongAmid
<1>4. /\ LongEntry \in Flags \cup {"outputfile"}
      /\ LongEntry \in Files <=> LongEntry = "outputfile"
  BY <1>2, LongReadNow
<1>5. \A entry : ScanErrors(entry) \in Nat
  BY DEF ScanErrors
<1>6. CASE LongEntry \notin Files
  <2>1. PICK f : f = LongEntry
    OBVIOUS
  <2>2. f \in Flags /\ value = <<>> /\ arg_scanfn(f, <<>>) /\ optind' = optind + 1
    BY <1>1, <1>2, <1>4, <1>6, <2>1 DEF Files
  <2>3. arg_register_error(ScanErrors(f))
    <3>1. ScanErrors(LongEntry) + (IF LongEntry \in Files /\ value = <<>> THEN 1 ELSE 0)
            = ScanErrors(f)
      BY <1>5, <1>6, <2>1
    <3> QED
      BY <1>2, <3>1
  <2>4. ReadTo(optind) = ReadItem(r, Flag(f))
    BY <1>2, <1>6, <2>1, LongReadNow
  <2>5. PICK q : q = [r EXCEPT !.flags = Append(@, f)]
    OBVIOUS
  <2>6. ReadTo(optind) = q
    BY <1>3, <2>4, <2>5, ItemGives
  <2>7. /\ q \in Readings /\ q.flags = Append(r.flags, f) /\ q.outs = r.outs
        /\ q.wrong = r.wrong
        /\ ~q.stuck /\ ~q.ended /\ q.ins = r.ins /\ q.wants = r.wants
    <3>1. Append(r.flags, f) \in Seq(Flags)
      BY <1>3, <2>2 DEF Readings
    <3> QED
      BY <1>3, <2>5, <3>1 DEF Readings
  <2>8. Seen(q)' /\ given'["inputfile"] = given["inputfile"]
    BY <1>3, <2>2, <2>3, <2>7, SeenFlag
  <2>9. Onwards(r, q)
    BY <1>3, <2>2, <2>6, <2>7, <2>8, WordOnwards
  <2> QED
    BY <2>9
<1>7. CASE LongEntry \in Files /\ ~HasValue(Long)
  <2>1. optind < Len(argv) /\ optind + 1 \in optind .. Len(argv) /\ optind + 1 \in 1 .. Len(nargv)
    BY <1>2, <1>3, <1>7
  <2>2. value = argv[optind + 1] /\ value = nargv[optind + 1]
    BY <1>1, <1>3, <1>7, <2>1
  <2>3. value \in WordType
    <3> HIDE DEF WordType
    <3> QED
      BY <1>3, <2>1, <2>2
  <2>4. optind' = optind + 2 /\ arg_scanfn("outputfile", value)
        /\ ReadTo(optind) = ReadItem(r, ToNextWord("long"))
    BY <1>2, <1>4, <1>7, LongReadNow
  <2>5. PICK form \in {"short", "long"} : form = "long"
    OBVIOUS
  <2>6. arg_register_error(ScanErrors("outputfile")
                             + IF form = "long" /\ value = <<>> THEN 1 ELSE 0)
    BY <1>2, <1>4, <1>7, <2>5
  <2> QED
    BY <1>2, <1>3, <2>1, <2>2, <2>3, <2>4, <2>5, <2>6, NextWordOnwards
<1>8. CASE LongEntry \in Files /\ HasValue(Long)
  <2>1. value = ValueOf(Long) /\ value \in WordType /\ optind' = optind + 1
    <3>1. value = ValueOf(Long) /\ optind' = optind + 1
      BY <1>1, <1>2, <1>8
    <3>2. ValueOf(Long) \in WordType
      BY <1>3, <1>8, ValueTyped
    <3> QED
      BY <3>1, <3>2
  <2>2. PICK n \in {0, 1} : n = IF value = <<>> THEN 1 ELSE 0
    OBVIOUS
  <2>3. /\ n = 0 => ReadTo(optind) = ReadItem(r, ToFile(value))
        /\ n = 1 => ReadTo(optind) = ReadItem(ReadItem(r, ToFile(value)), Mistake)
    BY <1>2, <1>8, <2>1, <2>2, LongReadNow
  <2>4. arg_scanfn("outputfile", value) /\ arg_register_error(ScanErrors("outputfile") + n)
    BY <1>2, <1>4, <1>8, <2>2
  <2> QED
    BY <1>3, <2>1, <2>2, <2>3, <2>4, ValueOnwards
<1> QED
  BY <1>6, <1>7, <1>8

-----------------------------------------------------------------------------
(* The operands while getopt moves them.                                   *)

\* A part of a sequence.
LEMMA PartIs ==
  ASSUME NEW S, NEW q \in Seq(S), NEW a \in Nat \ {0}, NEW b \in Nat, b <= Len(q), a <= b + 1
  PROVE  /\ SubSeq(q, a, b) \in Seq(S)
         /\ Len(SubSeq(q, a, b)) = b - a + 1
         /\ \A i \in 1 .. b - a + 1 : SubSeq(q, a, b)[i] = q[a + i - 1]
  OBVIOUS

\* Sequences with the same elements are the same.
LEMMA SameParts ==
  ASSUME NEW S, NEW q \in Seq(S), NEW r \in Seq(S), Len(q) = Len(r),
         \A i \in 1 .. Len(q) : q[i] = r[i]
  PROVE  q = r
  OBVIOUS

\* Two sequences behind one another.
LEMMA JoinIs ==
  ASSUME NEW S, NEW q \in Seq(S), NEW r \in Seq(S)
  PROVE  /\ q \o r \in Seq(S) /\ Len(q \o r) = Len(q) + Len(r)
         /\ \A i \in 1 .. Len(q) : (q \o r)[i] = q[i]
         /\ \A i \in Len(q) + 1 .. Len(q) + Len(r) : (q \o r)[i] = r[i - Len(q)]
  OBVIOUS

\* Two parts behind one another are one.
LEMMA PartsJoin ==
  ASSUME NEW S, NEW q \in Seq(S), NEW a \in Nat \ {0}, NEW m \in Nat, NEW b \in Nat,
         b <= Len(q), a <= m + 1, m <= b
  PROVE  SubSeq(q, a, b) = SubSeq(q, a, m) \o SubSeq(q, m + 1, b)
<1> DEFINE u == SubSeq(q, a, m)
           v == SubSeq(q, m + 1, b)
           w == SubSeq(q, a, b)
<1>1. /\ u \in Seq(S) /\ Len(u) = m - a + 1
      /\ \A i \in 1 .. m - a + 1 : u[i] = q[a + i - 1]
  BY PartIs
<1>2. /\ v \in Seq(S) /\ Len(v) = b - (m + 1) + 1
      /\ \A i \in 1 .. b - (m + 1) + 1 : v[i] = q[(m + 1) + i - 1]
  BY PartIs
<1>3. /\ w \in Seq(S) /\ Len(w) = b - a + 1
      /\ \A i \in 1 .. b - a + 1 : w[i] = q[a + i - 1]
  BY PartIs
<1> HIDE DEF u, v, w
<1> DEFINE x == u \o v
<1>4. /\ x \in Seq(S) /\ Len(x) = Len(u) + Len(v)
      /\ \A i \in 1 .. Len(u) : x[i] = u[i]
      /\ \A i \in Len(u) + 1 .. Len(u) + Len(v) : x[i] = v[i - Len(u)]
  BY <1>1, <1>2, JoinIs
<1> HIDE DEF x
<1>5. Len(x) = Len(w)
  BY <1>1, <1>2, <1>3, <1>4
<1>6. ASSUME NEW i \in 1 .. Len(x) PROVE x[i] = w[i]
  <2>1. i \in 1 .. b - a + 1
    BY <1>3, <1>5
  <2>2. CASE i \in 1 .. Len(u)
    BY <1>1, <1>3, <1>4, <2>1, <2>2
  <2>3. CASE i \notin 1 .. Len(u)
    <3>1. i \in Len(u) + 1 .. Len(u) + Len(v) /\ i - Len(u) \in 1 .. b - (m + 1) + 1
      <4>1. Len(u) = m - a + 1 /\ Len(v) = b - (m + 1) + 1 /\ i \in Nat
            /\ i >= 1 /\ i <= b - a + 1
        BY <1>1, <1>2, <2>1
      <4>2. Len(u) \in Nat
        BY <4>1
      <4>3. i > Len(u)
        BY <2>3, <4>1, <4>2
      <4> QED
        BY <4>1, <4>2, <4>3
    <3>2. (m + 1) + (i - Len(u)) - 1 = a + i - 1
      BY <1>1, <2>1
    <3> QED
      BY <1>2, <1>3, <1>4, <2>1, <3>1, <3>2
  <2> QED
    BY <2>2, <2>3
<1>7. x = w
  BY <1>3, <1>4, <1>5, <1>6, SameParts
<1> QED
  BY <1>7 DEF u, v, w, x

\* p has the words of the first block behind those of the second, and those
\* behind both where they were.
Carried(s, e, o, words, T, p) ==
    /\ p \in Seq(T) /\ Len(p) = Len(words)
    /\ SubSeq(p, s + (o - e), o - 1) = SubSeq(words, s, e - 1)
    /\ \A i \in 1 .. Len(words) : o <= i => p[i] = words[i]

\* permute_args carries the operands behind the options.
LEMMA BlockMoved ==
  ASSUME NEW s, NEW e, NEW o, Blocks(s, e, o), NEW T, NEW words \in Seq(T),
         o - 1 <= Len(words), NEW p, p = permute_args(s, e, o, words)
  PROVE  Carried(s, e, o, words, T, p)
<1>1. p \in Seq(T) /\ Len(p) = Len(words) /\ Len(words) \in Nat
  BY PermuteKeeps
<1>2. p = [k \in DOMAIN words |->
                IF k \notin s .. o - 1 THEN words[k]
                ELSE IF k < s + (o - e)
                THEN words[k + (e - s)]
                ELSE words[k - (o - e)]]
  BY PermuteExchanges
<1>3. DOMAIN words = 1 .. Len(words)
  OBVIOUS
<1>4. /\ s \in Nat /\ s > 0 /\ e \in Nat /\ o \in Nat /\ s < e /\ e < o
  BY DEF Blocks
<1>5. \A i \in 1 .. Len(words) : o <= i => p[i] = words[i]
  <2>1. \A i \in 1 .. Len(words) : o <= i => i \notin s .. o - 1
    BY <1>4
  <2> QED
    BY <1>2, <1>3, <2>1
<1> DEFINE a == s + (o - e)
<1>6. /\ a \in Nat \ {0} /\ a <= (o - 1) + 1 /\ o - 1 \in Nat /\ o - 1 <= Len(words)
      /\ s \in Nat \ {0} /\ s <= (e - 1) + 1 /\ e - 1 \in Nat /\ e - 1 <= Len(words)
      /\ (o - 1) - a + 1 = e - s /\ (e - 1) - s + 1 = e - s
  BY <1>1, <1>4
<1>7. \A i \in 1 .. e - s : p[a + i - 1] = words[s + i - 1]
  <2> SUFFICES ASSUME NEW i \in 1 .. e - s PROVE p[a + i - 1] = words[s + i - 1]
    OBVIOUS
  <2> DEFINE k == a + i - 1
  <2>1. k \in 1 .. Len(words) /\ k \in s .. o - 1 /\ ~(k < a) /\ k - (o - e) = s + i - 1
    BY <1>1, <1>4, <1>6
  <2> HIDE DEF k
  <2>2. p[k] = words[k - (o - e)]
    BY <1>2, <1>3, <2>1
  <2> QED
    BY <2>1, <2>2 DEF k
<1> DEFINE u == SubSeq(p, a, o - 1)
           v == SubSeq(words, s, e - 1)
<1>8. /\ u \in Seq(T) /\ Len(u) = e - s /\ \A i \in 1 .. e - s : u[i] = p[a + i - 1]
  <2> HIDE DEF a
  <2> QED
    BY <1>1, <1>6, PartIs
<1>9. /\ v \in Seq(T) /\ Len(v) = e - s /\ \A i \in 1 .. e - s : v[i] = words[s + i - 1]
  BY <1>1, <1>6, PartIs
<1> HIDE DEF u, v
<1>10. u = v
  BY <1>7, <1>8, <1>9, SameParts
<1> QED
  BY <1>1, <1>5, <1>10 DEF u, v, Carried

\* What is left of nargv when getopt returns -1: the operands skipped and the
\* words it has not read.
LEMMA LeaveGives ==
  ASSUME WordsInv, NEW last, NEW end, Leave(last, end), last \in 1 .. Len(nargv) + 1,
         end # None => Blocks(nonopt_start, end, last)
  PROVE  /\ Len(nargv') = Len(nargv)
         /\ SubSeq(nargv', optind', Len(nargv')) =
              IF end = None THEN SubSeq(nargv, last, Len(nargv))
              ELSE SubSeq(nargv, nonopt_start, end - 1) \o SubSeq(nargv, last, Len(nargv))
<1>1. nargv \in Seq(WordType) /\ Len(nargv) \in Nat
  BY DEF WordsInv
<1>2. CASE end = None
  BY <1>2 DEF Leave
<1>3. CASE end # None
  <2> DEFINE s == nonopt_start
             n == Len(nargv)
             p == permute_args(s, end, last, nargv)
             a == s + (last - end)
  <2>1. nargv' = p /\ optind' = last - (end - s)
    BY <1>3 DEF Leave
  <2>2. Blocks(s, end, last) /\ last - 1 <= Len(nargv)
    BY <1>1, <1>3
  <2>3. s \in Nat /\ s > 0 /\ end \in Nat /\ last \in Nat /\ s < end /\ end < last
    BY <2>2 DEF Blocks
  <2>4. optind' = a /\ a \in Nat \ {0} /\ a <= (last - 1) + 1 /\ last - 1 \in Nat
        /\ last - 1 <= n /\ (last - 1) + 1 = last /\ n <= n
    BY <1>1, <2>1, <2>2, <2>3
  <2>5. /\ p \in Seq(WordType) /\ Len(p) = n
        /\ SubSeq(p, a, last - 1) = SubSeq(nargv, s, end - 1)
        /\ \A i \in 1 .. n : last <= i => p[i] = nargv[i]
    <3>1. p = permute_args(s, end, last, nargv)
      OBVIOUS
    <3> HIDE DEF WordType, p
    <3>2. Carried(s, end, last, nargv, WordType, p)
      BY <1>1, <2>2, <3>1, BlockMoved
    <3> QED
      BY <3>2 DEF Carried
  <2> HIDE DEF p, a, s, WordType
  <2>6. SubSeq(p, a, n) = SubSeq(p, a, last - 1) \o SubSeq(p, last, n)
    <3>1. SubSeq(p, a, n) = SubSeq(p, a, last - 1) \o SubSeq(p, (last - 1) + 1, n)
      BY <1>1, <2>4, <2>5, PartsJoin
    <3> QED
      BY <2>4, <3>1
  <2>7. SubSeq(p, last, n) = SubSeq(nargv, last, n)
    <3> DEFINE u == SubSeq(p, last, n)
               v == SubSeq(nargv, last, n)
    <3>1. last \in Nat \ {0} /\ last <= n + 1 /\ n \in Nat
      BY <1>1, <2>3, <2>4
    <3> HIDE DEF n
    <3>2. /\ u \in Seq(WordType) /\ Len(u) = n - last + 1
          /\ \A i \in 1 .. n - last + 1 : u[i] = p[last + i - 1]
      BY <2>5, <3>1, PartIs
    <3>3. /\ v \in Seq(WordType) /\ Len(v) = n - last + 1
          /\ \A i \in 1 .. n - last + 1 : v[i] = nargv[last + i - 1]
      <4>1. n <= Len(nargv)
        BY <1>1 DEF n
      <4> QED
        BY <1>1, <3>1, <4>1, PartIs
    <3>4. \A i \in 1 .. n - last + 1 : last + i - 1 \in 1 .. n /\ last <= last + i - 1
      BY <3>1
    <3>5. \A i \in 1 .. n - last + 1 : u[i] = v[i]
      BY <2>5, <3>2, <3>3, <3>4
    <3> HIDE DEF u, v
    <3>6. u = v
      BY <3>2, <3>3, <3>5, SameParts
    <3> QED
      BY <3>6 DEF u, v
  <2> QED
    BY <1>3, <2>1, <2>4, <2>5, <2>6, <2>7 DEF s
<1> QED
  BY <1>2, <1>3

\* A part with one more word.
LEMMA PartGrows ==
  ASSUME NEW S, NEW q \in Seq(S), NEW a \in Nat \ {0}, NEW b \in Nat, b + 1 <= Len(q), a <= b + 1
  PROVE  SubSeq(q, a, b + 1) = Append(SubSeq(q, a, b), q[b + 1])
<1> DEFINE u == SubSeq(q, a, b)
           v == SubSeq(q, a, b + 1)
<1>1. u \in Seq(S) /\ Len(u) = b - a + 1 /\ \A i \in 1 .. b - a + 1 : u[i] = q[a + i - 1]
  BY PartIs
<1>2. /\ v \in Seq(S) /\ Len(v) = b - a + 2 /\ \A i \in 1 .. b - a + 2 : v[i] = q[a + i - 1]
  <2>1. b + 1 \in Nat /\ a <= (b + 1) + 1 /\ (b + 1) - a + 1 = b - a + 2
    OBVIOUS
  <2>2. /\ v \in Seq(S) /\ Len(v) = (b + 1) - a + 1
        /\ \A i \in 1 .. (b + 1) - a + 1 : v[i] = q[a + i - 1]
    BY <2>1, PartIs
  <2> QED
    BY <2>1, <2>2
<1>3. q[b + 1] \in S
  OBVIOUS
<1> DEFINE x == q[b + 1]
           w == Append(u, x)
<1> HIDE DEF u, v, x
<1>4. /\ w \in Seq(S) /\ Len(w) = b - a + 2 /\ w[b - a + 2] = x
      /\ \A i \in 1 .. b - a + 1 : w[i] = u[i]
  <2>1. w \in Seq(S) /\ Len(w) = Len(u) + 1 /\ w[Len(u) + 1] = x
        /\ \A i \in 1 .. Len(u) : w[i] = u[i]
    BY <1>1, <1>3 DEF x
  <2> HIDE DEF w
  <2> QED
    BY <1>1, <2>1
<1> HIDE DEF w
<1>5. \A i \in 1 .. b - a + 2 : w[i] = v[i]
  <2> SUFFICES ASSUME NEW i \in 1 .. b - a + 2 PROVE w[i] = v[i]
    OBVIOUS
  <2>1. CASE i = b - a + 2
    <3>1. a + i - 1 = b + 1
      BY <2>1
    <3> QED
      BY <1>2, <1>4, <2>1, <3>1 DEF x
  <2>2. CASE i # b - a + 2
    <3>1. i \in 1 .. b - a + 1
      BY <2>2
    <3> QED
      BY <1>1, <1>2, <1>4, <3>1
  <2> QED
    BY <2>1, <2>2
<1>6. w = v
  BY <1>2, <1>4, <1>5, SameParts
<1> QED
  BY <1>6 DEF u, v, w, x

\* An operand that is skipped joins those before it.
LEMMA SkipOperands ==
  ASSUME LineInv, SkipOperand
  PROVE  Operands' = Append(Operands, Word)
<1>1. /\ nargv \in Seq(WordType) /\ Len(nargv) \in Nat /\ optind \in 1 .. Len(nargv)
      /\ optind \in Nat /\ optind - 1 \in Nat /\ (optind - 1) + 1 = optind
  <2>1. /\ nargv \in Seq(WordType) /\ Len(nargv) \in Nat /\ optind \in 1 .. Len(nargv) + 1
        /\ optind <= Len(nargv)
    BY DEF LineInv, WordsInv, SkipOperand
  <2> QED
    BY <2>1
<1>2. /\ nargv' = (IF nonopt_end # None
                   THEN permute_args(nonopt_start, nonopt_end, optind, nargv)
                   ELSE nargv)
      /\ nonopt_start' = (IF nonopt_start = None THEN optind
                          ELSE IF nonopt_end # None THEN optind - (nonopt_end - nonopt_start)
                          ELSE nonopt_start)
      /\ nonopt_end' = None
      /\ optind' = optind + 1
      /\ ~IsOption(Word)
  BY DEF SkipOperand
<1>3. /\ nonopt_start = None \/ nonopt_start \in 1 .. optind - 1
      /\ nonopt_end # None => Blocks(nonopt_start, nonopt_end, optind)
  <2>1. nonopt_start = None \/ nonopt_start \in 1 .. optind - 1
    BY BlockPlaces
  <2>2. nonopt_end # None => Blocks(nonopt_start, nonopt_end, optind)
    BY <1>1, <1>2 DEF LineInv, BlocksInv, Blocks, None
  <2> QED
    BY <2>1, <2>2
<1>4. nonopt_start' # None
  <2>1. nonopt_start' \in Nat
    BY <1>1, <1>2, <1>3 DEF Blocks
  <2> QED
    BY <2>1 DEF None
<1>5. Operands' = SubSeq(nargv', nonopt_start', optind)
  <2>1. optind' - 1 = optind
    BY <1>1, <1>2
  <2> QED
    BY <1>2, <1>4, <2>1 DEF Operands
<1>6. CASE nonopt_start = None
  <2>1. nonopt_end = None
    BY <1>6 DEF LineInv, BlocksInv
  <2>2. Operands = <<>> /\ Operands' = SubSeq(nargv, optind, optind)
    BY <1>2, <1>5, <1>6, <2>1 DEF Operands
  <2>3. SubSeq(nargv, optind, (optind - 1) + 1) = Append(SubSeq(nargv, optind, optind - 1), nargv[(optind - 1) + 1])
    <3> DEFINE b == optind - 1
    <3>1. b \in Nat /\ b + 1 <= Len(nargv) /\ optind <= b + 1 /\ optind \in Nat \ {0}
      BY <1>1
    <3> HIDE DEF b, WordType
    <3>2. SubSeq(nargv, optind, b + 1) = Append(SubSeq(nargv, optind, b), nargv[b + 1])
      BY <1>1, <3>1, PartGrows
    <3> QED
      BY <3>2 DEF b
  <2>4. SubSeq(nargv, optind, optind - 1) = <<>>
    <3> HIDE DEF WordType
    <3> QED
      BY <1>1
  <2> QED
    BY <1>1, <2>2, <2>3, <2>4 DEF Word
<1>7. CASE nonopt_start # None /\ nonopt_end = None
  <2> DEFINE s == nonopt_start
             b == optind - 1
  <2>1. s \in Nat \ {0} /\ s <= b + 1 /\ b \in Nat /\ b + 1 <= Len(nargv) /\ b + 1 = optind
    BY <1>1, <1>3, <1>7
  <2>2. Operands = SubSeq(nargv, s, b) /\ Operands' = SubSeq(nargv, s, b + 1)
    BY <1>2, <1>5, <1>7, <2>1 DEF Operands
  <2> HIDE DEF s, b
  <2>3. SubSeq(nargv, s, b + 1) = Append(SubSeq(nargv, s, b), nargv[b + 1])
    BY <1>1, <2>1, PartGrows
  <2> QED
    BY <2>1, <2>2, <2>3 DEF Word
<1>8. CASE nonopt_start # None /\ nonopt_end # None
  <2> DEFINE s == nonopt_start
             e == nonopt_end
             b == optind - 1
             p == permute_args(s, e, optind, nargv)
             a == s + (optind - e)
  <2>1. Blocks(s, e, optind) /\ optind - 1 <= Len(nargv)
    BY <1>1, <1>3, <1>8
  <2>2. Carried(s, e, optind, nargv, WordType, p)
    BY <1>1, <2>1, BlockMoved
  <2>3. nargv' = p /\ nonopt_start' = optind - (e - s)
    BY <1>2, <1>8
  <2>4. s \in Nat /\ s > 0 /\ e \in Nat /\ s < e /\ e < optind
    BY <2>1 DEF Blocks
  <2>5. optind - (e - s) = a /\ a \in Nat \ {0} /\ a <= b + 1 /\ b \in Nat /\ b + 1 <= Len(nargv)
        /\ b + 1 = optind /\ b = optind - 1
    BY <1>1, <2>4
  <2>6. Operands = SubSeq(nargv, s, e - 1)
    BY <1>8 DEF Operands
  <2> HIDE DEF p, WordType, a
  <2>7. /\ p \in Seq(WordType) /\ Len(p) = Len(nargv)
        /\ SubSeq(p, a, optind - 1) = SubSeq(nargv, s, e - 1)
        /\ p[optind] = nargv[optind]
    <3>1. /\ p \in Seq(WordType) /\ Len(p) = Len(nargv)
          /\ SubSeq(p, s + (optind - e), optind - 1) = SubSeq(nargv, s, e - 1)
          /\ \A i \in 1 .. Len(nargv) : optind <= i => p[i] = nargv[i]
      BY <2>2 DEF Carried
    <3>2. optind \in 1 .. Len(nargv) /\ optind <= optind
      BY <1>1
    <3>3. p[optind] = nargv[optind]
      BY <3>1, <3>2
    <3> HIDE DEF s, e
    <3> QED
      BY <3>1, <3>3 DEF a
  <2> HIDE DEF s, e, b
  <2>8. Operands' = SubSeq(p, a, b + 1)
    BY <1>5, <2>3, <2>5
  <2>9. SubSeq(p, a, b + 1) = Append(SubSeq(p, a, b), p[b + 1])
    BY <2>5, <2>7, PartGrows
  <2> QED
    BY <2>5, <2>6, <2>7, <2>8, <2>9 DEF Word
<1> QED
  BY <1>6, <1>7, <1>8

\* An option leaves them alone.
LEMMA ReadingOperands ==
  ASSUME LineInv, OrderInv, Reading
  PROVE  Operands' = Operands
<1>1. /\ nonopt_start' = nonopt_start /\ nargv' = nargv
      /\ nonopt_end' = IF place = <<>> THEN NonoptEnd ELSE nonopt_end
      /\ optind \in 1 .. Len(nargv) /\ phase = "tagged"
  BY PendingType DEF Reading, LineInv, Tagged
<1>2. place # <<>> => nonopt_start = None \/ nonopt_end # None
  BY <1>1 DEF OrderInv
<1>3. CASE nonopt_start = None
  BY <1>1, <1>3 DEF Operands
<1>4. CASE nonopt_start # None /\ nonopt_end # None
  BY <1>1, <1>4 DEF Operands, NonoptEnd
<1>5. CASE nonopt_start # None /\ nonopt_end = None /\ place = <<>>
  <2>1. nonopt_end' = optind /\ optind # None
    BY <1>1, <1>5 DEF NonoptEnd, None
  <2> QED
    BY <1>1, <1>5, <2>1 DEF Operands
<1> QED
  BY <1>2, <1>3, <1>4, <1>5

\* The next answer but for a nameless option takes getopt on.
LEMMA AnswerOnwards ==
  ASSUME Faithful, LineInv, OrderInv, UNCHANGED <<argv, posixly_correct>>,
         NEW CONSTANT r, Midway(r),
         \/ BadLongOption \/ LongOptionLacksValue
         \/ parse_long_options \/ UnknownLetter \/ FlagLetter
         \/ LetterLacksValue \/ ValueLetter
  PROVE  given'["inputfile"] = given["inputfile"] /\ \E q : Midway(q)'
<1>1. PICK q : Onwards(r, q)
  BY BadLongOnwards, LongLacksOnwards, LongOnwards, UnknownOnwards, FlagOnwards,
     LetterLacksOnwards, LetterValueOnwards
<1>2. Reading
  BY DEF BadLongOption, LongOptionLacksValue, parse_long_options,
     UnknownLetter, FlagLetter, LetterLacksValue, ValueLetter, ReadingLong, ReadingShort
<1>3. Operands' = Operands
  BY <1>2, ReadingOperands
<1>4. /\ q \in Readings /\ ~q.stuck /\ ~q.ended /\ q.ins = Operands'
      /\ Seen(q)'
  BY <1>1, <1>3 DEF Onwards, Midway
<1>5. ASSUME place' = <<>> PROVE \E c : Midway(c)'
  <2>1. PICK p : p = optind' - 1
    OBVIOUS
  <2>2. ReadTo(p)' = ReadTo(p)
    BY ReadToStays
  <2>3. q = ReadTo(optind - 1)' /\ (q.wants # "nothing" => optind' = Len(argv') + 1)
    BY <1>1, <1>5, <2>1, <2>2 DEF Onwards
  <2> QED
    BY <1>4, <1>5, <2>3 DEF Midway
<1>6. ASSUME place' # <<>> PROVE \E c : Midway(c)'
  <2>1. PICK letters : letters = place'
    OBVIOUS
  <2>2. Amid(q, letters) /\ q.wants = "nothing" /\ optind' = optind
    BY <1>1, <1>6, <2>1 DEF Onwards
  <2>3. Amid(q, letters)'
    BY <2>2, AmidStays
  <2>4. Amid(q, place)'
    BY <2>1, <2>3
  <2> QED
    BY <1>4, <1>6, <2>2, <2>4 DEF Midway
<1>7. given'["inputfile"] = given["inputfile"]
  BY <1>1 DEF Onwards
<1> QED
  BY <1>5, <1>6, <1>7

-----------------------------------------------------------------------------
(* The reading once the options have ended.                                *)

\* r took in all words from p + 1 to m as operands.
TookIn(r, p, m) ==
    LET q == ReadTo(m)
    IN  /\ q \in Readings /\ ~q.stuck /\ q.ended /\ q.wants = r.wants
        /\ q.flags = r.flags /\ q.outs = r.outs /\ q.wrong = r.wrong
        /\ q.ins = r.ins \o SubSeq(argv, p + 1, m)

\* Once the options have ended, the next word is an operand.
LEMMA OperandTaken ==
  ASSUME WordsInv, NEW r \in Readings, r.wants = "nothing", NEW p \in Nat,
         NEW m \in Nat, p <= m, m < Len(argv), TookIn(r, p, m)
  PROVE  TookIn(r, p, m + 1)
<1> DEFINE q == ReadTo(m)
           word == argv[m + 1]
<1>1. argv \in Seq(WordType) /\ Len(argv) \in Nat
  BY LineTyped DEF WordsInv
<1>2. word \in WordType
  <2> HIDE DEF WordType
  <2> QED
    BY <1>1
<1>3. ReadTo(m + 1) = ReadWord(q, word)
  BY ReadToNext
<1>4. /\ q \in Readings /\ ~q.stuck /\ q.ended /\ q.wants = "nothing" /\ q.wants = r.wants
      /\ q.flags = r.flags /\ q.outs = r.outs /\ q.wrong = r.wrong
      /\ q.ins = r.ins \o SubSeq(argv, p + 1, m)
  BY DEF TookIn
<1> HIDE DEF q, word
<1>5. ReadWord(q, word) = [q EXCEPT !.ins = Append(@, word), !.ended = @ \/ posixly_correct]
  BY <1>4 DEF ReadWord
<1>6. Append(q.ins, word) \in Seq(WordType) /\ q.ins \in Seq(WordType) /\ r.ins \in Seq(WordType)
  <2>1. q.ins \in Seq(WordType) /\ r.ins \in Seq(WordType)
    BY <1>4 DEF Readings
  <2> HIDE DEF WordType
  <2> QED
    BY <1>2, <2>1
<1> DEFINE w == [q EXCEPT !.ins = Append(@, word), !.ended = @ \/ posixly_correct]
<1>7. /\ w \in Readings /\ ~w.stuck /\ w.ended /\ w.wants = q.wants
      /\ w.flags = q.flags /\ w.outs = q.outs /\ w.wrong = q.wrong
      /\ w.ins = Append(q.ins, word)
  <2>1. (q.ended \/ posixly_correct) = TRUE
    BY <1>4 DEF Readings
  <2> QED
    BY <1>4, <1>6, <2>1 DEF Readings
<1>8. Append(q.ins, word) = r.ins \o SubSeq(argv, p + 1, m + 1)
  <2> DEFINE a == p + 1
             u == SubSeq(argv, a, m)
             i == r.ins
  <2>1. a \in Nat \ {0} /\ m + 1 <= Len(argv) /\ a <= m + 1
    BY <1>1
  <2> HIDE DEF a, WordType
  <2>2. SubSeq(argv, a, m + 1) = Append(u, word)
    BY <1>1, <2>1, PartGrows DEF word
  <2>3. u \in Seq(WordType)
    BY <1>1, <2>1, PartIs
  <2>4. i \in Seq(WordType) /\ word \in WordType
    BY <1>2, <1>6
  <2> HIDE DEF u, i
  <2>5. Append(i \o u, word) = i \o Append(u, word)
    BY <2>3, <2>4
  <2> QED
    BY <1>4, <2>2, <2>5 DEF a, u, i
<1> HIDE DEF w
<1>9. ReadTo(m + 1) = w
  BY <1>3, <1>5 DEF w
<1> QED
  BY <1>4, <1>7, <1>8, <1>9 DEF TookIn

\* And so are all the others.
LEMMA OperandsTaken ==
  ASSUME WordsInv, NEW r \in Readings, r.wants = "nothing", r.ended, ~r.stuck,
         NEW p \in Nat, p <= Len(argv), r = ReadTo(p)
  PROVE  TookIn(r, p, Len(argv))
<1>1. argv \in Seq(WordType) /\ Len(argv) \in Nat
  BY LineTyped DEF WordsInv
<1> DEFINE with == {k \in Nat : p + k <= Len(argv) => TookIn(r, p, p + k)}
<1>2. 0 \in with
  <2>1. SubSeq(argv, p + 1, p) = <<>>
    <3> HIDE DEF WordType
    <3> QED
      BY <1>1
  <2>2. r.ins \in Seq(WordType)
    BY DEF Readings
  <2>3. r.ins \o <<>> = r.ins
    <3> HIDE DEF WordType
    <3> QED
      BY <2>2
  <2>4. TookIn(r, p, p)
    BY <2>1, <2>3 DEF TookIn
  <2>5. p + 0 = p
    OBVIOUS
  <2> QED
    BY <2>4, <2>5
<1>3. ASSUME NEW k \in with PROVE k + 1 \in with
  <2>1. k \in Nat /\ k + 1 \in Nat
    OBVIOUS
  <2>2. ASSUME p + (k + 1) <= Len(argv) PROVE TookIn(r, p, p + (k + 1))
    <3> DEFINE m == p + k
    <3>1. m \in Nat /\ p <= m /\ m < Len(argv) /\ p + (k + 1) = m + 1
      BY <1>1, <2>1, <2>2
    <3>2. TookIn(r, p, m)
      BY <1>3, <3>1
    <3> HIDE DEF m
    <3>3. TookIn(r, p, m + 1)
      BY <3>1, <3>2, OperandTaken
    <3> QED
      BY <3>1, <3>3
  <2> QED
    BY <2>1, <2>2
<1>4. with = Nat
  <2>1. with \in SUBSET Nat
    OBVIOUS
  <2> HIDE DEF with
  <2> QED
    BY <1>2, <1>3, <2>1, Inductive
<1>5. Len(argv) - p \in Nat /\ p + (Len(argv) - p) = Len(argv)
  BY <1>1
<1>6. Len(argv) - p \in with
  BY <1>4, <1>5
<1> QED
  BY <1>5, <1>6

-----------------------------------------------------------------------------
(* A cluster of letters that ends in a dash.                               *)

\* From optind on getopt has moved nothing.
LEMMA OwnWords ==
  ASSUME LineInv, OrderInv, phase = "tagged"
  PROVE  /\ Len(argv) \in Nat /\ Len(nargv) = Len(argv)
         /\ optind \in 1 .. Len(argv) + 1
         /\ \A i \in optind .. Len(argv) : nargv[i] = argv[i]
<1>1. Len(argv) \in Nat /\ Len(nargv) = Len(argv) /\ optind \in 1 .. Len(argv) + 1
  BY BlockPlaces
<1>2. PICK q : Rearranges(q) /\ Sorted(q)
  BY DEF OrderInv
<1>3. \A i \in Places : nargv[i] = argv[q[i]] /\ (optind <= i => q[i] = i)
  BY <1>2 DEF Rearranges, Sorted
<1>4. \A i \in optind .. Len(argv) : i \in Places /\ optind <= i
  BY <1>1 DEF Places
<1> QED
  BY <1>1, <1>3, <1>4

\* getopt reads the word again.
LEMMA NamelessStuck ==
  ASSUME Faithful, LineInv, OrderInv, UNCHANGED <<argv, posixly_correct>>,
         NEW CONSTANT r, Midway(r), NamelessOption
  PROVE  Stuck' /\ given'["inputfile"] = given["inputfile"]
<1>1. /\ Reading /\ Pending = <<"-">> /\ place' = <<>> /\ optind' = optind
      /\ given' = given
  BY DEF NamelessOption
<1>2. /\ Amid(r, <<"-">>) /\ optind \in 1 .. Len(argv) /\ WordsInv
      /\ Len(argv) \in Nat
  BY <1>1, PendingAmid
<1>3. Sticks(<<>>)
  BY <1>2, AmidSticks
<1>4. Sticks(<<>>)'
  BY <1>1, <1>3, SticksStays
<1>5. optind' <= Len(argv')
  BY <1>1, <1>2
<1> QED
  BY <1>1, <1>4, <1>5 DEF Stuck

\* Once it has come to such a cluster getopt never leaves it.
LEMMA StuckNext ==
  ASSUME LineInv, OrderInv, phase = "tagged", UNCHANGED argv, Stuck, getopt_internal
  PROVE  Stuck' /\ phase' = "tagged" /\ given'["inputfile"] = given["inputfile"]
<1>1. /\ Len(argv) \in Nat /\ Len(nargv) = Len(argv) /\ optind \in 1 .. Len(argv)
      /\ Word = argv[optind] /\ WordsInv
  <2>1. optind <= Len(argv)
    BY DEF Stuck
  <2> QED
    BY <2>1, OwnWords DEF Word, LineInv
<1>2. Sticks(<<>>) /\ IsOption(Word) /\ Word # Terminator /\ Sticks(place)
  BY <1>1 DEF Stuck, Sticks
<1>3. ~EndOfWords /\ ~FirstOperand /\ ~SkipOperand /\ ~EndOfOptions
  BY <1>1, <1>2 DEF EndOfWords, FirstOperand, SkipOperand, EndOfOptions
<1>4. Reading
  BY <1>3 DEF getopt_internal, NamelessOption, BadLongOption, LongOptionLacksValue,
     parse_long_options, UnknownLetter, FlagLetter, LetterLacksValue, ValueLetter,
     ReadingLong, ReadingShort
<1>5. Sticks(Pending) /\ Pending # <<>> /\ phase' = phase
  <2>1. CASE place # <<>>
    BY <1>2, <1>4, <2>1 DEF Pending, Reading
  <2>2. CASE place = <<>>
    <3>1. Pending = Tail(argv[optind])
      BY <1>1, <1>2, <2>2 DEF Pending
    <3> QED
      BY <1>1, <1>2, <1>4, <3>1, StickStart DEF Reading
  <2> QED
    BY <2>1, <2>2
<1>6. \/ Pending = <<"-">>
      \/ /\ Letter # "-"
         /\ Letter \notin DOMAIN ShortOption \/ ShortOption[Letter] \in Flags
         /\ Rest # <<>> /\ Sticks(Rest)
  BY <1>1, <1>5, StickNext DEF Letter, Rest
<1>7. <<"-">>[1] = "-" /\ Len(<<"-">>) = 1
  OBVIOUS
<1>8. CASE NamelessOption
  <2>1. place' = <<>> /\ optind' = optind /\ given' = given
    BY <1>8 DEF NamelessOption
  <2>2. Sticks(<<>>)'
    BY <1>2, <2>1, SticksStays
  <2> QED
    BY <1>1, <1>5, <2>1, <2>2 DEF Stuck
<1>9. CASE UnknownLetter \/ FlagLetter
  <2>1. Letter # "-" /\ place' = Rest /\ optind' = PastLetter
    BY <1>9 DEF UnknownLetter, FlagLetter, ReadingShort, Letter
  <2>2. Rest # <<>> /\ Sticks(Rest)
    BY <1>6, <1>7, <2>1 DEF Letter
  <2>3. PICK letters : letters = Rest
    OBVIOUS
  <2>4. optind' = optind /\ place' = letters
    BY <2>1, <2>2, <2>3 DEF PastLetter
  <2>5. Sticks(letters)'
    BY <2>2, <2>3, <2>4, SticksStays
  <2>6. Sticks(place)'
    BY <2>4, <2>5
  <2>7. given'["inputfile"] = given["inputfile"]
    <3>1. CASE UnknownLetter
      BY <3>1 DEF UnknownLetter
    <3>2. CASE FlagLetter
      <4>1. arg_scanfn(ShortOption[Letter], <<>>) /\ ShortOption[Letter] \in Flags
        BY <3>2 DEF FlagLetter
      <4>2. given \in [Entries -> Seq(WordType)] /\ "inputfile" \in Entries
        BY DEF LineInv, GivenInv, Entries, Files
      <4>3. ShortOption[Letter] # "inputfile"
        BY <4>1 DEF Flags
      <4> QED
        BY <4>1, <4>2, <4>3 DEF arg_scanfn
    <3> QED
      BY <1>9, <3>1, <3>2
  <2> QED
    <3>1. optind' <= Len(argv')
      BY <1>1, <2>4
    <3>2. Stuck'
      BY <2>6, <3>1 DEF Stuck
    <3> QED
      BY <1>5, <2>7, <3>2
<1>10. ~ReadingLong
  <2> SUFFICES ASSUME ReadingLong PROVE FALSE
    OBVIOUS
  <2>1. Len(Pending) > 1 /\ Letter = "-"
    BY DEF ReadingLong, Letter
  <2>2. ASSUME Pending = <<"-">> PROVE FALSE
    <3>1. Len(Pending) = 1
      BY <2>2, <1>7, Zenon
    <3> QED
      BY <2>1, <3>1
  <2> QED
    BY <1>6, <2>1, <2>2
<1>11. ~LetterLacksValue /\ ~ValueLetter
  <2>1. Flags \cap Files = {}
    BY DEF Flags, Files
  <2> QED
    BY <1>6, <1>7, <2>1 DEF LetterLacksValue, ValueLetter, ReadingShort, Letter
<1>12. ~BadLongOption /\ ~LongOptionLacksValue /\ ~parse_long_options
  BY <1>10 DEF BadLongOption, LongOptionLacksValue, parse_long_options
<1> QED
  BY <1>3, <1>8, <1>9, <1>11, <1>12 DEF getopt_internal

-----------------------------------------------------------------------------
(* The operands.                                                           *)

\* A word that is none of the options is an operand.
LEMMA OperandRead ==
  ASSUME Faithful, WordsInv, optind \in 1 .. Len(argv), ~IsOption(argv[optind]),
         NEW r \in Readings, ~r.stuck, ~r.ended, r.wants = "nothing",
         r = ReadTo(optind - 1), NEW word, word = argv[optind]
  PROVE  /\ word \in WordType /\ Append(r.ins, word) \in Seq(WordType)
         /\ ReadTo(optind) = [r EXCEPT !.ins = Append(@, word), !.ended = @ \/ posixly_correct]
<1>1. argv \in CommandLines /\ argv \in Seq(WordType) /\ Len(argv) \in Nat
  BY LineTyped DEF WordsInv
<1>2. word \in ToSet(argv) /\ word \in WordType
  <2> HIDE DEF WordType
  <2> QED
    BY <1>1 DEF ToSet
<1>3. word \notin DOMAIN Vocabulary /\ word # Terminator
  <2>1. word # Terminator
    BY DEF IsOption, Terminator
  <2> QED
    BY <1>1, <1>2, <2>1 DEF Faithful
<1>4. ReadTo(optind) = ReadWord(r, word)
  <2> DEFINE p == optind - 1
  <2>1. p \in Nat /\ p < Len(argv) /\ p + 1 = optind
    BY <1>1
  <2>2. r = ReadTo(p)
    OBVIOUS
  <2> HIDE DEF p
  <2>3. ReadTo(p + 1) = ReadWord(ReadTo(p), argv[p + 1])
    BY <2>1, ReadToNext
  <2> QED
    BY <2>1, <2>2, <2>3
<1>5. ReadWord(r, word) = [r EXCEPT !.ins = Append(@, word), !.ended = @ \/ posixly_correct]
  BY <1>3 DEF ReadWord
<1>6. r.ins \in Seq(WordType)
  BY DEF Readings
<1>7. Append(r.ins, word) \in Seq(WordType)
  <2> HIDE DEF WordType
  <2> QED
    BY <1>2, <1>6
<1> QED
  BY <1>2, <1>4, <1>5, <1>7

\* An operand that is skipped takes getopt on.
LEMMA SkipMidway ==
  ASSUME Faithful, LineInv, OrderInv, UNCHANGED <<argv, posixly_correct>>,
         NEW CONSTANT r, Midway(r), SkipOperand
  PROVE  given'["inputfile"] = given["inputfile"] /\ \E q : Midway(q)'
<1>1. /\ phase = "tagged" /\ place = <<>> /\ optind <= Len(nargv) /\ ~IsOption(Word)
      /\ optind' = optind + 1 /\ place' = <<>>
      /\ given' = given /\ errors' = errors
  BY DEF SkipOperand, BetweenWords, Tagged
<1>2. /\ Len(argv) \in Nat /\ Len(nargv) = Len(argv) /\ optind \in 1 .. Len(argv)
      /\ Word = argv[optind] /\ WordsInv
  BY <1>1, OwnWords DEF Word, LineInv
<1>3. /\ r \in Readings /\ ~r.stuck /\ ~r.ended /\ r.ins = Operands /\ Seen(r)
      /\ r = ReadTo(optind - 1) /\ r.wants = "nothing"
  BY <1>1, <1>2 DEF Midway
<1>4. PICK word : word = Word
  OBVIOUS
<1>5. /\ word \in WordType /\ Append(r.ins, word) \in Seq(WordType)
      /\ ReadTo(optind) = [r EXCEPT !.ins = Append(@, word), !.ended = @ \/ posixly_correct]
  BY <1>1, <1>2, <1>3, <1>4, OperandRead
<1>6. PICK q : q = [r EXCEPT !.ins = Append(@, word), !.ended = FALSE]
  OBVIOUS
<1>7. PICK p : p = optind
  OBVIOUS
<1>8. ReadTo(p)' = q
  <2>1. ~r.ended /\ ~posixly_correct
    BY <1>3 DEF SkipOperand
  <2>2. (r.ended \/ posixly_correct) = FALSE
    BY <2>1
  <2>3. ReadTo(p) = q
    BY <1>5, <1>6, <1>7, <2>2
  <2> QED
    BY <2>3, ReadToStays
<1>9. /\ q.ins = Append(r.ins, word) /\ q.stuck = r.stuck /\ q.wants = "nothing"
      /\ q.flags = r.flags /\ q.outs = r.outs /\ q.wrong = r.wrong
      /\ q.ended = FALSE
  BY <1>3, <1>6 DEF Readings
<1>10. ~q.ended /\ q \in Readings
  BY <1>3, <1>5, <1>6, <1>9 DEF Readings
<1>11. q.ins = Operands'
  BY <1>3, <1>4, <1>9, SkipOperands
<1>12. Seen(q)'
  <2>1. Repeats(q) <=> Repeats(r)
    BY <1>9 DEF Repeats
  <2>2. Sound(q) <=> Sound(r)
    BY <1>3, <1>9, <2>1 DEF Sound
  <2> QED
    BY <1>1, <1>3, <1>9, <2>2 DEF Seen, Scanned
<1>13. optind' - 1 = p
  BY <1>1, <1>2, <1>7
<1>14. q = ReadTo(optind - 1)'
  BY <1>8, <1>13
<1>15. Midway(q)'
  BY <1>1, <1>3, <1>9, <1>10, <1>11, <1>12, <1>14 DEF Midway
<1> QED
  BY <1>1, <1>15

-----------------------------------------------------------------------------
(* The reading once getopt has returned -1.                                *)

\* The words getopt has left over and arg_parse_untagged has not taken yet.
Left == SubSeq(nargv, optind, Len(nargv))

\* The options of the line r have been scanned, and of its operands "taken".
Remaining(r, taken) ==
    /\ r = Read(argv) /\ r \in Readings /\ taken \in Seq(WordType)
    /\ Scanned(r)
    /\ r.ins = taken \o Left
    /\ given["inputfile"] = Kept(taken)
    /\ errors = 0 <=> Sound(r) /\ Len(taken) <= 3

UntaggedInv == phase = "untagged" => \E r, taken : Remaining(r, taken)

\* When getopt returns -1, no operand has been scanned yet.
LEMMA NothingTaken ==
  ASSUME given["inputfile"] = <<>>, NEW CONSTANT r, Seen(r),
         UNCHANGED <<argv, posixly_correct, given, errors>>,
         NEW CONSTANT z, z \in Readings, z.wants = r.wants, z.flags = r.flags,
         z.outs = r.outs, z.wrong = r.wrong, z = Read(argv), z.ins = Left'
  PROVE  Remaining(z, <<>>)'
<1>1. Sound(z) <=> Sound(r)
  BY DEF Sound, Repeats
<1>2. Scanned(z)' /\ (errors' = 0 <=> Sound(z))
  BY <1>1 DEF Seen, Scanned
<1>3. z = Read(argv)'
  <2>1. PICK line : line = argv
    OBVIOUS
  <2>2. Read(line)' = Read(line)
    BY ReadStays
  <2> QED
    BY <2>1, <2>2
<1>4. <<>> \in Seq(WordType) /\ Len(<<>>) = 0 /\ <<>> \o z.ins = z.ins
  <2>1. z.ins \in Seq(WordType)
    BY DEF Readings
  <2> HIDE DEF WordType
  <2> QED
    BY <2>1
<1>5. Kept(<<>>) = <<>>
  BY DEF Kept
<1>6. given'["inputfile"] = Kept(<<>>)
  BY <1>5
<1>7. z.ins = <<>> \o Left'
  BY <1>4
<1>8. errors' = 0 <=> Sound(z) /\ Len(<<>>) <= 3
  BY <1>2, <1>4
<1> QED
  BY <1>2, <1>3, <1>4, <1>6, <1>7, <1>8 DEF Remaining

\* What lies behind optind lies there in argv.
LEMMA SameEnd ==
  ASSUME LineInv, OrderInv, phase = "tagged", NEW k \in Nat, optind <= k, k <= Len(argv) + 1
  PROVE  /\ SubSeq(nargv, k, Len(nargv)) = SubSeq(argv, k, Len(argv))
         /\ SubSeq(argv, k, Len(argv)) \in Seq(WordType)
<1> DEFINE n == Len(argv)
           u == SubSeq(nargv, k, n)
           v == SubSeq(argv, k, n)
<1>1. /\ n \in Nat /\ Len(nargv) = n /\ k \in Nat \ {0} /\ k <= n + 1 /\ n <= n
      /\ \A i \in optind .. n : nargv[i] = argv[i]
  BY OwnWords
<1>2. nargv \in Seq(WordType) /\ argv \in Seq(WordType)
  BY LineTyped DEF LineInv, WordsInv
<1>3. Len(argv) = n
  OBVIOUS
<1> HIDE DEF n, WordType
<1>4. /\ u \in Seq(WordType) /\ Len(u) = n - k + 1
      /\ \A i \in 1 .. n - k + 1 : u[i] = nargv[k + i - 1]
  BY <1>1, <1>2, PartIs
<1>5. /\ v \in Seq(WordType) /\ Len(v) = n - k + 1
      /\ \A i \in 1 .. n - k + 1 : v[i] = argv[k + i - 1]
  BY <1>1, <1>2, <1>3, PartIs
<1>6. \A i \in 1 .. n - k + 1 : u[i] = v[i]
  <2>1. optind \in Nat
    BY OwnWords
  <2>2. \A i \in 1 .. n - k + 1 : k + i - 1 \in optind .. n
    BY <1>1, <2>1
  <2> QED
    BY <1>1, <1>4, <1>5, <2>2
<1> HIDE DEF u, v
<1>7. u = v
  BY <1>4, <1>5, <1>6, SameParts
<1> QED
  BY <1>1, <1>5, <1>7 DEF u, v, n

\* The end of the words leaves the operands skipped.
LEMMA EndOfWordsLeaves ==
  ASSUME LineInv, OrderInv, EndOfWords, UNCHANGED <<argv, posixly_correct>>,
         given["inputfile"] = <<>>, NEW CONSTANT r, Midway(r)
  PROVE  \E z, taken : Remaining(z, taken)'
<1> DEFINE n == Len(nargv)
<1>1. /\ phase = "tagged" /\ place = <<>> /\ optind > n /\ UNCHANGED <<given, errors>>
  BY DEF EndOfWords, BetweenWords, Tagged, Leave
<1>2. /\ n \in Nat /\ Len(argv) = n /\ optind = n + 1 /\ optind - 1 = n
      /\ nonopt_start = None \/ nonopt_start \in 1 .. n
      /\ \/ nonopt_end = None
         \/ /\ nonopt_start # None /\ nonopt_end \in nonopt_start + 1 .. n + 1
            /\ nonopt_end \in Nat
      /\ nargv \in Seq(WordType) /\ WordsInv
  <2>1. nargv \in Seq(WordType) /\ WordsInv
    BY DEF LineInv, WordsInv
  <2> QED
    BY <1>1, <2>1, BlockPlaces
<1>3. r \in Readings /\ r.ins = Operands /\ Seen(r) /\ r = Read(argv)
  <2>1. r = ReadTo(optind - 1)
    BY <1>1 DEF Midway
  <2> QED
    BY <1>2, <2>1, ReadToEnd DEF Midway
<1>4. SubSeq(nargv, n + 1, n) = <<>>
  <2> HIDE DEF WordType, n
  <2> QED
    BY <1>2
<1>5. Left' = Operands
  <2>1. CASE nonopt_end = None /\ nonopt_start # None
    <3>1. nargv' = nargv /\ optind' = nonopt_start
      BY <2>1 DEF EndOfWords, Leave
    <3> QED
      BY <1>2, <2>1, <3>1 DEF Left, Operands
  <2>2. CASE nonopt_end = None /\ nonopt_start = None
    <3>1. nargv' = nargv /\ optind' = n + 1
      BY <1>2, <2>2 DEF EndOfWords, Leave
    <3> QED
      BY <1>4, <2>2, <3>1 DEF Left, Operands
  <2>3. CASE nonopt_end # None
    <3>1. Leave(optind, nonopt_end)
      BY <2>3 DEF EndOfWords
    <3>2. nonopt_end # optind
      <4>1. nonopt_end = optind => optind <= Len(nargv)
        BY DEF LineInv, BlocksInv
      <4> QED
        BY <1>2, <4>1
    <3>3. Blocks(nonopt_start, nonopt_end, optind)
      BY <1>2, <2>3, <3>2 DEF Blocks
    <3>4. Left' = SubSeq(nargv, nonopt_start, nonopt_end - 1) \o SubSeq(nargv, optind, n)
      <4>1. optind \in 1 .. Len(nargv) + 1
        BY <1>2
      <4>2. /\ Len(nargv') = Len(nargv)
            /\ SubSeq(nargv', optind', Len(nargv')) =
                 IF nonopt_end = None THEN SubSeq(nargv, optind, Len(nargv))
                 ELSE SubSeq(nargv, nonopt_start, nonopt_end - 1)
                        \o SubSeq(nargv, optind, Len(nargv))
        BY <1>2, <3>1, <3>3, <4>1, LeaveGives
      <4> QED
        BY <2>3, <4>2 DEF Left
    <3>5. SubSeq(nargv, optind, n) = <<>>
      BY <1>2, <1>4
    <3>6. Operands = SubSeq(nargv, nonopt_start, nonopt_end - 1)
      BY <1>2, <2>3 DEF Operands
    <3>7. Operands \in Seq(WordType)
      BY <1>3 DEF Readings
    <3>8. Operands \o <<>> = Operands
      <4> HIDE DEF WordType
      <4> QED
        BY <3>7
    <3> QED
      BY <3>4, <3>5, <3>6, <3>8
  <2> QED
    BY <2>1, <2>2, <2>3
<1>6. Remaining(r, <<>>)'
  BY <1>1, <1>3, <1>5, NothingTaken
<1> QED
  BY <1>6

\* POSIXLY_CORRECT: the first operand ends the options.
LEMMA FirstOperandLeaves ==
  ASSUME Faithful, LineInv, OrderInv, FirstOperand, UNCHANGED <<argv, posixly_correct>>,
         given["inputfile"] = <<>>, NEW CONSTANT r, Midway(r)
  PROVE  \E z, taken : Remaining(z, taken)'
<1> DEFINE n == Len(argv)
<1>1. /\ phase = "tagged" /\ place = <<>> /\ optind <= Len(nargv) /\ posixly_correct
      /\ ~IsOption(Word) /\ UNCHANGED <<nargv, optind, given, errors>>
  BY DEF FirstOperand, BetweenWords, Tagged, getoptVars
<1>2. /\ n \in Nat /\ Len(nargv) = n /\ optind \in 1 .. n /\ Word = argv[optind]
      /\ WordsInv /\ argv \in Seq(WordType)
  BY <1>1, OwnWords, LineTyped DEF Word, LineInv, WordsInv
<1>3. /\ r \in Readings /\ ~r.stuck /\ ~r.ended /\ r.ins = Operands /\ Seen(r)
      /\ r = ReadTo(optind - 1) /\ r.wants = "nothing"
  BY <1>1, <1>2 DEF Midway
<1>4. r.ins = <<>>
  BY <1>1, <1>3 DEF OrderInv, Operands
<1> DEFINE word == argv[optind]
<1>5. /\ word \in WordType /\ Append(r.ins, word) \in Seq(WordType)
      /\ ReadTo(optind) = [r EXCEPT !.ins = Append(@, word), !.ended = @ \/ posixly_correct]
  BY <1>1, <1>2, <1>3, OperandRead
<1> DEFINE q == [r EXCEPT !.ins = Append(@, word), !.ended = TRUE]
<1> HIDE DEF word
<1>6. ReadTo(optind) = q
  <2>1. (r.ended \/ posixly_correct) = TRUE
    BY <1>1
  <2> QED
    BY <1>5, <2>1
<1>7. /\ q \in Readings /\ q.ins = Append(r.ins, word) /\ ~q.stuck /\ q.wants = "nothing"
      /\ q.flags = r.flags /\ q.outs = r.outs /\ q.wrong = r.wrong /\ q.ended
  BY <1>3, <1>5 DEF Readings
<1> HIDE DEF q
<1>8. TookIn(q, optind, n)
  <2>1. optind \in Nat /\ optind <= Len(argv) /\ q = ReadTo(optind)
    BY <1>2, <1>6
  <2> QED
    BY <1>2, <1>7, <2>1, OperandsTaken
<1>9. PICK z : z = Read(argv)
  OBVIOUS
<1>10. /\ z \in Readings /\ z.wants = r.wants
       /\ z.flags = r.flags /\ z.outs = r.outs /\ z.wrong = r.wrong
       /\ z.ins = q.ins \o SubSeq(argv, optind + 1, n)
  <2>1. z = ReadTo(n)
    BY <1>2, <1>9, ReadToEnd
  <2> QED
    BY <1>3, <1>7, <1>8, <2>1 DEF TookIn
<1>11. z.ins = SubSeq(argv, optind, n)
  <2> DEFINE b == optind - 1
             u == SubSeq(argv, optind, b)
             v == SubSeq(argv, optind, optind)
             w == SubSeq(argv, optind + 1, n)
  <2>1. /\ b \in Nat /\ b + 1 <= Len(argv) /\ optind <= b + 1 /\ b + 1 = optind
        /\ optind \in Nat \ {0} /\ optind \in Nat
    BY <1>2
  <2>2. u = <<>>
    <3> HIDE DEF WordType
    <3> QED
      BY <1>2
  <2>3. v = Append(u, word)
    <3> HIDE DEF b, WordType
    <3>1. SubSeq(argv, optind, b + 1) = Append(SubSeq(argv, optind, b), argv[b + 1])
      BY <1>2, <2>1, PartGrows
    <3> QED
      BY <2>1, <3>1 DEF word
  <2>4. SubSeq(argv, optind, n) = v \o w
    <3>1. n \in Nat /\ n <= Len(argv) /\ optind <= optind + 1 /\ optind <= n
      BY <1>2
    <3> HIDE DEF n, WordType
    <3> QED
      BY <1>2, <2>1, <3>1, PartsJoin
  <2>5. q.ins = v
    BY <1>4, <1>7, <2>2, <2>3
  <2> QED
    BY <1>10, <2>4, <2>5
<1>12. Left' = SubSeq(argv, optind, n)
  <2>1. optind \in Nat /\ optind <= optind /\ optind <= Len(argv) + 1
    BY <1>2
  <2>2. SubSeq(nargv, optind, Len(nargv)) = SubSeq(argv, optind, Len(argv))
    BY <1>1, <2>1, SameEnd
  <2> QED
    BY <1>1, <2>2 DEF Left
<1>13. z.ins = Left'
  BY <1>11, <1>12
<1>14. Remaining(z, <<>>)'
  BY <1>1, <1>3, <1>9, <1>10, <1>13, NothingTaken
<1> QED
  BY <1>14

\* "--" leaves the operands skipped and all words behind it.
LEMMA EndOfOptionsLeaves ==
  ASSUME Faithful, LineInv, OrderInv, EndOfOptions, UNCHANGED <<argv, posixly_correct>>,
         given["inputfile"] = <<>>, NEW CONSTANT r, Midway(r)
  PROVE  \E z, taken : Remaining(z, taken)'
<1> DEFINE n == Len(argv)
<1>1. /\ phase = "tagged" /\ place = <<>> /\ optind <= Len(nargv)
      /\ Word = Terminator /\ Leave(optind + 1, NonoptEnd) /\ UNCHANGED <<given, errors>>
  BY DEF EndOfOptions, BetweenWords, Tagged, Leave
<1>2. /\ n \in Nat /\ Len(nargv) = n /\ optind \in 1 .. n /\ Word = argv[optind]
      /\ WordsInv /\ argv \in Seq(WordType) /\ nargv \in Seq(WordType)
  BY <1>1, OwnWords, LineTyped DEF Word, LineInv, WordsInv
<1>3. /\ r \in Readings /\ ~r.stuck /\ ~r.ended /\ r.ins = Operands /\ Seen(r)
      /\ r = ReadTo(optind - 1) /\ r.wants = "nothing"
  BY <1>1, <1>2 DEF Midway
<1> DEFINE q == [r EXCEPT !.ended = TRUE]
<1>4. ReadTo(optind) = q
  <2> DEFINE p == optind - 1
  <2>1. p \in Nat /\ p < Len(argv) /\ p + 1 = optind
    BY <1>2
  <2>2. r = ReadTo(p)
    BY <1>3
  <2> HIDE DEF p
  <2>3. ReadTo(p + 1) = ReadWord(ReadTo(p), argv[p + 1])
    BY <1>2, <2>1, ReadToNext
  <2>4. ReadTo(optind) = ReadWord(r, Terminator)
    BY <1>1, <1>2, <2>1, <2>2, <2>3
  <2>5. Terminator \notin DOMAIN Vocabulary
    <3>1. argv[optind] \in ToSet(argv) /\ argv \in CommandLines
      BY <1>2 DEF ToSet, WordsInv
    <3> QED
      BY <1>1, <1>2, <3>1 DEF Faithful
  <2>6. ReadWord(r, Terminator) = [r EXCEPT !.ended = TRUE]
    BY <1>3, <2>5 DEF ReadWord
  <2> QED
    BY <2>4, <2>6
<1>5. /\ q \in Readings /\ q.ins = r.ins /\ ~q.stuck /\ q.wants = "nothing"
      /\ q.flags = r.flags /\ q.outs = r.outs /\ q.wrong = r.wrong /\ q.ended
  BY <1>3 DEF Readings
<1> HIDE DEF q
<1>6. TookIn(q, optind, n)
  <2>1. optind \in Nat /\ optind <= Len(argv) /\ q = ReadTo(optind)
    BY <1>2, <1>4
  <2> QED
    BY <1>2, <1>5, <2>1, OperandsTaken
<1>7. PICK z : z = Read(argv)
  OBVIOUS
<1>8. /\ z \in Readings /\ z.wants = r.wants
      /\ z.flags = r.flags /\ z.outs = r.outs /\ z.wrong = r.wrong
      /\ z.ins = r.ins \o SubSeq(argv, optind + 1, n)
  <2>1. z = ReadTo(n)
    BY <1>2, <1>7, ReadToEnd
  <2> QED
    BY <1>3, <1>5, <1>6, <2>1 DEF TookIn
<1>9. /\ SubSeq(nargv, optind + 1, Len(nargv)) = SubSeq(argv, optind + 1, n)
      /\ SubSeq(argv, optind + 1, n) \in Seq(WordType)
  <2> DEFINE k == optind + 1
  <2>1. k \in Nat /\ optind <= k /\ k <= Len(argv) + 1
    BY <1>2
  <2> HIDE DEF k
  <2>2. /\ SubSeq(nargv, k, Len(nargv)) = SubSeq(argv, k, Len(argv))
        /\ SubSeq(argv, k, Len(argv)) \in Seq(WordType)
    BY <1>1, <2>1, SameEnd
  <2> QED
    BY <2>2 DEF k
<1>10. nonopt_start = None \/ nonopt_start \in 1 .. optind - 1
  BY BlockPlaces
<1>11. /\ NonoptEnd = None => nonopt_start = None
       /\ NonoptEnd # None => Blocks(nonopt_start, NonoptEnd, optind + 1)
  <2>1. /\ nonopt_end = None
           \/ (nonopt_start # None /\ nonopt_end \in nonopt_start + 1 .. optind /\ nonopt_end \in Nat)
    BY BlockPlaces
  <2>2. NonoptEnd = None => nonopt_start = None
    BY <1>2, <2>1 DEF NonoptEnd, None
  <2>3. ASSUME NonoptEnd # None PROVE Blocks(nonopt_start, NonoptEnd, optind + 1)
    <3>1. nonopt_start \in 1 .. optind - 1
      BY <1>10, <2>1, <2>3 DEF NonoptEnd
    <3>2. NonoptEnd \in nonopt_start + 1 .. optind /\ NonoptEnd \in Nat
      <4>1. CASE nonopt_end = None
        BY <1>2, <2>3, <3>1, <4>1 DEF NonoptEnd, None
      <4>2. CASE nonopt_end # None
        BY <2>1, <4>2 DEF NonoptEnd
      <4> QED
        BY <4>1, <4>2
    <3> HIDE DEF n
    <3> QED
      BY <1>2, <3>1, <3>2 DEF Blocks
  <2> QED
    BY <2>2, <2>3
<1>12. Left' = IF NonoptEnd = None THEN SubSeq(nargv, optind + 1, Len(nargv))
               ELSE SubSeq(nargv, nonopt_start, NonoptEnd - 1)
                      \o SubSeq(nargv, optind + 1, Len(nargv))
  <2> DEFINE last == optind + 1
             end == NonoptEnd
  <2>1. /\ Leave(last, end) /\ last \in 1 .. Len(nargv) + 1
        /\ end # None => Blocks(nonopt_start, end, last)
    BY <1>1, <1>2, <1>11
  <2> HIDE DEF last, end
  <2>2. /\ Len(nargv') = Len(nargv)
        /\ SubSeq(nargv', optind', Len(nargv')) =
             IF end = None THEN SubSeq(nargv, last, Len(nargv))
             ELSE SubSeq(nargv, nonopt_start, end - 1) \o SubSeq(nargv, last, Len(nargv))
    BY <1>2, <2>1, LeaveGives
  <2> QED
    BY <2>2 DEF Left, last, end
<1>13. z.ins = Left'
  <2>1. CASE NonoptEnd = None
    <3>1. r.ins = <<>>
      BY <1>3, <1>11, <2>1 DEF Operands
    <3> DEFINE w == SubSeq(argv, optind + 1, n)
    <3>2. w \in Seq(WordType)
      BY <1>9
    <3> HIDE DEF w, WordType
    <3>3. <<>> \o w = w
      BY <3>2
    <3> QED
      BY <1>8, <1>9, <1>12, <2>1, <3>1, <3>3 DEF w
  <2>2. CASE NonoptEnd # None
    <3>1. Operands = SubSeq(nargv, nonopt_start, NonoptEnd - 1)
      <4>1. nonopt_start # None
        BY <1>10, <2>2, <1>11 DEF Blocks, None
      <4> QED
        BY <2>2, <4>1 DEF Operands, NonoptEnd
    <3> QED
      BY <1>3, <1>8, <1>9, <1>12, <2>2, <3>1
  <2> QED
    BY <2>1, <2>2
<1>14. Remaining(z, <<>>)'
  BY <1>1, <1>3, <1>7, <1>8, <1>13, NothingTaken
<1> QED
  BY <1>14

\* arg_parse_untagged hands the words left over to the input file one by one.
LEMMA RemainingNext ==
  ASSUME LineInv, UNCHANGED <<argv, posixly_correct>>, arg_parse_untagged,
         NEW CONSTANT r, NEW CONSTANT taken, Remaining(r, taken)
  PROVE  \E more : Remaining(r, more)'
<1>1. /\ optind <= Len(nargv) /\ arg_scanfn("inputfile", Word)
      /\ arg_register_error(ScanErrors("inputfile"))
      /\ optind' = optind + 1 /\ nargv' = nargv
  BY DEF arg_parse_untagged
<1>2. /\ nargv \in Seq(WordType) /\ Len(nargv) \in Nat /\ optind \in 1 .. Len(nargv)
      /\ GivenInv /\ given \in [Entries -> Seq(WordType)]
  BY <1>1 DEF LineInv, WordsInv, GivenInv
<1>3. /\ r = Read(argv) /\ r \in Readings /\ taken \in Seq(WordType)
      /\ Scanned(r) /\ r.ins = taken \o Left
      /\ given["inputfile"] = Kept(taken)
      /\ errors = 0 <=> Sound(r) /\ Len(taken) <= 3
  BY DEF Remaining
<1>4. PICK word : word = Word
  OBVIOUS
<1>5. word \in WordType /\ word = nargv[optind]
  <2> HIDE DEF WordType
  <2> QED
    BY <1>2, <1>4 DEF Word
<1>6. PICK more : more = Append(taken, word)
  OBVIOUS
<1>7. /\ more \in Seq(WordType) /\ Len(more) = Len(taken) + 1 /\ Len(taken) \in Nat
      /\ Len(Kept(taken)) < 3 <=> Len(taken) < 3
      /\ Kept(more) = IF Len(taken) < 3 THEN Append(Kept(taken), word) ELSE Kept(taken)
  <2> HIDE DEF WordType
  <2>1. more \in Seq(WordType) /\ Len(more) = Len(taken) + 1 /\ Len(taken) \in Nat
    BY <1>3, <1>5, <1>6
  <2>2. /\ Len(Kept(taken)) < 3 <=> Len(taken) < 3
        /\ Kept(Append(taken, word)) =
              IF Len(taken) < 3 THEN Append(Kept(taken), word) ELSE Kept(taken)
    BY <1>3, <1>5, KeptAppend
  <2> QED
    BY <1>6, <2>1, <2>2
<1>8. Accepts("inputfile") <=> Len(taken) < 3
  BY <1>3, <1>7 DEF Accepts, MaxCount, Files
<1>9. /\ given'["inputfile"] = Kept(more)
      /\ \A x \in Entries : x # "inputfile" => given'[x] = given[x]
  <2>1. given' = [given EXCEPT !["inputfile"] = IF Accepts("inputfile")
                                               THEN Append(@, word) ELSE @]
    BY <1>1, <1>4 DEF arg_scanfn
  <2>2. "inputfile" \in Entries
    BY DEF Entries, Files
  <2> QED
    BY <1>2, <1>3, <1>7, <1>8, <2>1, <2>2
<1>10. errors' = 0 <=> Sound(r) /\ Len(more) <= 3
  <2>1. ScanErrors("inputfile") = IF Len(taken) < 3 THEN 0 ELSE 1
    BY <1>8 DEF ScanErrors
  <2>2. ScanErrors("inputfile") \in Nat /\ (ScanErrors("inputfile") = 0 <=> Len(taken) < 3)
    BY <2>1
  <2>3. errors' = 0 <=> errors = 0 /\ Len(taken) < 3
    BY <1>1, <1>2, <2>2, RegistersNone
  <2>4. Len(more) <= 3 <=> Len(taken) < 3
    BY <1>7
  <2> QED
    BY <1>3, <1>7, <2>3, <2>4
<1>11. Scanned(r)'
  <2>1. \A f \in Flags : f \in Entries /\ f # "inputfile"
    BY DEF Flags, Entries
  <2>2. "outputfile" \in Entries
    BY DEF Entries, Files
  <2> QED
    BY <1>3, <1>9, <2>1, <2>2 DEF Scanned
<1>12. r = Read(argv)'
  <2>1. PICK line : line = argv
    OBVIOUS
  <2>2. Read(line)' = Read(line)
    BY ReadStays
  <2> QED
    BY <1>3, <2>1, <2>2
<1>13. r.ins = more \o Left'
  <2> DEFINE n == Len(nargv)
             v == SubSeq(nargv, optind + 1, n)
             u == SubSeq(nargv, optind, n)
  <2>1. v \in Seq(WordType) /\ u = <<word>> \o v
    <3> HIDE DEF WordType
    <3>1. v \in Seq(WordType) /\ Len(v) = n - optind /\ \A i \in 1 .. n - optind : v[i] = nargv[optind + i]
      BY <1>2
    <3>2. u \in Seq(WordType) /\ Len(u) = n - optind + 1
          /\ \A i \in 1 .. n - optind + 1 : u[i] = nargv[optind + i - 1]
      BY <1>2
    <3> DEFINE w == <<word>> \o v
    <3>3. n \in Nat /\ optind \in 1 .. n
      BY <1>2
    <3> HIDE DEF u, v, n
    <3>4. /\ w \in Seq(WordType) /\ Len(w) = n - optind + 1 /\ w[1] = word
          /\ \A i \in 2 .. n - optind + 1 : w[i] = v[i - 1]
      <4> DEFINE x == <<word>>
      <4>1. x \in Seq(WordType) /\ Len(x) = 1 /\ x[1] = word
        BY <1>5
      <4> HIDE DEF x
      <4>2. /\ x \o v \in Seq(WordType) /\ Len(x \o v) = Len(x) + Len(v)
            /\ \A i \in 1 .. Len(x) : (x \o v)[i] = x[i]
            /\ \A i \in Len(x) + 1 .. Len(x) + Len(v) : (x \o v)[i] = v[i - Len(x)]
        BY <3>1, <4>1, JoinIs
      <4>3. w = x \o v
        BY DEF x
      <4> HIDE DEF w
      <4> QED
        BY <3>1, <3>3, <4>1, <4>2, <4>3
    <3> HIDE DEF w
    <3>5. \A i \in 1 .. n - optind + 1 : w[i] = u[i]
      <4> SUFFICES ASSUME NEW i \in 1 .. n - optind + 1 PROVE w[i] = u[i]
        OBVIOUS
      <4>1. CASE i = 1
        BY <1>5, <3>2, <3>3, <3>4, <4>1
      <4>2. CASE i # 1
        <5>1. i \in 2 .. n - optind + 1 /\ i - 1 \in 1 .. n - optind
              /\ optind + (i - 1) = optind + i - 1
          BY <3>3, <4>2
        <5> QED
          BY <3>1, <3>2, <3>4, <5>1
      <4> QED
        BY <4>1, <4>2
    <3>6. w = u
      BY <3>2, <3>4, <3>5, SameParts
    <3> QED
      BY <3>1, <3>6 DEF w
  <2>2. Left = u /\ Left' = v
    BY <1>1 DEF Left
  <2> HIDE DEF u, v, WordType
  <2>3. taken \o (<<word>> \o v) = Append(taken, word) \o v
    BY <1>3, <1>5, <2>1
  <2> QED
    BY <1>3, <1>6, <2>1, <2>2, <2>3
<1> QED
  BY <1>3, <1>7, <1>9, <1>10, <1>11, <1>12, <1>13 DEF Remaining

-----------------------------------------------------------------------------
(* The verdict.                                                            *)

\* All of the line r has been scanned, and what was wrong with it counted.
Decided(r) ==
    /\ r = Read(argv) /\ r \in Readings
    /\ Scanned(r)
    /\ given["inputfile"] = Kept(r.ins)
    /\ errors = 0 <=> Sound(r) /\ Len(r.ins) \in 1 .. 3 /\ r.outs # <<>>

ParsedInv ==
    phase = "parsed" =>
        \E r : /\ Decided(r)
               /\ status = "success" => Asks(r)
               /\ status = "failure" => Faulty(r) /\ ~Asks(r)

\* The program goes on with the files of a line without fault.
Obeys(r) ==
    /\ r = Read(argv) /\ ~Faulty(r) /\ ~Asks(r)
    /\ given["inputfile"] = r.ins /\ given["outputfile"] = r.outs
GoneInv == phase \notin CommandPhases => \E r : Obeys(r)

\* What an entry keeps has as many names as there are, up to three.
LEMMA KeptMany ==
  ASSUME NEW S, NEW names \in Seq(S)
  PROVE  /\ Len(names) \in Nat /\ Len(Kept(names)) \in Nat
         /\ Len(Kept(names)) = IF Len(names) < 3 THEN Len(names) ELSE 3
         /\ names = <<>> <=> Len(names) = 0
         /\ Len(names) <= 3 => Kept(names) = names
<1>1. Len(names) \in Nat /\ (names = <<>> <=> Len(names) = 0)
  OBVIOUS
<1>2. CASE Len(names) < 3
  <2>1. Kept(names) = names
    BY <1>2 DEF Kept
  <2> QED
    BY <1>1, <1>2, <2>1
<1>3. CASE ~(Len(names) < 3)
  <2>1. Kept(names) = SubSeq(names, 1, 3)
    BY <1>3 DEF Kept
  <2>2. Len(SubSeq(names, 1, 3)) = 3
    BY <1>1, <1>3
  <2>3. Len(names) = 3 => SubSeq(names, 1, 3) = names
    OBVIOUS
  <2> QED
    BY <1>1, <1>3, <2>1, <2>2, <2>3
<1> QED
  BY <1>2, <1>3

\* The names in a reading.
LEMMA ReadingNames ==
  ASSUME NEW r \in Readings
  PROVE  r.ins \in Seq(WordType) /\ r.outs \in Seq(WordType)
  BY DEF Readings

\* The entries that lack a value.
LEMMA MissingNone ==
  ASSUME NEW r \in Readings, Scanned(r), given["inputfile"] = Kept(r.ins)
  PROVE  /\ Cardinality(Missing) \in Nat
         /\ Cardinality(Missing) = 0 <=> r.ins # <<>> /\ r.outs # <<>>
<1>1. /\ Len(Kept(r.ins)) \in Nat /\ (r.ins = <<>> <=> Len(Kept(r.ins)) = 0)
      /\ Len(Kept(r.outs)) \in Nat /\ (r.outs = <<>> <=> Len(Kept(r.outs)) = 0)
  <2>1. r.ins \in Seq(WordType) /\ r.outs \in Seq(WordType)
    BY ReadingNames
  <2> HIDE DEF WordType
  <2> DEFINE i == r.ins
             o == r.outs
  <2> HIDE DEF i, o
  <2>2. i \in Seq(WordType) /\ o \in Seq(WordType)
    BY <2>1 DEF i, o
  <2>3. Len(Kept(i)) \in Nat /\ (i = <<>> <=> Len(Kept(i)) = 0)
    <3>1. /\ Len(i) \in Nat /\ Len(Kept(i)) \in Nat
          /\ Len(Kept(i)) = IF Len(i) < 3 THEN Len(i) ELSE 3
          /\ i = <<>> <=> Len(i) = 0
      BY <2>2, KeptMany
    <3> QED
      BY <3>1
  <2>4. Len(Kept(o)) \in Nat /\ (o = <<>> <=> Len(Kept(o)) = 0)
    <3>1. /\ Len(o) \in Nat /\ Len(Kept(o)) \in Nat
          /\ Len(Kept(o)) = IF Len(o) < 3 THEN Len(o) ELSE 3
          /\ o = <<>> <=> Len(o) = 0
      BY <2>2, KeptMany
    <3> QED
      BY <3>1
  <2> QED
    BY <2>3, <2>4 DEF i, o
<1>2. \A f \in Flags : Len(given[f]) \in Nat
  <2>1. Len(<<>>) = 0 /\ Len(<<<<>>>>) = 1
    OBVIOUS
  <2> QED
    BY <2>1 DEF Scanned
<1>3. Missing \subseteq Files
  <2> SUFFICES ASSUME NEW entry \in Missing, entry \notin Files PROVE FALSE
    OBVIOUS
  <2>1. entry \in Flags /\ Len(given[entry]) < 0
    BY DEF Missing, MinCount, Entries
  <2> QED
    BY <1>2, <2>1
<1>4. IsFiniteSet(Missing)
  <2>1. Files = ({} \cup {"inputfile"}) \cup {"outputfile"}
    BY DEF Files
  <2>2. IsFiniteSet(Files)
    BY <2>1, FS_EmptySet, FS_AddElement
  <2> QED
    BY <1>3, <2>2, FS_Subset
<1>5. Cardinality(Missing) \in Nat /\ (Cardinality(Missing) = 0 <=> Missing = {})
  BY <1>4, FS_CardinalityType, FS_EmptySet
<1>6. "inputfile" \in Missing <=> r.ins = <<>>
  <2>1. "inputfile" \in Files /\ "inputfile" \in Entries
    BY DEF Files, Entries
  <2>2. "inputfile" \in Missing <=> Len(Kept(r.ins)) < 1
    BY <2>1 DEF Missing, MinCount
  <2> QED
    BY <1>1, <2>2
<1>7. "outputfile" \in Missing <=> r.outs = <<>>
  <2>1. "outputfile" \in Files /\ "outputfile" \in Entries
    BY DEF Files, Entries
  <2>2. "outputfile" \in Missing <=> Len(Kept(r.outs)) < 1
    BY <2>1 DEF Missing, MinCount, Scanned
  <2> QED
    BY <1>1, <2>2
<1>8. Missing = {} <=> r.ins # <<>> /\ r.outs # <<>>
  BY <1>3, <1>6, <1>7 DEF Files
<1> QED
  BY <1>5, <1>8

\* The reading of the line depends on nothing but the line.
LEMMA ReadUnchanged ==
  ASSUME UNCHANGED <<argv, posixly_correct>>
  PROVE  Read(argv)' = Read(argv)
<1>1. PICK line : line = argv
  OBVIOUS
<1>2. Read(line)' = Read(line)
  BY ReadStays
<1> QED
  BY <1>1, <1>2

\* The check for missing values ends the scanning.
LEMMA CheckDecides ==
  ASSUME LineInv, UNCHANGED <<argv, posixly_correct>>, arg_parse_check,
         NEW CONSTANT r, NEW CONSTANT taken, Remaining(r, taken)
  PROVE  Decided(r)'
<1>1. /\ optind > Len(nargv) /\ UNCHANGED <<given, nargv>>
      /\ IF errors = 0 THEN arg_register_error(Cardinality(Missing)) ELSE UNCHANGED errors
  BY DEF arg_parse_check, getoptVars
<1>2. /\ nargv \in Seq(WordType) /\ Len(nargv) \in Nat /\ optind \in Nat \ {0} /\ GivenInv
  BY <1>1 DEF LineInv, WordsInv
<1>3. Left = <<>>
  <2>1. SubSeq(nargv, optind, Len(nargv)) = <<>>
    <3> HIDE DEF WordType
    <3> QED
      BY <1>1, <1>2
  <2> QED
    BY <2>1 DEF Left
<1>4. /\ r = Read(argv) /\ r \in Readings /\ taken \in Seq(WordType)
      /\ Scanned(r) /\ r.ins = taken \o Left
      /\ given["inputfile"] = Kept(taken)
      /\ errors = 0 <=> Sound(r) /\ Len(taken) <= 3
  BY DEF Remaining
<1>5. r.ins = taken
  <2>1. taken \o <<>> = taken
    <3> HIDE DEF WordType
    <3> QED
      BY <1>4
  <2> QED
    BY <1>3, <1>4, <2>1
<1>6. /\ Cardinality(Missing) \in Nat
      /\ Cardinality(Missing) = 0 <=> r.ins # <<>> /\ r.outs # <<>>
  BY <1>4, <1>5, MissingNone
<1>7. Len(taken) \in Nat /\ (taken = <<>> <=> Len(taken) = 0)
  <2> HIDE DEF WordType
  <2> QED
    BY <1>4
<1>8. errors' = 0 <=> errors = 0 /\ Cardinality(Missing) = 0
  <2>1. CASE errors = 0
    BY <1>1, <1>2, <1>6, <2>1, RegistersNone
  <2>2. CASE errors # 0
    BY <1>1, <2>2
  <2> QED
    BY <2>1, <2>2
<1>9. errors' = 0 <=> Sound(r) /\ Len(r.ins) \in 1 .. 3 /\ r.outs # <<>>
  <2>1. Len(r.ins) \in 1 .. 3 <=> Len(taken) <= 3 /\ taken # <<>>
    <3> DEFINE m == Len(taken)
    <3>1. m \in Nat /\ (taken = <<>> <=> m = 0) /\ Len(r.ins) = m
      BY <1>5, <1>7
    <3> HIDE DEF m
    <3>2. m \in 1 .. 3 <=> m <= 3 /\ m # 0
      BY <3>1
    <3>3. Len(r.ins) \in 1 .. 3 <=> m \in 1 .. 3
      BY <3>1
    <3>4. m <= 3 <=> Len(taken) <= 3
      BY DEF m
    <3> QED
      BY <3>1, <3>2, <3>3, <3>4
  <2> QED
    BY <1>4, <1>5, <1>6, <1>8, <2>1
<1>10. Scanned(r)' /\ given'["inputfile"] = Kept(r.ins) /\ r = Read(argv)'
  BY <1>1, <1>4, <1>5, ReadUnchanged DEF Scanned
<1> QED
  BY <1>4, <1>9, <1>10 DEF Decided

\* The program answers --help and --version, and else goes on or fails as the
\* line has it.
Verdict(r) ==
    /\ given["help"] # <<>> \/ given["version"] # <<>> <=> Asks(r)
    /\ errors + (IF \E f \in Files : Len(given[f]) > 1 THEN 1 ELSE 0) > 0 <=> Faulty(r)
    /\ ~Faulty(r) => given["inputfile"] = r.ins /\ given["outputfile"] = r.outs

\* What has been scanned and counted gives the verdict.
LEMMA DecidedGives ==
  ASSUME GivenInv, NEW r, Decided(r)
  PROVE  Verdict(r)
<1>1. /\ r \in Readings /\ Scanned(r) /\ given["inputfile"] = Kept(r.ins)
      /\ errors = 0 <=> Sound(r) /\ Len(r.ins) \in 1 .. 3 /\ r.outs # <<>>
      /\ given["outputfile"] = Kept(r.outs) /\ errors \in Nat
  BY DEF Decided, Scanned, GivenInv
<1>2. \A f \in {"help", "version"} : given[f] # <<>> <=> f \in ToSet(r.flags)
  <2>1. <<<<>>>> # <<>>
    OBVIOUS
  <2>2. \A f \in {"help", "version"} : f \in Flags
    BY DEF Flags
  <2> QED
    BY <1>1, <2>1, <2>2 DEF Scanned
<1>3. Asks(r) <=> "help" \in ToSet(r.flags) \/ "version" \in ToSet(r.flags)
  BY DEF Asks, ToSet
<1> DEFINE i == r.ins
           o == r.outs
           bad == r.wrong \/ r.wants # "nothing" \/ Repeats(r)
<1>4. i \in Seq(WordType) /\ o \in Seq(WordType)
  BY <1>1, ReadingNames
<1>0. given["inputfile"] = Kept(i) /\ given["outputfile"] = Kept(o)
  BY <1>1
<1> HIDE DEF i, o, bad
<1>5. /\ Len(i) \in Nat /\ Len(Kept(i)) = (IF Len(i) < 3 THEN Len(i) ELSE 3)
      /\ Len(i) <= 3 => Kept(i) = i
  <2> HIDE DEF WordType
  <2> QED
    BY <1>4, KeptMany
<1>6. /\ Len(o) \in Nat /\ Len(Kept(o)) = (IF Len(o) < 3 THEN Len(o) ELSE 3)
      /\ Len(o) <= 3 => Kept(o) = o /\ (o = <<>> <=> Len(o) = 0)
      /\ o = <<>> <=> Len(o) = 0
  <2> HIDE DEF WordType
  <2> QED
    BY <1>4, KeptMany
<1>7. (\E f \in Files : Len(given[f]) > 1) <=> Len(i) > 1 \/ Len(o) > 1
  <2>1. Len(given["inputfile"]) > 1 <=> Len(i) > 1
    BY <1>1, <1>5 DEF i
  <2>2. Len(given["outputfile"]) > 1 <=> Len(o) > 1
    BY <1>1, <1>6 DEF o
  <2> QED
    BY <2>1, <2>2 DEF Files
<1> DEFINE m == Len(i)
           n == Len(o)
<1>8. /\ m \in Nat /\ n \in Nat /\ (o = <<>> <=> n = 0)
      /\ m <= 3 => Kept(i) = i
      /\ n <= 3 => Kept(o) = o
      /\ errors = 0 <=> Sound(r) /\ m \in 1 .. 3 /\ o # <<>>
      /\ Sound(r) <=> ~bad /\ n <= 3
      /\ Faulty(r) <=> bad \/ m # 1 \/ n # 1
      /\ (\E f \in Files : Len(given[f]) > 1) <=> m > 1 \/ n > 1
  <2>1. /\ m \in Nat /\ n \in Nat /\ (o = <<>> <=> n = 0)
        /\ m <= 3 => Kept(i) = i
        /\ n <= 3 => Kept(o) = o
    BY <1>5, <1>6
  <2>2. errors = 0 <=> Sound(r) /\ m \in 1 .. 3 /\ o # <<>>
    BY <1>1 DEF i, o
  <2>3. Sound(r) <=> ~bad /\ n <= 3
    BY DEF Sound, o, bad
  <2>4. Faulty(r) <=> bad \/ m # 1 \/ n # 1
    BY DEF Faulty, i, o, bad
  <2>5. (\E f \in Files : Len(given[f]) > 1) <=> m > 1 \/ n > 1
    BY <1>7
  <2> QED
    BY <2>1, <2>2, <2>3, <2>4, <2>5
<1> HIDE DEF m, n
<1>9. ~Faulty(r) => given["inputfile"] = i /\ given["outputfile"] = o
  BY <1>0, <1>8
<1>10. errors + (IF \E f \in Files : Len(given[f]) > 1 THEN 1 ELSE 0) > 0 <=> Faulty(r)
  <2>1. Faulty(r) <=> errors # 0 \/ m > 1 \/ n > 1
    BY <1>8
  <2> QED
    BY <1>1, <1>8, <2>1
<1> QED
  BY <1>2, <1>3, <1>9, <1>10 DEF Verdict, i, o

-----------------------------------------------------------------------------
(* What a word means.                                                      *)

\* A long option consists of items.
LEMMA LongItemsTyped ==
  ASSUME NEW long \in WordType
  PROVE  LongItems(long) \in Seq(Items)
<1> DEFINE matches == LongMatches(NameOf(long))
           entry == LongOption[CHOOSE n \in matches : TRUE]
<1>1. LongItems(long) =
        IF Cardinality(matches) # 1 \/ (entry \notin Files /\ HasValue(long))
        THEN <<Mistake>>
        ELSE IF entry \notin Files THEN <<Flag(entry)>>
        ELSE IF ~HasValue(long) THEN <<ToNextWord("long")>>
        ELSE IF ValueOf(long) = <<>> THEN <<ToFile(<<>>), Mistake>>
        ELSE <<ToFile(ValueOf(long))>>
  BY DEF LongItems
<1>2. Cardinality(matches) = 1 =>
        entry \in Flags \cup {"outputfile"} /\ (entry \in Files <=> entry = "outputfile")
  BY LongEntryKind
<1>3. HasValue(long) => ValueOf(long) \in WordType
  BY ValueTyped
<1>4. Mistake \in Items /\ ToNextWord("long") \in Items
  BY DEF Items
<1>5. <<>> \in WordType
  BY DEF WordType
<1>6. \A name \in WordType : ToFile(name) \in Items
  BY DEF Items
<1>7. \A f \in Flags : Flag(f) \in Items
  BY DEF Items
<1> HIDE DEF matches, entry, Items, WordType
<1>8. CASE Cardinality(matches) # 1 \/ (entry \notin Files /\ HasValue(long))
  BY <1>1, <1>4, <1>8
<1>9. CASE Cardinality(matches) = 1 /\ entry \notin Files /\ ~HasValue(long)
  <2>1. Flag(entry) \in Items
    BY <1>2, <1>7, <1>9 DEF Flags, Files
  <2> QED
    BY <1>1, <1>9, <2>1
<1>10. CASE Cardinality(matches) = 1 /\ entry \in Files /\ ~HasValue(long)
  BY <1>1, <1>4, <1>10
<1>11. CASE Cardinality(matches) = 1 /\ entry \in Files /\ HasValue(long)
  BY <1>1, <1>3, <1>4, <1>5, <1>6, <1>11
<1> QED
  BY <1>8, <1>9, <1>10, <1>11

\* The letters of a word consist of items.
LEMMA MeaningTyped ==
  ASSUME NEW letters \in WordType, Tail(letters) \in WordType, NEW rest \in Seq(Items)
  PROVE  MeaningOf(letters, rest) \in Seq(Items)
<1>1. LoneDash \in Items /\ Mistake \in Items /\ ToNextWord("short") \in Items
  BY DEF Items
<1>2. ToFile(Tail(letters)) \in Items
  BY DEF Items
<1>3. \A f \in Flags : Flag(f) \in Items
  BY DEF Items
<1>4. LongItems(Tail(letters)) \in Seq(Items)
  BY LongItemsTyped
<1> HIDE DEF Items
<1>5. \A x \in Items : <<x>> \in Seq(Items) /\ <<x>> \o rest \in Seq(Items)
  <2> SUFFICES ASSUME NEW x \in Items
               PROVE  <<x>> \in Seq(Items) /\ <<x>> \o rest \in Seq(Items)
    OBVIOUS
  <2> DEFINE y == <<x>>
  <2>1. y \in Seq(Items)
    OBVIOUS
  <2> HIDE DEF y
  <2>2. y \o rest \in Seq(Items)
    BY <2>1
  <2> QED
    BY <2>1, <2>2 DEF y
<1> QED
  BY <1>1, <1>2, <1>3, <1>4, <1>5 DEF MeaningOf

\* The items of a word, for every number of its letters.
LEMMA WordExplained ==
  ASSUME NEW word \in WordType, IsOption(word), Vocabulary[word] = Meaning(word)
  PROVE  \E means : Explains(word, means)
<1> DEFINE N == Len(word) - 1
           Body(means) ==
             [n \in 0 .. N |-> IF n = 0 THEN <<>> ELSE MeaningOf(Letters(word, n), means[n - 1])]
           P == CHOOSE means : means = Body(means)
<1>1. Meaning(word) = P[N]
  BY DEF Meaning
<1>2. N \in Nat /\ Len(word) \in Nat
  BY DEF IsOption, WordType
<1>3. \A n \in 1 .. N : n \in 1 .. Len(word)
  BY <1>2
<1>4. \A n \in 1 .. N : Letters(word, n) \in WordType /\ Tail(Letters(word, n)) \in WordType
  <2> SUFFICES ASSUME NEW n \in 1 .. N
               PROVE  Letters(word, n) \in WordType /\ Tail(Letters(word, n)) \in WordType
    OBVIOUS
  <2>1. n \in 1 .. Len(word)
    BY <1>3
  <2>2. Letters(word, n) \in WordType /\ Len(Letters(word, n)) = n
    BY <2>1, LettersOf
  <2>3. n > 0
    OBVIOUS
  <2> QED
    BY <2>2, <2>3 DEF WordType
<1> HIDE DEF N
<1>5. P = Body(P)
  <2> DEFINE F == [n \in 1 .. N |->
                     [rest \in Seq(Items) |-> MeaningOf(Letters(word, n), rest)]]
  <2>1. F \in [1 .. N -> [Seq(Items) -> Seq(Items)]]
    BY <1>4, MeaningTyped
  <2>2. \A n \in 1 .. N, rest \in Seq(Items) : F[n][rest] = MeaningOf(Letters(word, n), rest)
    OBVIOUS
  <2>3. <<>> \in Seq(Items)
    OBVIOUS
  <2> HIDE DEF F
  <2>4. PICK f : IsRun(f, N, Seq(Items), <<>>, F)
    BY <1>2, <2>1, <2>3, LoopRuns
  <2>5. \A n \in 0 .. N : n # 0 => n \in 1 .. N /\ f[n - 1] \in Seq(Items)
    BY <1>2, <2>4 DEF IsRun
  <2>6. \A n \in 0 .. N : f[n] = IF n = 0 THEN <<>> ELSE MeaningOf(Letters(word, n), f[n - 1])
    BY <2>2, <2>4, <2>5 DEF IsRun
  <2>7. f = Body(f)
    BY <2>4, <2>6 DEF IsRun
  <2> HIDE DEF Body
  <2> QED
    BY <2>7
<1> HIDE DEF P
<1>6. /\ P[0] = <<>>
      /\ \A n \in 1 .. N : P[n] = MeaningOf(Letters(word, n), P[n - 1])
      /\ DOMAIN P = 0 .. N /\ P = [n \in 0 .. N |-> P[n]]
  <2>1. \A n \in 0 .. N : P[n] = Body(P)[n]
    BY <1>5
  <2>2. P[0] = <<>>
    BY <1>2, <2>1
  <2>3. \A n \in 1 .. N : P[n] = MeaningOf(Letters(word, n), P[n - 1])
    BY <1>2, <2>1
  <2>4. DOMAIN P = 0 .. N /\ P = [n \in 0 .. N |-> P[n]]
    BY <1>5
  <2> QED
    BY <2>2, <2>3, <2>4
<1> HIDE DEF Body
<1>7. \A n \in 0 .. N : P[n] \in Seq(Items)
  <2> DEFINE with == {n \in Nat : n <= N => P[n] \in Seq(Items)}
  <2>1. 0 \in with
    <3>1. <<>> \in Seq(Items)
      OBVIOUS
    <3> QED
      BY <1>6, <3>1, Zenon
  <2>2. ASSUME NEW n \in with PROVE n + 1 \in with
    <3>1. n \in Nat /\ n + 1 \in Nat /\ (n + 1) - 1 = n
      OBVIOUS
    <3>2. ASSUME n + 1 <= N PROVE P[n + 1] \in Seq(Items)
      <4>1. n <= N /\ n + 1 \in 1 .. N
        BY <1>2, <3>1, <3>2
      <4>2. P[n] \in Seq(Items)
        BY <2>2, <4>1
      <4>3. P[n + 1] = MeaningOf(Letters(word, n + 1), P[n])
        BY <1>6, <3>1, <4>1
      <4> QED
        BY <1>4, <4>1, <4>2, <4>3, MeaningTyped
    <3> QED
      BY <3>1, <3>2
  <2>3. with \in SUBSET Nat
    OBVIOUS
  <2> HIDE DEF with
  <2>4. with = Nat
    BY <2>1, <2>2, <2>3, Inductive
  <2> QED
    BY <1>2, <2>4 DEF with
<1>8. P \in [0 .. N -> Seq(Items)]
  BY <1>6, <1>7
<1>9. Explains(word, P)
  BY <1>1, <1>6, <1>8 DEF Explains, N
<1> QED
  BY <1>9

\* The assumption on the vocabulary, letter by letter.
LEMMA VocabularyFaithful == Faithful
<1> SUFFICES ASSUME NEW line \in CommandLines, NEW word \in ToSet(line)
             PROVE  /\ word \in DOMAIN Vocabulary <=> IsOption(word) /\ word # Terminator
                    /\ word \in DOMAIN Vocabulary => \E means : Explains(word, means)
  BY DEF Faithful
<1>1. /\ word \in DOMAIN Vocabulary <=> IsOption(word) /\ word # Terminator
      /\ word \in DOMAIN Vocabulary => Vocabulary[word] = Meaning(word)
  BY VocabularyAssumption
<1>2. word \in WordType
  <2>1. line \in Seq(WordType)
    BY LineTyped
  <2> HIDE DEF WordType
  <2> QED
    BY <2>1 DEF ToSet
<1> QED
  BY <1>1, <1>2, WordExplained

-----------------------------------------------------------------------------
(* The reading of the line, from the first word to the verdict.            *)

ReadingInv == TaggedInv /\ UntaggedInv /\ ParsedInv /\ GoneInv

\* At the start nothing has been read.
LEMMA ReadingInit == Init => ReadingInv
<1> SUFFICES ASSUME Init PROVE ReadingInv
  OBVIOUS
<1>1. /\ phase = "tagged" /\ argv \in CommandLines /\ nargv = argv /\ optind = 1
      /\ place = <<>> /\ nonopt_start = None
      /\ given = [entry \in Entries |-> <<>>] /\ errors = 0
  BY DEF Init, CommandInit
<1>2. WordsInv
  BY LineInit DEF LineInv
<1>3. Unread = ReadTo(optind - 1)
  <2>1. optind - 1 = 0
    BY <1>1
  <2> QED
    BY <1>2, <2>1, ReadToStart
<1>4. /\ Unread \in Readings /\ ~Unread.stuck /\ ~Unread.ended /\ Unread.ins = <<>>
      /\ Unread.wants = "nothing" /\ Unread.flags = <<>> /\ Unread.outs = <<>>
      /\ ~Unread.wrong
  BY UnreadTyped DEF Unread
<1>5. ToSet(<<>>) = {} /\ Len(<<>>) = 0 /\ Kept(<<>>) = <<>>
  BY DEF ToSet, Kept
<1>6. Cardinality(ToSet(<<>>)) = 0
  BY <1>5, FS_EmptySet
<1>7. Scanned(Unread)
  <2>1. \A f \in Flags : given[f] = <<>>
    BY <1>1 DEF Flags, Entries
  <2>2. given["outputfile"] = <<>>
    BY <1>1 DEF Files, Entries
  <2> QED
    BY <1>4, <1>5, <1>6, <2>1, <2>2 DEF Scanned
<1>8. Sound(Unread)
  BY <1>4, <1>5, <1>6 DEF Sound, Repeats
<1>9. Operands = <<>>
  BY <1>1 DEF Operands
<1>10. Midway(Unread)
  BY <1>1, <1>3, <1>4, <1>7, <1>8, <1>9 DEF Midway, Seen
<1>11. given["inputfile"] = <<>>
  BY <1>1 DEF Files, Entries
<1> QED
  BY <1>1, <1>10, <1>11 DEF ReadingInv, TaggedInv, UntaggedInv, ParsedInv, GoneInv,
     CommandPhases

\* An answer of getopt.
LEMMA TaggedNext ==
  ASSUME Faithful, LineInv, OrderInv, TaggedInv, phase = "tagged",
         UNCHANGED <<argv, posixly_correct>>, getopt_internal
  PROVE  \/ phase' = "tagged" /\ TaggedInv'
         \/ phase' = "untagged" /\ UntaggedInv'
<1>1. given["inputfile"] = <<>> /\ (Stuck \/ \E r : Midway(r))
  BY DEF TaggedInv
<1>2. CASE Stuck
  <2>1. Stuck' /\ phase' = "tagged" /\ given'["inputfile"] = given["inputfile"]
    BY <1>2, StuckNext
  <2> QED
    BY <1>1, <2>1 DEF TaggedInv
<1>3. CASE \E r : Midway(r)
  <2>1. PICK r : Midway(r)
    BY <1>3
  <2>2. CASE EndOfWords \/ FirstOperand \/ EndOfOptions
    <3>1. \E z, taken : Remaining(z, taken)'
      BY <1>1, <2>1, <2>2, EndOfWordsLeaves, FirstOperandLeaves, EndOfOptionsLeaves
    <3>2. phase' = "untagged"
      BY <2>2 DEF EndOfWords, FirstOperand, EndOfOptions, Leave
    <3> QED
      BY <3>1, <3>2 DEF UntaggedInv
  <2>3. CASE SkipOperand
    <3>1. given'["inputfile"] = given["inputfile"] /\ \E q : Midway(q)'
      BY <2>1, <2>3, SkipMidway
    <3>2. phase' = phase
      BY <2>3 DEF SkipOperand
    <3> QED
      BY <1>1, <3>1, <3>2 DEF TaggedInv
  <2>4. CASE NamelessOption
    <3>1. Stuck' /\ given'["inputfile"] = given["inputfile"]
      BY <2>1, <2>4, NamelessStuck
    <3>2. phase' = phase
      BY <2>4 DEF NamelessOption, Reading
    <3> QED
      BY <1>1, <3>1, <3>2 DEF TaggedInv
  <2>5. CASE \/ BadLongOption \/ LongOptionLacksValue
             \/ parse_long_options \/ UnknownLetter \/ FlagLetter
             \/ LetterLacksValue \/ ValueLetter
    <3>1. given'["inputfile"] = given["inputfile"] /\ \E q : Midway(q)'
      BY <2>1, <2>5, AnswerOnwards
    <3>2. phase' = phase
      BY <2>5 DEF BadLongOption, LongOptionLacksValue, parse_long_options,
         UnknownLetter, FlagLetter, LetterLacksValue, ValueLetter, ReadingLong,
         ReadingShort, Reading
    <3> QED
      BY <1>1, <3>1, <3>2 DEF TaggedInv
  <2> QED
    BY <2>2, <2>3, <2>4, <2>5 DEF getopt_internal
<1> QED
  BY <1>1, <1>2, <1>3

\* A step that leaves the command line and what is known of it alone.
LEMMA ReadingStays ==
  ASSUME ReadingInv, UNCHANGED <<status, commandVars>>
  PROVE  ReadingInv'
<1>1. UNCHANGED <<status, phase, posixly_correct, argv, nargv, optind, place,
                  nonopt_start, nonopt_end, given, errors>>
  BY DEF commandVars, getoptVars
<1>2. Read(argv)' = Read(argv)
  BY <1>1, ReadUnchanged
<1>3. ASSUME NEW CONSTANT r, Seen(r) PROVE Seen(r)'
  BY <1>1, <1>3 DEF Seen, Scanned
<1>4. TaggedInv'
  <2>1. Stuck => Stuck'
    <3> SUFFICES ASSUME Stuck PROVE Stuck'
      OBVIOUS
    <3>1. PICK letters : letters = place
      OBVIOUS
    <3>2. Sticks(letters)
      BY <3>1 DEF Stuck
    <3>3. Sticks(letters)'
      BY <1>1, <3>2, SticksStays
    <3>4. Sticks(place)'
      BY <1>1, <3>1, <3>3
    <3> QED
      BY <1>1, <3>4 DEF Stuck
  <2>2. ASSUME NEW CONSTANT r, Midway(r) PROVE Midway(r)'
    <3>1. /\ r \in Readings /\ ~r.stuck /\ ~r.ended /\ r.ins = Operands'
          /\ Seen(r)'
      BY <1>1, <1>3, <2>2 DEF Midway, Operands
    <3>2. CASE place = <<>>
      <4>1. r = ReadTo(optind - 1) /\ (r.wants # "nothing" => optind = Len(argv) + 1)
        BY <2>2, <3>2 DEF Midway
      <4>2. PICK p : p = optind - 1
        OBVIOUS
      <4>3. ReadTo(p)' = ReadTo(p)
        BY <1>1, ReadToStays
      <4>4. r = ReadTo(optind - 1)' /\ (r.wants # "nothing" => optind' = Len(argv') + 1)
        BY <1>1, <4>1, <4>2, <4>3
      <4> QED
        BY <1>1, <3>1, <3>2, <4>4 DEF Midway
    <3>3. CASE place # <<>>
      <4>1. Amid(r, place) /\ r.wants = "nothing"
        BY <2>2, <3>3 DEF Midway
      <4>2. PICK letters : letters = place
        OBVIOUS
      <4>3. Amid(r, letters)'
        BY <1>1, <4>1, <4>2, AmidStays
      <4>4. Amid(r, place)'
        BY <1>1, <4>2, <4>3
      <4> QED
        BY <1>1, <3>1, <3>3, <4>1, <4>4 DEF Midway
    <3> QED
      BY <3>2, <3>3
  <2>3. (\E r : Midway(r)) => \E r : Midway(r)'
    BY <2>2
  <2> QED
    BY <1>1, <2>1, <2>3 DEF ReadingInv, TaggedInv
<1>5. UntaggedInv'
  <2>1. ASSUME NEW CONSTANT r, NEW CONSTANT taken, Remaining(r, taken)
        PROVE  Remaining(r, taken)'
    <3>1. r = Read(argv)'
      BY <1>2, <2>1 DEF Remaining
    <3> QED
      BY <1>1, <2>1, <3>1 DEF Remaining, Scanned, Left
  <2> QED
    BY <1>1, <2>1 DEF ReadingInv, UntaggedInv
<1>6. ParsedInv'
  <2>1. ASSUME NEW CONSTANT r, Decided(r) PROVE Decided(r)'
    <3>1. r = Read(argv)'
      BY <1>2, <2>1 DEF Decided
    <3> QED
      BY <1>1, <2>1, <3>1 DEF Decided, Scanned
  <2> QED
    BY <1>1, <2>1 DEF ReadingInv, ParsedInv
<1>7. GoneInv'
  BY <1>1, <1>2 DEF ReadingInv, GoneInv, Obeys
<1> QED
  BY <1>4, <1>5, <1>6, <1>7 DEF ReadingInv

\* The verdict follows.
LEMMA VerdictNext ==
  ASSUME LineInv, ParsedInv, UNCHANGED <<argv, posixly_correct>>, parse_cmdargs
  PROVE  \/ phase' = "parsed" /\ ParsedInv'
         \/ phase' = "tmpfile" /\ GoneInv'
<1>1. /\ phase = "parsed" /\ status = "running" /\ UNCHANGED <<given, errors>>
  BY DEF parse_cmdargs, Running
<1>2. PICK r : Decided(r)
  BY <1>1 DEF ParsedInv
<1>3. Verdict(r)
  BY <1>2, DecidedGives DEF LineInv
<1> DEFINE asked == given["help"] # <<>> \/ given["version"] # <<>>
           failed == errors + (IF \E f \in Files : Len(given[f]) > 1 THEN 1 ELSE 0) > 0
<1>4. /\ asked <=> Asks(r)
      /\ failed <=> Faulty(r)
      /\ ~Faulty(r) => given["inputfile"] = r.ins /\ given["outputfile"] = r.outs
  BY <1>3 DEF Verdict
<1>5. /\ status' = IF asked THEN "success" ELSE IF failed THEN "failure" ELSE status
      /\ phase' = IF asked \/ failed THEN phase ELSE "tmpfile"
  BY DEF parse_cmdargs
<1> HIDE DEF asked, failed
<1>6. r = Read(argv)'
  BY <1>2, ReadUnchanged DEF Decided
<1>7. CASE asked \/ failed
  <2>1. Decided(r)'
    BY <1>1, <1>2, <1>6 DEF Decided, Scanned
  <2>2. (status' = "success" => Asks(r)) /\ (status' = "failure" => Faulty(r) /\ ~Asks(r))
    BY <1>4, <1>5, <1>7
  <2> QED
    BY <1>1, <1>5, <1>7, <2>1, <2>2 DEF ParsedInv
<1>8. CASE ~(asked \/ failed)
  <2>1. Obeys(r)'
    BY <1>1, <1>4, <1>6, <1>8 DEF Obeys
  <2> QED
    BY <1>5, <1>8, <2>1 DEF GoneInv
<1> QED
  BY <1>7, <1>8

\* Every step of the program.
LEMMA ReadingNext ==
  ASSUME Faithful, LineInv, OrderInv, ReadingInv, [Next]_vars
  PROVE  ReadingInv'
<1>1. CASE CommandNext
  <2>1. UNCHANGED <<argv, posixly_correct>>
    BY <1>1 DEF CommandNext
  <2>2. CASE getopt_internal
    <3>1. phase = "tagged"
      BY <2>2 DEF getopt_internal, EndOfWords, FirstOperand, SkipOperand, EndOfOptions,
         NamelessOption, BadLongOption, LongOptionLacksValue, parse_long_options,
         UnknownLetter, FlagLetter, LetterLacksValue, ValueLetter, ReadingLong,
         ReadingShort, Reading, BetweenWords, Tagged
    <3>2. \/ phase' = "tagged" /\ TaggedInv'
          \/ phase' = "untagged" /\ UntaggedInv'
      BY <2>1, <2>2, <3>1, TaggedNext DEF ReadingInv
    <3> QED
      BY <3>2 DEF ReadingInv, TaggedInv, UntaggedInv, ParsedInv, GoneInv, CommandPhases
  <2>3. CASE arg_parse_untagged
    <3>1. phase = "untagged" /\ phase' = "untagged"
      BY <2>3 DEF arg_parse_untagged
    <3>2. PICK r, taken : Remaining(r, taken)
      BY <3>1 DEF ReadingInv, UntaggedInv
    <3>3. \E more : Remaining(r, more)'
      BY <2>1, <2>3, <3>2, RemainingNext
    <3> QED
      BY <3>1, <3>3 DEF ReadingInv, TaggedInv, UntaggedInv, ParsedInv, GoneInv, CommandPhases
  <2>4. CASE arg_parse_check /\ UNCHANGED status
    <3>1. phase = "untagged" /\ phase' = "parsed" /\ status' = "running"
      BY <2>4 DEF arg_parse_check, Running
    <3>2. PICK r, taken : Remaining(r, taken)
      BY <3>1 DEF ReadingInv, UntaggedInv
    <3>3. Decided(r)'
      BY <2>1, <2>4, <3>2, CheckDecides
    <3> QED
      BY <3>1, <3>3 DEF ReadingInv, TaggedInv, UntaggedInv, ParsedInv, GoneInv, CommandPhases
  <2>5. CASE parse_cmdargs
    <3>1. \/ phase' = "parsed" /\ ParsedInv'
          \/ phase' = "tmpfile" /\ GoneInv'
      BY <2>1, <2>5, VerdictNext DEF ReadingInv
    <3> QED
      BY <3>1 DEF ReadingInv, TaggedInv, UntaggedInv, ParsedInv, GoneInv, CommandPhases
  <2> QED
    BY <1>1, <2>2, <2>3, <2>4, <2>5 DEF CommandNext, arg_parse
<1>2. CASE main
  <2>1. phase \notin CommandPhases /\ phase' \notin CommandPhases
    BY <1>2 DEF main, open_files, OpenTempfile, OpenInput, OpenStdout, OpenOutput,
       parse_file, ObjectWritten, ReadingStopped, SourceRefused, ParserCrash,
       AllocateBuffer, copy_files, closefiles, At, Proceed, processVars,
       CommandPhases
  <2>2. UNCHANGED <<argv, posixly_correct, given>>
    BY <1>2 DEF main
  <2>3. GoneInv'
    BY <2>1, <2>2, ReadUnchanged DEF ReadingInv, GoneInv, Obeys
  <2> QED
    BY <2>1, <2>3 DEF ReadingInv, TaggedInv, UntaggedInv, ParsedInv, CommandPhases
<1>3. CASE FillDisk \/ UNCHANGED vars
  <2>1. UNCHANGED <<status, commandVars>>
    BY <1>3 DEF FillDisk, vars, processVars
  <2> QED
    BY <2>1, ReadingStays
<1> QED
  BY <1>1, <1>2, <1>3 DEF Next

\* The reading is kept for ever.
LEMMA ReadingAlways == Spec => []ReadingInv
<1>1. LineInv /\ OrderInv /\ ReadingInv /\ [Next]_vars => ReadingInv'
  BY VocabularyFaithful, ReadingNext
<1> QED
  BY <1>1, LineInit, LineNext, OrderInit, OrderNext, ReadingInit, PTL DEF Spec

\* The operands of every command line reach arg_parse_untagged, each once and
\* in their order, however often getopt has permuted its copy of argv: what
\* lies behind optind when getopt returns -1 is what a reading from left to
\* right leaves over (getopt_internal, arg_parse).
THEOREM OperandsReachParser == Spec => []OperandsKept
<1>1. ReadingInv => OperandsKept
  <2> SUFFICES ASSUME ReadingInv, phase = "untagged", given["inputfile"] = <<>>
               PROVE  SubSeq(nargv, optind, Len(nargv)) = Read(argv).ins
    BY DEF OperandsKept
  <2>1. PICK r, taken : Remaining(r, taken)
    BY DEF ReadingInv, UntaggedInv
  <2>2. /\ r = Read(argv) /\ r \in Readings /\ taken \in Seq(WordType)
        /\ r.ins = taken \o Left /\ Kept(taken) = <<>>
    BY <2>1 DEF Remaining
  <2>3. Len(Kept(taken)) = 0 /\ Len(taken) \in Nat
        /\ Len(Kept(taken)) = (IF Len(taken) < 3 THEN Len(taken) ELSE 3)
        /\ (taken = <<>> <=> Len(taken) = 0)
    <3> HIDE DEF WordType
    <3>1. Len(Kept(taken)) = 0
      BY <2>2
    <3> QED
      BY <2>2, <3>1, KeptMany
  <2>4. taken = <<>>
    BY <2>3
  <2>5. r.ins = Left
    BY <2>2, <2>4 
  <2> QED
    BY <2>2, <2>5 DEF Left
<1> QED
  BY <1>1, ReadingAlways, PTL

\* The program does what a reading of its command line from left to right
\* says, for every command line: it goes on exactly with the one input and the
\* one output file of a line without fault, answers --help and --version
\* whatever else is wrong, and refuses the rest (parse_cmdargs, arg_parse).
THEOREM LineReadAsGiven == Spec => []ReadAsGiven
<1>1. ReadingInv => ReadAsGiven
  <2> SUFFICES ASSUME ReadingInv PROVE ReadAsGiven
    OBVIOUS
  <2>1. ASSUME phase \notin CommandPhases
        PROVE  /\ ~Faulty(Read(argv)) /\ ~Asks(Read(argv))
               /\ given["inputfile"] = Read(argv).ins
               /\ given["outputfile"] = Read(argv).outs
    BY <2>1 DEF ReadingInv, GoneInv, Obeys
  <2>2. ASSUME phase = "parsed"
        PROVE  /\ status = "success" => Asks(Read(argv))
               /\ status = "failure" => Faulty(Read(argv)) /\ ~Asks(Read(argv))
    BY <2>2 DEF ReadingInv, ParsedInv, Decided
  <2> QED
    BY <2>1, <2>2 DEF ReadAsGiven
<1> QED
  BY <1>1, ReadingAlways, PTL
=============================================================================
