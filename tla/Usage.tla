------------------------------- MODULE Usage -------------------------------
(***************************************************************************)
(* What a user may expect of a run of wrasm, stated against a reading of   *)
(* the command line that knows nothing of getopt's permutations: the words *)
(* are taken from left to right, each once, and Vocabulary says what each  *)
(* option word means.                                                      *)
(***************************************************************************)
EXTENDS Driver

CONSTANT Vocabulary  \* the option words: for each, the items it consists of

Flag(entry) == [kind |-> "flag", entry |-> entry]
ToFile(name) == [kind |-> "file", name |-> name]
ToNextWord(form) == [kind |-> "next", form |-> form]
Mistake == [kind |-> "mistake"]
LoneDash == [kind |-> "dash"]

\* What "--name" and "--name=value" are.
LongItems(long) ==
    LET matches == LongMatches(NameOf(long))
        entry == LongOption[CHOOSE n \in matches : TRUE]
    IN IF Cardinality(matches) # 1 \/ (entry \notin Files /\ HasValue(long))
       THEN <<Mistake>>
       ELSE IF entry \notin Files THEN <<Flag(entry)>>
       ELSE IF ~HasValue(long) THEN <<ToNextWord("long")>>
       ELSE IF ValueOf(long) = <<>> THEN <<ToFile(<<>>), Mistake>>
       ELSE <<ToFile(ValueOf(long))>>

\* What the letters of a word are, the items of all but the first being "rest".
MeaningOf(letters, rest) ==
    IF letters = <<"-">> THEN <<LoneDash>>
    ELSE IF letters[1] = "-" THEN LongItems(Tail(letters))
    ELSE IF letters[1] \notin DOMAIN ShortOption THEN <<Mistake>> \o rest
    ELSE IF ShortOption[letters[1]] \in Flags
    THEN <<Flag(ShortOption[letters[1]])>> \o rest
    ELSE IF Tail(letters) = <<>> THEN <<ToNextWord("short")>>
    ELSE <<ToFile(Tail(letters))>>

\* The last n letters of a word.
Letters(word, n) == SubSeq(word, Len(word) - n + 1, Len(word))

Meaning(word) ==
    LET means[n \in 0 .. Len(word) - 1] ==
            IF n = 0 THEN <<>> ELSE MeaningOf(Letters(word, n), means[n - 1])
    IN means[Len(word) - 1]

\* The vocabulary has the option words of the command lines and no other of
\* their words, and says of each what the table of options makes of it.
ASSUME VocabularyAssumption ==
    \A line \in CommandLines : \A word \in ToSet(line) :
        /\ word \in DOMAIN Vocabulary <=> IsOption(word) /\ word # Terminator
        /\ word \in DOMAIN Vocabulary => Vocabulary[word] = Meaning(word)

Unread == [ended |-> FALSE, wants |-> "nothing", stuck |-> FALSE, wrong |-> FALSE,
           flags |-> <<>>, ins |-> <<>>, outs |-> <<>>]

ReadItem(r, item) ==
    IF r.stuck THEN r
    ELSE CASE item.kind = "flag" -> [r EXCEPT !.flags = Append(@, item.entry)]
           [] item.kind = "file" -> [r EXCEPT !.outs = Append(@, item.name)]
           [] item.kind = "next" -> [r EXCEPT !.wants = item.form]
           [] item.kind = "mistake" -> [r EXCEPT !.wrong = TRUE]
           [] item.kind = "dash" -> [r EXCEPT !.stuck = TRUE]

\* -o takes any word for its value, --output any but the empty one.
ReadWord(r, word) ==
    CASE r.stuck -> r
      [] ~r.stuck /\ r.wants # "nothing" ->
            [r EXCEPT !.outs = Append(@, word), !.wants = "nothing",
                      !.wrong = @ \/ (r.wants = "long" /\ word = <<>>)]
      [] ~r.stuck /\ r.wants = "nothing" /\ ~r.ended /\ word = Terminator ->
            [r EXCEPT !.ended = TRUE]
      [] ~r.stuck /\ r.wants = "nothing" /\ ~r.ended /\ word \in DOMAIN Vocabulary ->
            FoldLeft(ReadItem, r, Vocabulary[word])
      [] OTHER -> [r EXCEPT !.ins = Append(@, word), !.ended = @ \/ posixly_correct]

Read(line) == FoldLeft(ReadWord, Unread, line)

Asks(r) == \E i \in DOMAIN r.flags : r.flags[i] \in {"help", "version"}
Repeats(r) == Len(r.flags) # Cardinality(ToSet(r.flags))
Faulty(r) == r.wrong \/ r.wants # "nothing" \/ Repeats(r) \/ Len(r.ins) # 1 \/ Len(r.outs) # 1

CommandPhases == {"tagged", "untagged", "parsed"}

\* The command line means what a reading from left to right says: the program
\* goes on exactly with the one input and the one output file of a line
\* without fault, answers --help and --version whatever else is wrong, and
\* refuses the rest (parse_cmdargs, arg_parse).
ReadAsGiven ==
    LET r == Read(argv)
    IN /\ phase \notin CommandPhases =>
            /\ ~Faulty(r) /\ ~Asks(r)
            /\ given["inputfile"] = r.ins /\ given["outputfile"] = r.outs
       /\ phase = "parsed" /\ status = "success" => Asks(r)
       /\ phase = "parsed" /\ status = "failure" => Faulty(r) /\ ~Asks(r)

\* However often getopt has permuted its copy of argv, the words it leaves
\* over are the operands of the command line, each once and in their order.
OperandsKept ==
    phase = "untagged" /\ given["inputfile"] = <<>> =>
        SubSeq(nargv, optind, Len(nargv)) = Read(argv).ins

Places == 1 .. Len(argv)
InOrder(q, S) == \A i, j \in S : i < j => q[i] < q[j]

\* q says for each word of nargv which word of argv it is.
Rearranges(q) ==
    /\ q \in [Places -> Places]
    /\ \A i, j \in Places : q[i] = q[j] => i = j
    /\ nargv = [i \in Places |-> argv[q[i]]]

\* Whatever the words are, getopt has only sorted them when it returns -1: the
\* words in front of optind and the words behind it are each in the order in
\* which they were given (getopt_internal, argtable3.c:1488).
OrderKept ==
    [][phase = "tagged" /\ phase' = "untagged" =>
        \E q \in [Places -> Places] :
            /\ InOrder(q, 1 .. optind' - 1)
            /\ InOrder(q, optind' .. Len(argv))
            /\ Rearranges(q)']_vars

\* Every command line is answered, with one exception: at a cluster of letters
\* that ends in a dash ("-v-") getopt reads the same word again for ever.
AnsweredUnlessStuck ==
    /\ [](Read(argv).stuck => Running)
    /\ ~Read(argv).stuck => <>~Running

\* A run that reports success after assembling has delivered an object of the
\* source it was given, with three exceptions: a source at which the parser
\* returned silently (generation.c:77) leaves an empty output; an output file
\* that is the input file is emptied before it is read; and what a full disk
\* cuts off nobody notices, though what is there is a prefix of the object.
Delivered ==
    phase = "close" /\ status = "success" =>
        LET source == IF output = Input THEN <<>> ELSE before[Input]
        IN /\ \E result \in Outcomes[source] :
                \/ result = Stopped /\ files[output] = <<>>
                \/ /\ result.kind = "object"
                   /\ IsPrefix(files[output], result.bytes)
                   /\ files[output] = result.bytes \/ disk = "full"
           /\ \A name \in DOMAIN before \ {output} : files[name] = before[name]

\* A run that fails or crashes leaves all files alone up to the moment the
\* output file is opened, so a source that cannot be opened costs nothing; from
\* then on it costs all of the output file's last content, and nothing else.
FailureCost ==
    status \in {"failure", "crash"} =>
        IF phase \in {"parse", "buffer"} /\ output # Stdout
        THEN /\ files = Emptied(before, output)
             /\ output = Output /\ Input \in DOMAIN before
        ELSE files = before
=============================================================================
