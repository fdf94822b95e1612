---------------------------- MODULE CommandLine ----------------------------
(***************************************************************************)
(* How wrasm reads its command line: parse_cmdargs (args.c) and the part   *)
(* of argtable3.c it runs, that is the embedded getopt_long, which         *)
(* permutes its copy of argv so that the operands end up behind the        *)
(* options, and arg_parse, which hands every option and operand to the     *)
(* scan function of its table entry.                                       *)
(*                                                                         *)
(* A word of the command line is a sequence of tokens: a "-" or a letter   *)
(* of its own where getopt looks at single characters, a whole name        *)
(* elsewhere.  "-vo x" is <<"-", "v", "o">>, <<"x">> and "--output=x" is    *)
(* <<"-", "-", "output", "=", "x">>.  The index of a word is its index in   *)
(* argv; argv[0], the program's own name, is left out.                     *)
(***************************************************************************)
EXTENDS Process, Integers, Sequences, SequencesExt, FiniteSets

CONSTANTS
    CommandLines,  \* the command lines the program may be started with
    MaxErrors      \* the errors arg_end has room for

ASSUME CommandLineAssumption ==
    /\ MaxErrors \in Nat \ {0}
    \* A command line is a sequence of words, a word a sequence of tokens.
    /\ \A line \in CommandLines :
        /\ line \in Seq(ToSet(line))
        /\ \A word \in ToSet(line) : word \in Seq(ToSet(word))

VARIABLES
    phase,           \* what the program is doing
    posixly_correct, \* POSIXLY_CORRECT is set in the environment
    argv,            \* the command line as it was given
    nargv,           \* the copy that getopt permutes
    optind,          \* the next word of nargv to read
    place,           \* what is left of the word being read
    nonopt_start,    \* the first word of the operands skipped, or None
    nonopt_end,      \* the first option behind them, or None
    given,           \* the values scanned so far, by table entry
    errors           \* the errors registered

getoptVars == <<nargv, optind, place, nonopt_start, nonopt_end>>
commandVars == <<phase, posixly_correct, argv, getoptVars, given, errors>>

None == -1

----------------------------------------------------------------------------
\* The table of options.

Flags == {"help", "version", "verbose"}
Files == {"inputfile", "outputfile"}
Entries == Flags \cup Files

MaxCount(entry) == IF entry \in Files THEN 3 ELSE 1
MinCount(entry) == IF entry \in Files THEN 1 ELSE 0

ShortOption ==
    [letter \in {"h", "V", "v", "o"} |->
        CASE letter = "h" -> "help" [] letter = "V" -> "version"
          [] letter = "v" -> "verbose" [] letter = "o" -> "outputfile"]

LongOption ==
    [name \in {"help", "version", "verbose", "output"} |->
        IF name = "output" THEN "outputfile" ELSE name]

\* The tokens that are prefixes of each name, as far as the words use them.
Abbreviations == "help" :> {"help", "h"} @@ "version" :> {"version", "ver", "v"}
                   @@ "verbose" :> {"verbose", "verb", "ver", "v"} @@ "output" :> {"output", "o"}

----------------------------------------------------------------------------
\* getopt: the permutation of the operands.

\* Mutant: the rotation is taken for a single cycle.
gcdOne(a, b) == 1

gcd(a, b) ==
    LET g[y \in 1 .. b] == [x \in Nat |-> IF x % y = 0 THEN y ELSE g[x % y][y]]
    IN g[b][a]

Swap(words, i, j) == [words EXCEPT ![i] = words[j], ![j] = words[i]]

\* The next place of a cycle of the rotation that exchanges start .. end - 1
\* and end .. opt_end - 1.
NextPlace(start, end, opt_end, pos) ==
    IF pos >= end THEN pos - (end - start) ELSE pos + (opt_end - end)

\* Follows the cycle through cstart, one swap for each of its places.
FollowCycle(start, end, opt_end, cyclelen, cstart, words) ==
    LET pos[j \in 0 .. cyclelen] ==
            IF j = 0 THEN cstart ELSE NextPlace(start, end, opt_end, pos[j - 1])
        swapped[j \in 0 .. cyclelen] ==
            IF j = 0 THEN words ELSE Swap(swapped[j - 1], pos[j], cstart)
    IN swapped[cyclelen]

\* Exchanges the words start .. end - 1 with the words end .. opt_end - 1.
permute_args(start, end, opt_end, words) ==
    LET ncycle == gcd(end - start, opt_end - end)
        cyclelen == (opt_end - start) \div ncycle
        permuted[i \in 0 .. ncycle] ==
            IF i = 0 THEN words
            ELSE FollowCycle(start, end, opt_end, cyclelen, end + i - 1, permuted[i - 1])
    IN permuted[ncycle]

\* getopt is done with the options: it returns -1 and leaves optind, which has
\* reached "last", at the first operand.
Leave(last, end) ==
    /\ nargv' = IF end # None THEN permute_args(nonopt_start, end, last, nargv) ELSE nargv
    /\ optind' = IF end # None THEN last - (end - nonopt_start) ELSE last
    /\ nonopt_start' = None
    /\ nonopt_end' = None
    /\ place' = <<>>
    /\ phase' = "untagged"
    /\ UNCHANGED <<given, errors>>

----------------------------------------------------------------------------
\* The scan functions and the list of errors.

\* Mutant: a value more than the entry has room for.
AcceptsOneMore(entry) == Len(given[entry]) <= MaxCount(entry)

Accepts(entry) == Len(given[entry]) < MaxCount(entry)

arg_scanfn(entry, value) ==
    given' = [given EXCEPT ![entry] = IF Accepts(entry) THEN Append(@, value) ELSE @]

\* Past MaxErrors the last error is replaced by one that says so.
arg_register_error(n) == errors' = IF errors + n > MaxErrors THEN MaxErrors ELSE errors + n

\* Mutant: a value too many is dropped without an error.
ScanErrorsNone(entry) == 0

ScanErrors(entry) == IF Accepts(entry) THEN 0 ELSE 1

----------------------------------------------------------------------------
\* getopt: one action for each way through getopt_internal, with what
\* arg_parse_tagged does with the answer.

Tagged == Running /\ phase = "tagged"
Word == nargv[optind]
BetweenWords == Tagged /\ place = <<>>
IsOption(word) == Len(word) > 1 /\ word[1] = "-"
Terminator == <<"-", "-">>

\* The end of nargv.
EndOfWords ==
    /\ BetweenWords
    /\ optind > Len(nargv)
    /\ IF nonopt_end = None /\ nonopt_start # None
       THEN Leave(nonopt_start, None)
       ELSE Leave(optind, nonopt_end)

\* An operand where POSIX ends the options.
FirstOperand ==
    /\ BetweenWords
    /\ optind <= Len(nargv)
    /\ ~IsOption(Word)
    /\ posixly_correct
    /\ phase' = "untagged"
    /\ UNCHANGED <<getoptVars, given, errors>>

\* Mutant: the operands sent behind the options are still taken to begin where
\* they began before.
SkipOperandForgets ==
    /\ BetweenWords
    /\ optind <= Len(nargv)
    /\ ~IsOption(Word)
    /\ ~posixly_correct
    /\ nargv' = IF nonopt_end # None
                THEN permute_args(nonopt_start, nonopt_end, optind, nargv)
                ELSE nargv
    /\ nonopt_start' = IF nonopt_start = None THEN optind ELSE nonopt_start
    /\ nonopt_end' = None
    /\ optind' = optind + 1
    /\ UNCHANGED <<place, phase, given, errors>>

\* An operand is skipped; one that follows options sends the operands before
\* them behind them first.
SkipOperand ==
    /\ BetweenWords
    /\ optind <= Len(nargv)
    /\ ~IsOption(Word)
    /\ ~posixly_correct
    /\ nargv' = IF nonopt_end # None
                THEN permute_args(nonopt_start, nonopt_end, optind, nargv)
                ELSE nargv
    /\ nonopt_start' = IF nonopt_start = None THEN optind
                       ELSE IF nonopt_end # None THEN optind - (nonopt_end - nonopt_start)
                       ELSE nonopt_start
    /\ nonopt_end' = None
    /\ optind' = optind + 1
    /\ UNCHANGED <<place, phase, given, errors>>

\* The first option behind the operands skipped.
NonoptEnd == IF nonopt_start # None /\ nonopt_end = None THEN optind ELSE nonopt_end

\* "--" ends the options.
EndOfOptions ==
    /\ BetweenWords
    /\ optind <= Len(nargv)
    /\ Word = Terminator
    /\ Leave(optind + 1, NonoptEnd)

\* What getopt reads next: the rest of the word it is in, or a new word
\* without its dash.
Pending ==
    IF place # <<>> THEN place
    ELSE IF optind <= Len(nargv) /\ IsOption(Word) /\ Word # Terminator THEN Tail(Word)
    ELSE <<>>

Reading ==
    /\ Tagged
    /\ Pending # <<>>
    /\ nonopt_end' = IF place = <<>> THEN NonoptEnd ELSE nonopt_end
    /\ UNCHANGED <<nargv, nonopt_start, phase>>

\* A dash that ends a cluster of letters is a long option without a name: an
\* error, and optind stays where it is, at the word already being read.
NamelessOption ==
    /\ Reading
    /\ Pending = <<"-">>
    /\ place' = <<>>
    /\ arg_register_error(1)
    /\ UNCHANGED <<optind, given>>

----------------------------------------------------------------------------
\* Long options.

HasValue(long) == \E i \in DOMAIN long : long[i] = "="
Equals(long) == CHOOSE i \in DOMAIN long : long[i] = "=" /\ \A j \in 1 .. i - 1 : long[j] # "="
NameOf(long) == IF HasValue(long) THEN SubSeq(long, 1, Equals(long) - 1) ELSE long
ValueOf(long) == SubSeq(long, Equals(long) + 1, Len(long))

\* The long options a name may stand for: itself, or those it abbreviates.
LongMatches(name) ==
    IF \E n \in DOMAIN LongOption : name = <<n>>
    THEN {name[1]}
    ELSE {n \in DOMAIN LongOption : name = <<>> \/ \E a \in Abbreviations[n] : name = <<a>>}

ReadingLong ==
    /\ Reading
    /\ Len(Pending) > 1
    /\ Pending[1] = "-"
    /\ place' = <<>>

Long == Tail(Pending)
LongMatch == LongMatches(NameOf(Long))
LongEntry == LongOption[CHOOSE n \in LongMatch : TRUE]

\* An unknown name, an ambiguous one, or a value for an option that has none.
BadLongOption ==
    /\ ReadingLong
    /\ Cardinality(LongMatch) = 1 => LongEntry \notin Files /\ HasValue(Long)
    /\ optind' = optind + 1
    /\ arg_register_error(1)
    /\ UNCHANGED given

\* --output with no word behind it.
LongOptionLacksValue ==
    /\ ReadingLong
    /\ Cardinality(LongMatch) = 1
    /\ LongEntry \in Files
    /\ ~HasValue(Long)
    /\ optind = Len(nargv)
    /\ optind' = optind + 1
    /\ arg_register_error(1)
    /\ UNCHANGED given

\* An empty value is an error and is scanned all the same.
parse_long_options ==
    /\ ReadingLong
    /\ Cardinality(LongMatch) = 1
    /\ LongEntry \notin Files => ~HasValue(Long)
    /\ LongEntry \in Files /\ ~HasValue(Long) => optind < Len(nargv)
    /\ LET fromNext == LongEntry \in Files /\ ~HasValue(Long)
           value == IF fromNext THEN nargv[optind + 1]
                    ELSE IF HasValue(Long) THEN ValueOf(Long) ELSE <<>>
           missing == LongEntry \in Files /\ value = <<>>
       IN /\ optind' = IF fromNext THEN optind + 2 ELSE optind + 1
          /\ arg_scanfn(LongEntry, value)
          /\ arg_register_error(ScanErrors(LongEntry) + IF missing THEN 1 ELSE 0)

----------------------------------------------------------------------------
\* Short options, one letter at a time.

ReadingShort ==
    /\ Reading
    /\ Pending[1] # "-"

Letter == Pending[1]
Rest == Tail(Pending)

\* Mutant: optind stays with the word.
PastLetterStays == optind

\* optind leaves the word with its last letter.
PastLetter == IF Rest = <<>> THEN optind + 1 ELSE optind

UnknownLetter ==
    /\ ReadingShort
    /\ Letter \notin DOMAIN ShortOption
    /\ place' = Rest
    /\ optind' = PastLetter
    /\ arg_register_error(1)
    /\ UNCHANGED given

FlagLetter ==
    /\ ReadingShort
    /\ Letter \in DOMAIN ShortOption
    /\ ShortOption[Letter] \in Flags
    /\ place' = Rest
    /\ optind' = PastLetter
    /\ arg_scanfn(ShortOption[Letter], <<>>)
    /\ arg_register_error(ScanErrors(ShortOption[Letter]))

\* -o as the last word.
LetterLacksValue ==
    /\ ReadingShort
    /\ Letter \in DOMAIN ShortOption
    /\ ShortOption[Letter] \in Files
    /\ Rest = <<>>
    /\ optind = Len(nargv)
    /\ place' = <<>>
    /\ optind' = optind + 1
    /\ arg_register_error(1)
    /\ UNCHANGED given

\* -o takes the rest of its word, or the next word whatever that is.
ValueLetter ==
    /\ ReadingShort
    /\ Letter \in DOMAIN ShortOption
    /\ ShortOption[Letter] \in Files
    /\ Rest = <<>> => optind < Len(nargv)
    /\ place' = <<>>
    /\ optind' = IF Rest = <<>> THEN optind + 2 ELSE optind + 1
    /\ arg_scanfn(ShortOption[Letter], IF Rest = <<>> THEN nargv[optind + 1] ELSE Rest)
    /\ arg_register_error(ScanErrors(ShortOption[Letter]))

----------------------------------------------------------------------------
\* The operands, and the verdict.

\* Every word getopt has left over is an input file; past three of them each
\* is an error.
arg_parse_untagged ==
    /\ Running
    /\ phase = "untagged"
    /\ optind <= Len(nargv)
    /\ arg_scanfn("inputfile", Word)
    /\ arg_register_error(ScanErrors("inputfile"))
    /\ optind' = optind + 1
    /\ UNCHANGED <<phase, nargv, place, nonopt_start, nonopt_end>>

Missing == {entry \in Entries : Len(given[entry]) < MinCount(entry)}

\* The entries are checked for their minimum only if nothing else was wrong.
arg_parse_check ==
    /\ Running
    /\ phase = "untagged"
    /\ optind > Len(nargv)
    /\ IF errors = 0 THEN arg_register_error(Cardinality(Missing)) ELSE UNCHANGED errors
    /\ phase' = "parsed"
    /\ UNCHANGED <<getoptVars, given>>

\* --help and --version win over every error; a second file is an error of
\* parse_cmdargs itself.
parse_cmdargs ==
    /\ Running
    /\ phase = "parsed"
    /\ LET nerrors == errors + IF \E f \in Files : Len(given[f]) > 1 THEN 1 ELSE 0
           asked == given["help"] # <<>> \/ given["version"] # <<>>
       IN /\ status' = IF asked THEN "success" ELSE IF nerrors > 0 THEN "failure" ELSE status
          /\ phase' = IF asked \/ nerrors > 0 THEN phase ELSE "tmpfile"
    /\ UNCHANGED <<getoptVars, given, errors>>

----------------------------------------------------------------------------
CommandInit ==
    /\ phase = "tagged"
    /\ posixly_correct \in BOOLEAN
    /\ argv \in CommandLines
    /\ nargv = argv
    /\ optind = 1
    /\ place = <<>>
    /\ nonopt_start = None
    /\ nonopt_end = None
    /\ given = [entry \in Entries |-> <<>>]
    /\ errors = 0

getopt_internal ==
    \/ EndOfWords \/ FirstOperand \/ SkipOperand \/ EndOfOptions \/ NamelessOption
    \/ BadLongOption \/ LongOptionLacksValue \/ parse_long_options
    \/ UnknownLetter \/ FlagLetter \/ LetterLacksValue \/ ValueLetter

arg_parse == getopt_internal \/ arg_parse_untagged \/ arg_parse_check

CommandNext ==
    /\ \/ arg_parse /\ UNCHANGED status
       \/ parse_cmdargs
    /\ UNCHANGED <<posixly_correct, argv, logged>>

CommandTypeOK ==
    /\ phase \in {"tagged", "untagged", "parsed", "tmpfile", "input", "output", "parse", "buffer", "copy", "close"}
    /\ posixly_correct \in BOOLEAN
    /\ Len(nargv) = Len(argv)
    /\ ToSet(nargv) = ToSet(argv)
    /\ optind \in 1 .. Len(argv) + 1
    /\ nonopt_start \in {None} \cup 1 .. Len(argv)
    /\ nonopt_end \in {None} \cup 1 .. Len(argv)
    /\ \A entry \in Entries : Len(given[entry]) <= MaxCount(entry)
    /\ errors \in 0 .. MaxErrors

=============================================================================
