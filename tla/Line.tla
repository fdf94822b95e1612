-------------------------------- MODULE Line --------------------------------
(***************************************************************************)
(* What becomes of one line of a source: parse_line and the handlers it    *)
(* calls (generation.c, directives.c, parse.c), down to the machine words  *)
(* and the bytes (form/*.c).                                               *)
(*                                                                         *)
(* A line is described by what its author means, which Lines.tla renders   *)
(* as a text; the handlers see the text alone.  The line is one of a       *)
(* program in which the label it refers to is defined, at the distance     *)
(* that belongs to the line.                                               *)
(***************************************************************************)
EXTENDS Process, Lines, Arguments, Instructions

CONSTANTS
    Dotted,    \* lexemes that begin with a dot or a square bracket
    HexDigit,  \* the digits of \x and \u escapes, a function to their values
    Ascii,     \* the characters of strings, a function to their codes
    Leftover   \* texts that may lie in memory behind the end of a string

\* A text is a sequence of lexemes.
ASSUME LineAssumption ==
    /\ \A w \in Written : Heading(w) \in Seq(STRING) /\ Content(w) \in Seq(STRING)
    /\ Leftover \subseteq Seq(STRING)
    /\ \A digit \in DOMAIN HexDigit : HexDigit[digit] \in 0 .. 15
    /\ {Quote, "\\"} \cap DOMAIN HexDigit = {}
    /\ Dotted \cap (Blanks \cup {":", ";", "//"}) = {}

\* A name that stands at k, with its colon.
LabelAt(t, k) ==
    /\ t[k] \notin Dotted \cup Blanks \cup {":", ";", "//"}
    /\ k < Len(t) /\ t[k + 1] = ":"

\* In front of the body stand blanks and labels.  A dot that begins a lexeme of
\* a statement that is no directive stands behind the first word and behind no
\* colon, as that of an operand does.  getl has left no line break.
ASSUME WrittenAssumption ==
    \A w \in Written :
        /\ \A k \in DOMAIN Heading(w) :
                \/ Heading(w)[k] \in Blanks \/ LabelAt(Heading(w), k)
                \/ Heading(w)[k] = ":" /\ k > 1 /\ LabelAt(Heading(w), k - 1)
        /\ \/ Statement(w) # <<>> /\ Statement(w)[1] \in Dotted
           \/ \A k \in DOMAIN Statement(w) : Statement(w)[k] \in Dotted =>
                /\ \E j \in 1 .. k - 1 : Statement(w)[j] \notin Blanks
                /\ \A j \in 1 .. k - 1 : Statement(w)[j] # ":"
        /\ "\n" \notin ToSet(Rendered(w))

\* The memory behind a line, and what an open string is copied from, a quote
\* that a backslash is before being one of its characters, are characters.
Codes(table) == \A c \in DOMAIN table : table[c] \in 0 .. 255
ASSUME StringAssumption ==
    /\ Codes(Ascii)
    /\ \A rest \in Leftover : \A k \in DOMAIN rest :
            rest[k] \in DOMAIN Ascii \cup {Quote, "\\"}
    /\ \A w \in Written : \A q, k \in DOMAIN Statement(w) :
            /\ q < k /\ q > 2 /\ OpensAt(Statement(w), q)
            /\ \A j \in q + 1 .. k :
                    Statement(w)[j] = Quote => Statement(w)[j - 1] = "\\"
            => Statement(w)[k] \in DOMAIN Ascii \cup {Quote, "\\"}

VARIABLES
    written,   \* the line its author means
    text,      \* what of the line is still to be read
    point,     \* where the reading stands
    made,      \* what the line has done to the program so far
    room,      \* the size of the block a string is copied to
    overread   \* TRUE once a byte behind the end of a string has been read

lineVars == <<written, text, point, made, room, overread>>
vars == <<lineVars, processVars>>

Nothing == [labels |-> <<>>, insns |-> <<>>, words |-> <<>>, strings |-> <<>>,
            sections |-> <<>>, globals |-> <<>>]

Points == {"line", "trimmed", "string", "parsed", "written", "refused"}

Init ==
    /\ ProcessInit
    /\ written \in Written
    /\ text = Rendered(written)
    /\ point = "line"
    /\ made = Nothing
    /\ room = 0
    /\ overread = FALSE

-----------------------------------------------------------------------------
(* Ways a handler ends.                                                    *)

\* A handler that returns 0: the line is done.
Succeed(effect) ==
    /\ point' = "parsed" /\ made' = effect
    /\ UNCHANGED <<written, text, room, overread, processVars>>

\* A handler that returns nonzero, which ends parse_file without a word.
Refuse ==
    /\ point' = "refused"
    /\ UNCHANGED <<written, text, made, room, overread>>

\* A diagnostic of level ERROR.
Complain(id) ==
    /\ Logger("ERROR", id)
    /\ UNCHANGED lineVars

-----------------------------------------------------------------------------
(* parse_line, parse_line_trimmed and parse_label.                         *)

parse_line ==
    /\ Running /\ point = "line"
    /\ point' = "trimmed" /\ text' = trim_whitespace(text)
    /\ UNCHANGED <<written, made, room, overread, processVars>>

\* Mutant: a line that is a comment goes the way of the others.
IsBlankOnly == text = <<>>

IsBlank == text = <<>> \/ IsPrefix(<<"//">>, text)
IsDirective == ~IsBlank /\ text[1] \in Dotted
IsLabel == ~IsBlank /\ ~IsDirective /\ \E k \in DOMAIN text : text[k] = ":"
IsAsm == ~IsBlank /\ ~IsDirective /\ ~IsLabel

Reading == Running /\ point = "trimmed"

ParseBlank == Reading /\ IsBlank /\ Succeed(made)

\* What is behind the colon is a line of its own.
parse_label ==
    /\ Reading /\ IsLabel
    /\ made' = [made EXCEPT !.labels =
                    Append(@, trim_whitespace(UpTo(text, {":"})))]
    /\ point' = "line" /\ text' = Behind(text, {":"})
    /\ UNCHANGED <<written, room, overread, processVars>>

-----------------------------------------------------------------------------
(* Directives.                                                             *)

\* The scan for the end of the name takes white space for it and nothing
\* else.  In a line without any it goes on behind the end of the line, in
\* memory nobody knows.
EndsInLine == \E k \in DOMAIN text : text[k] \in Blanks
DirectiveName == UpTo(text, Blanks)
ScanEnds == IF EndsInLine THEN {Behind(text, Blanks)} ELSE Leftover

Strings == {".string", ".asciz", ".ascii"}
Directives == Strings \cup {".section", ".globl"}

Scanned == overread' = (overread \/ ~EndsInLine)

\* The memory behind the line may end before a white space does.
ScanFaults ==
    /\ Reading /\ IsDirective /\ ~EndsInLine
    /\ Fault
    /\ overread' = TRUE
    /\ UNCHANGED <<written, text, point, made, room>>

UnknownDirective ==
    /\ Reading /\ IsDirective
    /\ \A name \in Directives : DirectiveName # <<name>>
    /\ Logger("ERROR", "error_invalid_instruction")
    /\ Scanned
    /\ UNCHANGED <<written, text, point, made, room>>

ParseDirective(name) ==
    Reading /\ IsDirective /\ DirectiveName = <<name>> /\ Scanned

\* change_output, for the two sections a program may select.
parse_section(args) ==
    /\ ParseDirective(".section")
    /\ IF args \in {<<".text">>, <<".data">>}
       THEN /\ point' = "parsed"
            /\ made' = [made EXCEPT !.sections = Append(@, args)]
            /\ UNCHANGED processVars
       ELSE /\ point' = "refused"
            /\ Logger("WARN", "error_invalid_instruction")
            /\ UNCHANGED made
    /\ UNCHANGED <<written, text, room>>

parse_global(args) ==
    /\ ParseDirective(".globl")
    /\ point' = "parsed"
    /\ made' = [made EXCEPT !.globals = Append(@, args)]
    /\ UNCHANGED <<written, text, room, processVars>>

\* Mutant: no byte for the NUL.
BlockSizeBare(str) == Len(str) - 2

\* strlen(str) - 1: a NUL takes the place of the two quotes.
BlockSize(str) == Len(str) - 1

\* -1 from parse_nulltermstr means that there is no string.  .ascii takes one
\* off it before it is compared with -1, and asks for a block of 2^64 - 2
\* bytes; so does either of them, for the copy, when there is no argument.
parse_ascii_generic(name, args) ==
    /\ name \in Strings /\ ParseDirective(name)
    /\ CASE args # <<>> /\ args[1] = Quote ->
                /\ point' = "string" /\ text' = Tail(args)
                /\ room' = BlockSize(args)
                /\ made' = [made EXCEPT !.strings =
                                Append(@, [nullterm |-> name # ".ascii", bytes |-> <<>>])]
                /\ UNCHANGED processVars
         [] args # <<>> /\ args[1] # Quote /\ name # ".ascii" ->
                /\ point' = "refused"
                /\ UNCHANGED <<text, made, room, processVars>>
         [] args = <<>> \/ (args[1] # Quote /\ name = ".ascii") ->
                /\ Logger("CRITICAL", "error_system")
                /\ UNCHANGED <<text, point, made, room>>
    /\ UNCHANGED written

-----------------------------------------------------------------------------
(* parse_nulltermstr, a character a step.                                  *)

Copying == Running /\ point = "string"

Bytes == made.strings[1].bytes
Store(byte) == made' = [made EXCEPT !.strings[1].bytes = Append(@, byte)]

CloseString == Copying /\ text # <<>> /\ text[1] = Quote /\ Succeed(made)

\* Mutant: the NUL is copied like any other character.
UnclosedStringCopied ==
    /\ Copying /\ text = <<>>
    /\ overread' = TRUE /\ text' \in Leftover
    /\ Store(0)
    /\ UNCHANGED <<written, point, room, processVars>>

UnclosedString ==
    Copying /\ text = <<>> /\ Complain("error_invalid_syntax")

PlainChar ==
    /\ Copying /\ text # <<>> /\ text[1] \notin {Quote, "\\"}
    /\ Store(Ascii[text[1]])
    /\ text' = Tail(text)
    /\ UNCHANGED <<written, point, room, overread, processVars>>

\* The byte for the character behind a backslash; one it does not know
\* becomes a NUL.
Escaped(c) ==
    CASE c = "a" -> 7 [] c = "b" -> 8 [] c = "t" -> 9 [] c = "n" -> 10
      [] c = "v" -> 11 [] c = "f" -> 12 [] c = "r" -> 13 [] c = Quote -> 34
      [] c = "\\" -> 92 [] OTHER -> 0

\* All the digits strtol finds belong to the escape, however many.
NumericEscape(base) ==
    LET digits == [k \in 1 .. Len(text) - 2 |->
                    IF text[k + 2] \in DOMAIN HexDigit THEN HexDigit[text[k + 2]]
                    ELSE base]
        size == Taken(digits, base)
    IN  [value |-> DigitsValue(digits, base, size), size |-> size]

NumericBase == IF text[2] = "x" THEN 16 ELSE 8

\* Mutant: the value of an escape is not compared with 256.
get_escapedcharWide ==
    /\ Copying /\ Len(text) > 1 /\ text[1] = "\\" /\ text[2] \in {"x", "u"}
    /\ LET escape == NumericEscape(NumericBase)
       IN  /\ Store(escape.value)
           /\ text' = SubSeq(text, 3 + escape.size, Len(text))
    /\ UNCHANGED <<written, point, room, overread, processVars>>

\* The character behind a backslash, and the digits behind that one.
get_escapedchar ==
    /\ Copying /\ Len(text) > 1 /\ text[1] = "\\"
    /\ IF text[2] \in {"x", "u"}
       THEN LET escape == NumericEscape(NumericBase)
            IN  IF escape.value >= 256 THEN Complain("error_invalid_instruction")
                ELSE /\ Store(escape.value)
                     /\ text' = SubSeq(text, 3 + escape.size, Len(text))
                     /\ UNCHANGED <<written, point, room, overread, processVars>>
       ELSE /\ Store(Escaped(text[2]))
            /\ text' = SubSeq(text, 3, Len(text))
            /\ UNCHANGED <<written, point, room, overread, processVars>>

\* A backslash that ends the line takes the NUL for the character it escapes,
\* and the string goes on behind it.
EscapedEnd ==
    /\ Copying /\ text = <<"\\">>
    /\ overread' = TRUE
    /\ Store(0)
    /\ text' \in Leftover
    /\ UNCHANGED <<written, point, room, processVars>>
EscapedEndFaults ==
    /\ Copying /\ overread /\ Fault /\ UNCHANGED lineVars

-----------------------------------------------------------------------------
(* Instructions.                                                           *)

\* The name ends at a space or a tab, and no other white space.
Mnemonic == UpTo(text, {" ", "\t"})
ArgString == Behind(text, {" ", "\t"})
Known == Len(Mnemonic) = 1 /\ Mnemonic[1] \in Mnemonics

UnknownInstruction ==
    Reading /\ IsAsm /\ ~Known /\ Complain("error_invalid_instruction")

parse_asm ==
    /\ Reading /\ IsAsm /\ Known
    /\ \E formation \in {Formations[Mnemonic[1]]} :
       \E result \in {arg_handler(formation.arg, ArgString)} :
            IF IsError(result) THEN Complain(result.error)
            ELSE Succeed([made EXCEPT !.insns =
                    Append(@, [formation |-> formation, args |-> result.args])])

\* When the whole source has been read, write_all has the form handler of
\* each instruction make its words.
write_all_instructions ==
    /\ Running /\ point = "parsed"
    /\ point' = "written"
    /\ made' = [made EXCEPT !.words =
                    [k \in DOMAIN made.insns |->
                        Emit(made.insns[k].formation,
                             made.insns[k].args @@ [distance |-> written.distance])]]
    /\ UNCHANGED <<written, text, room, overread, processVars>>

-----------------------------------------------------------------------------

Next ==
    \/ parse_line
    \/ ParseBlank
    \/ parse_label
    \/ ScanFaults
    \/ UnknownDirective
    \/ \E args \in {trim_whitespace(rest) : rest \in ScanEnds} :
        \/ parse_section(args)
        \/ parse_global(args)
        \/ \E name \in Strings : parse_ascii_generic(name, args)
    \/ CloseString
    \/ UnclosedString
    \/ PlainChar
    \/ get_escapedchar
    \/ EscapedEnd
    \/ EscapedEndFaults
    \/ UnknownInstruction
    \/ parse_asm
    \/ write_all_instructions

Spec == Init /\ [][Next]_vars

-----------------------------------------------------------------------------
(* Properties.                                                             *)

\* The variables keep their types; the bytes of a string fit in a byte.
TypeOK ==
    /\ ProcessTypeOK
    /\ point \in Points
    /\ overread \in BOOLEAN
    /\ room \in Int
    /\ \A k \in DOMAIN made.strings :
            /\ made.strings[k].nullterm \in BOOLEAN
            /\ \A j \in DOMAIN made.strings[k].bytes :
                    made.strings[k].bytes[j] \in 0 .. 255
    /\ \A k \in DOMAIN made.words : made.words[k] \in Seq(Word)

\* An instruction becomes as many bytes as its table row says, which is what
\* its section was made longer by when it was read, and what the places of all
\* labels behind it are counted with (parse.c:186, form/base.c:220).
FillsItsSize ==
    \A k \in DOMAIN made.words :
        4 * Len(made.words[k]) = made.insns[k].formation.sz

Body == written.body
IsInsn == Body.kind = "insn"
Done == point = "written"

\* The line has done what its author means it to do, but for the words of the
\* instruction.
AsMeant ==
    /\ made.labels = [k \in DOMAIN written.labels |-> <<written.labels[k]>>]
    /\ Len(made.insns) = IF IsInsn THEN 1 ELSE 0
    /\ IsInsn => /\ made.insns[1].formation = Formations[Body.name]
                 /\ made.insns[1].args.sym = Refers(Body)
    /\ made.strings =
        IF Body.kind = "string"
        THEN <<[nullterm |-> Body.directive # ".ascii",
                bytes |-> [k \in DOMAIN Body.chars |-> Body.chars[k].code]]>>
        ELSE <<>>
    /\ made.sections = IF Body.kind = "section" THEN <<<<Body.name>>>> ELSE <<>>
    /\ made.globals = IF Body.kind = "globl" THEN <<<<Body.name>>>> ELSE <<>>

\* A proper line, with blanks before it and a comment right behind it, is
\* never refused and does what it says: its labels, in their order, its
\* directive or its instruction with the right name and label, and every byte
\* of its string (parse_line, parse_label, parse_directive and parse_asm).
\* The exception is diagnosed: a binary or octal number for an offset or a csr.
ReadAsWritten ==
    IsPlain(written) /\ Proper(Body) =>
        /\ ~overread /\ point # "refused"
        /\ status # "running" => IsInsn /\ Unreadable(Body)
        /\ Done => AsMeant /\ ~(IsInsn /\ Unreadable(Body))

\* What stands behind a proper line, a blank or a comment without a semicolon,
\* makes it mean something else without a word only if there is a colon in it
\* or the line ends in the name of a label: the first makes the line a label
\* (generation.c:130), the second a longer name.  Every other one is harmless
\* or ends the program.
MisreadBehindNames ==
    Done /\ Proper(Body) /\ ~overread => (~AsMeant <=> Misleading(written))

\* The instructions that are given another one's word: slliw, which has the
\* funct3 of addiw, and amoxor with one of its orderings.
Misencoded == {"slliw", "amoxor.w.rl", "amoxor.w.aq", "amoxor.d.rl", "amoxor.d.aq"}

\* The number behind a minus sign and the prefix 0b or 0o is not read.
SignedPrefix(o) ==
    /\ IsNumber(o) /\ Literal[o[1]].neg /\ Literal[o[1]].prefix \in {"0b", "0o"}
    /\ NumberOf(o[1]) # 0

CsrNumber ==
    IF Len(Body.operands) = 3 /\ IsNumber(Body.operands[2]) THEN Num(Body.operands[2])
    ELSE IF Len(Body.operands) = 3 THEN GetCsr(Body.operands[2]) ELSE 0
Meant == Meaning(Body.name, Body.operands, written.distance, CsrNumber)

\* The word of an instruction does what the source says, through its table
\* row, its handler's order of the operands, the pseudo-instruction it stands
\* for and the fields of its format, exactly if the immediate or the distance
\* fits its field (one that does not is cut without a word), the number is not
\* one get_immediate misreads, and the instruction is not one of five with a
\* wrong row.
EncodesMeaning ==
    Done /\ IsInsn /\ Proper(Body) /\ AsMeant /\ Body.name \notin {"li", "la"} =>
        /\ Len(made.words[1]) = 1
        /\ Decode(made.words[1][1]) = Meant <=>
            /\ InRange(Meant)
            /\ Body.name \notin Misencoded
            /\ \A k \in DOMAIN Body.operands : ~SignedPrefix(Body.operands[k])

\* The value li and la are to leave in their register.
LoadValue == IF Body.name = "li" THEN Num(Body.operands[2]) ELSE written.distance
IsLoad ==
    /\ IsInsn /\ Body.name \in {"li", "la"} /\ Proper(Body) /\ AsMeant
    /\ ~SignedPrefix(Body.operands[2])

\* li and la leave their value in their register: "Load psuedoinstruction has
\* value %d" (form/base.c:199).
LoadsValue ==
    Done /\ IsLoad =>
        Loaded(made.words[1]) = [rd |-> Reg(Body.operands[1]), value |-> LoadValue,
                                 paired |-> TRUE]

\* They do so exactly if bit 11 of the value is 0; otherwise addi takes its 12
\* bits for a negative number and the value is short of 4096.
LoadsUnlessBitEleven ==
    Done /\ IsLoad =>
        Loaded(made.words[1]) =
            [rd |-> Reg(Body.operands[1]), paired |-> TRUE,
             value |-> LoadValue - IF 11 \in BitsOf(LoadValue) THEN 4096 ELSE 0]

\* A malformed instruction ends the program, whatever is wrong with it: only
\* one that Tolerated lists can become a word.  Nothing says that the listed ones
\* must: for two of them parse.c has a diagnostic, which does not reach them.
MalformedDiagnosed ==
    Done /\ IsInsn /\ IsPlain(written) =>
        WellFormed(Body.name, Body.operands) \/ Tolerated(Body.name, Body.operands)

\* The bank of a name, which the privilege level in bits 8 and 9 of the
\* address of a csr is for.
Privilege(csr) ==
    CASE csr \in DOMAIN UserCsrs -> 0
      [] csr \in DOMAIN SupervisorCsrs -> 1
      [] csr \in DOMAIN HypervisorCsrs -> 2
      [] csr \in DOMAIN MachineCsrs \cup DOMAIN ProtectionCsrs
                 \cup DOMAIN CounterCsrs \cup DOMAIN DebugCsrs -> 3

\* The word of a csr instruction addresses the register it names: no other
\* name of csr_map has that address, and it is of the privilege of its bank.
CsrAddressed ==
    Done /\ IsInsn /\ Body.name \in NamesOf(CsrNames) /\ Proper(Body) /\ AsMeant =>
        LET csr == Body.operands[2]
            address == Extract(made.words[1][1], 20, 12)
        IN  csr[1] \in DOMAIN CsrMap =>
                /\ {n \in DOMAIN CsrMap : CsrMap[n] = ValueOf(address)} = {csr[1]}
                /\ ValueOf(Extract(address, 8, 2)) = Privilege(csr[1])

\* An escape of 256 or more is next, at which the reading ends.
WideEscape ==
    /\ point = "string" /\ Len(text) > 1 /\ text[1] = "\\" /\ text[2] \in {"x", "u"}
    /\ NumericEscape(NumericBase).value >= 256

\* The program reads behind the end of a line exactly for a directive with no
\* white space behind its name and for an open string that ends in a
\* backslash, unless an escape ends the program first (directives.c:46 and
\* :115).
OverreadExactly ==
    /\ overread => RunsOver(written, Dotted)
    /\ RunsOver(written, Dotted) =>
            \/ overread
            \/ point \notin {"parsed", "written", "refused"} /\ (Running \/ WideEscape)

\* The characters of a string fit in the block of strlen(str) - 1 bytes that
\* was made for them, the NUL behind them included, as long as the string ends
\* where the line does (directives.c:130).
StringFits ==
    \A k \in DOMAIN made.strings :
        ~overread => Len(made.strings[k].bytes)
                        + (IF point = "string" THEN 0 ELSE 1) <= room
=============================================================================
