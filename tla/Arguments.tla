----------------------------- MODULE Arguments -----------------------------
(***************************************************************************)
(* The reading of a line's text: stringutil.c, and the handlers of parse.c *)
(* that make the arguments of an instruction of its operands.              *)
(*                                                                         *)
(* A text is a sequence of lexemes: a blank, one of the characters the     *)
(* code looks for, a comment sign, or a word without any of these.  A      *)
(* handler gives the error it reports or the arguments it has read: it     *)
(* reports at level ERROR, which ends the program, so the first error is   *)
(* all that is left of the others.                                         *)
(***************************************************************************)
EXTENDS Registers, Words, SequencesExt

Blanks == {" ", "\t", "\r"}
Terminating == {";", "\n"}

-----------------------------------------------------------------------------
(* Texts.                                                                  *)

\* The text before the first of these lexemes, and that behind it.
FirstOf(text, marks) ==
    LET at == {k \in DOMAIN text : text[k] \in marks}
    IN  IF at = {} THEN Len(text) + 1 ELSE Min(at)
UpTo(text, marks) == SubSeq(text, 1, FirstOf(text, marks) - 1)
Behind(text, marks) == SubSeq(text, FirstOf(text, marks) + 1, Len(text))

FirstNonblank(text) ==
    LET at == {k \in DOMAIN text : text[k] \notin Blanks}
    IN  IF at = {} THEN Len(text) + 1 ELSE Min(at)

\* Mutant: a semicolon does not end a line.
trim_whitespaceWhole(str) ==
    UpTo(SubSeq(str, FirstNonblank(str), Len(str)), {"\n"})

\* Blanks at the end stay: the search for them starts at the terminating
\* character, which is none.
trim_whitespace(str) ==
    UpTo(SubSeq(str, FirstNonblank(str), Len(str)), Terminating)

\* strtok with a comma: the parts between commas that are not empty.
Separated(argstr) ==
    LET Extended(parts, lexeme) ==
            IF lexeme = "," THEN Append(parts, <<>>)
            ELSE Append(Front(parts), Append(Last(parts), lexeme))
    IN  SelectSeq(FoldLeft(Extended, <<<<>>>>, argstr), LAMBDA part : part # <<>>)

trim_args(argstr) ==
    LET parts == Separated(argstr)
    IN  [k \in DOMAIN parts |-> trim_whitespace(parts[k])]

-----------------------------------------------------------------------------
(* Operands.  Read is a failure, or the fields of struct args it sets.     *)

Failed(id) == [error |-> id]
Read(args) == [error |-> "no_error", args |-> args]
IsError(result) == result.error # "no_error"

empty_args == [rd |-> 0, rs1 |-> 0, rs2 |-> 0, imm |-> {}, sym |-> {}]

expect_reg(arg, field) ==
    LET reg == GetRegisterId(arg)
    IN  IF reg = NoRegister THEN Failed("error_instruction_other")
        ELSE Read(field :> reg)

expect_imm(arg) ==
    LET imm == GetImmediate(arg)
    IN  IF ~imm.ok THEN Failed("error_instruction_other")
        ELSE Read("imm" :> BitsOf(imm.value))

expect_csr(arg) ==
    LET csr == GetCsr(arg)
    IN  IF csr = NoCsr THEN Failed("error_instruction_other")
        ELSE Read("imm" :> BitsOf(csr))

\* The offset may be left out; nothing may follow the parenthesis.
expect_offreg(arg) ==
    LET numbered == arg # <<>> /\ arg[1] \in DOMAIN Literal
        offset == IF numbered THEN StrtolBaseZero(Literal[arg[1]]) ELSE 0
        rest == IF numbered THEN Tail(arg) ELSE arg
        opened == SubSeq(rest, FirstNonblank(rest), Len(rest))
        reg == GetRegisterId(UpTo(Tail(opened), {")"}))
    IN  IF \/ numbered /\ ~StrtolTakesAll(Literal[arg[1]])
           \/ opened = <<>> \/ opened[1] # "("
           \/ FirstOf(opened, {")"}) # Len(opened)
           \/ reg = NoRegister
        THEN Failed("error_instruction_other")
        ELSE Read(("rs1" :> reg) @@ ("imm" :> BitsOf(offset)))

get_symbol(arg) == Read("sym" :> {arg})

\* The immediate of csrrwi and its like takes the place of a register.
InRegister(imm) ==
    IF IsError(imm) THEN imm
    ELSE Read("rs1" :> ValueOf(Extract(imm.args.imm, 0, 5)))

\* "Optional integer offset must be zero"
Unshifted(offreg) ==
    IF ~IsError(offreg) /\ offreg.args.imm # {}
    THEN Failed("error_invalid_instruction") ELSE offreg

\* An operand by what it is expected to be.
Expect(kind, arg) ==
    CASE kind \in {"rd", "rs1", "rs2"} -> expect_reg(arg, kind)
      [] kind = "imm" -> expect_imm(arg)
      [] kind = "csr" -> expect_csr(arg)
      [] kind = "offset" -> expect_offreg(arg)
      [] kind = "sym" -> get_symbol(arg)
      [] kind = "uimm" -> InRegister(expect_imm(arg))
      [] kind = "address" -> Unshifted(expect_offreg(arg))

\* The operands are read in turn; the first error ends the program.  Each sets
\* fields of its own.
Collected(operands, defaults) ==
    LET wrong == {k \in DOMAIN operands : IsError(operands[k])}
        Setting(field) == {k \in DOMAIN operands : field \in DOMAIN operands[k].args}
    IN  IF wrong # {} THEN operands[Min(wrong)]
        ELSE Read([field \in DOMAIN defaults |->
                    IF Setting(field) = {} THEN defaults[field]
                    ELSE operands[Max(Setting(field))].args[field]])

\* Mutant: arguments behind the last one are not looked for.
ExpectFirst(kinds, args, defaults) ==
    IF Len(args) < Len(kinds) THEN Failed("error_instruction_other")
    ELSE Collected([k \in DOMAIN kinds |-> Expect(kinds[k], args[k])], defaults)

\* expect_one_arg, expect_two_args or expect_three_args, and then the operands.
ExpectAll(kinds, args, defaults) ==
    IF Len(args) # Len(kinds) THEN Failed("error_instruction_other")
    ELSE Collected([k \in DOMAIN kinds |-> Expect(kinds[k], args[k])], defaults)

-----------------------------------------------------------------------------
(* The handlers.  What most of them expect is the order of their operands.  *)

parse_rtype  == <<"rd", "rs1", "rs2">>
parse_itype  == <<"rd", "rs1", "imm">>
parse_ltype  == <<"rd", "offset">>
parse_stype  == <<"offset", "rs2">>
parse_utype  == <<"rd", "imm">>
parse_btype  == <<"rs1", "rs2", "sym">>
parse_bztype == <<"rs1", "sym">>
parse_pseudo == <<"rd", "rs1">>
parse_la     == <<"rd", "sym">>
parse_li     == <<"rd", "imm">>
parse_j      == <<"sym">>
parse_jr     == <<"rs1">>
parse_al     == <<"rd", "address">>
parse_as     == <<"rd", "rs2", "address">>
parse_csr    == <<"rd", "csr", "rs1">>
parse_csri   == <<"rd", "csr", "uimm">>

\* jal symbol links to ra, as jal ra, symbol does; so does jalr register.
parse_jal(n)  == IF n = 1 THEN <<"sym">> ELSE <<"rd", "sym">>
parse_jalr(n) == IF n = 1 THEN <<"rs1">> ELSE <<"rd", "rs1", "imm">>
Linked == [empty_args EXCEPT !.rd = 1]

\* What a handler expects of n operands.
Syntax(handler, n) ==
    CASE handler = "parse_rtype" -> parse_rtype
      [] handler = "parse_itype" -> parse_itype
      [] handler = "parse_ltype" -> parse_ltype
      [] handler = "parse_stype" -> parse_stype
      [] handler = "parse_utype" -> parse_utype
      [] handler = "parse_btype" -> parse_btype
      [] handler = "parse_bztype" -> parse_bztype
      [] handler = "parse_pseudo" -> parse_pseudo
      [] handler = "parse_la" -> parse_la
      [] handler = "parse_li" -> parse_li
      [] handler = "parse_j" -> parse_j
      [] handler = "parse_jr" -> parse_jr
      [] handler = "parse_al" -> parse_al
      [] handler = "parse_as" -> parse_as
      [] handler = "parse_csr" -> parse_csr
      [] handler = "parse_csri" -> parse_csri
      [] handler = "parse_jal" -> parse_jal(n)
      [] handler = "parse_jalr" -> parse_jalr(n)

\* Only a comma shows them that there is an argument.
parse_none(argstr) ==
    IF FirstOf(argstr, {","}) <= Len(argstr) THEN Failed("error_instruction_other")
    ELSE Read(empty_args)
parse_ftso(argstr) ==
    IF IsError(parse_none(argstr)) THEN parse_none(argstr)
    ELSE Read([empty_args EXCEPT !.imm = BitsOf(\h833)])

\* The words of letters of "iorw" in that order, by the number they stand for.
FenceWord(n) ==
    (IF n \div 8 = 1 THEN "i" ELSE "") \o (IF (n \div 4) % 2 = 1 THEN "o" ELSE "")
    \o (IF (n \div 2) % 2 = 1 THEN "r" ELSE "") \o (IF n % 2 = 1 THEN "w" ELSE "")
parse_fence_arg(arg) ==
    LET fits == {n \in 0 .. 15 :
                    \/ arg = <<FenceWord(n)>>
                    \/ n = 0 /\ arg = <<>>}
    IN  IF fits = {} THEN Failed("error_instruction_other")
        ELSE Read("imm" :> BitsOf(Min(fits)))

parse_fence(args) ==
    LET sets == [k \in DOMAIN args |-> parse_fence_arg(args[k])]
    IN  IF args = <<>> THEN Read([empty_args EXCEPT !.imm = 0 .. 7])
        ELSE IF Len(args) # 2 \/ \E k \in DOMAIN args : IsError(sets[k])
        THEN Failed("error_instruction_other")
        ELSE Read([empty_args EXCEPT !.imm =
                    ShiftLeft(sets[1].args.imm, 4) \cup sets[2].args.imm])

Links(handler) == handler \in {"parse_jal", "parse_jalr"}

\* Without arguments the complaint of jalr has level DEBUG, and the program
\* goes on; that of jal has another id than those of missing arguments.
arg_handler(handler, argstr) ==
    LET args == trim_args(argstr)
    IN  CASE handler = "parse_none" -> parse_none(argstr)
          [] handler = "parse_ftso" -> parse_ftso(argstr)
          [] handler = "parse_fence" -> parse_fence(args)
          [] handler = "parse_jal" /\ args = <<>> -> Failed("error_invalid_instruction")
          [] handler = "parse_jalr" /\ args = <<>> -> Read(empty_args)
          [] OTHER -> ExpectAll(Syntax(handler, Len(args)), args,
                                IF Links(handler) /\ Len(args) = 1 THEN Linked
                                ELSE empty_args)
=============================================================================
