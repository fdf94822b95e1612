------------------------------- MODULE Lines -------------------------------
(***************************************************************************)
(* A line of a source as its author means it: labels, a body, which is an  *)
(* instruction, a directive or nothing, and what stands before and behind  *)
(* them, blanks and comments.  Rendered gives the text of a line; the rest *)
(* says what is expected of an assembler that reads it.                    *)
(*                                                                         *)
(* A character of a string is a record: the lexemes it is written as, and  *)
(* the code that is meant.                                                 *)
(***************************************************************************)
EXTENDS Isa

CONSTANT
    Written  \* the lines that are looked at

NoBody == [kind |-> "none"]
InsnBody(name, operands) == [kind |-> "insn", name |-> name, operands |-> operands]
SelectBody(section) == [kind |-> "section", name |-> section]
GlobalBody(name) == [kind |-> "globl", name |-> name]
StringBody(directive, chars) ==
    [kind |-> "string", directive |-> directive, chars |-> chars]
RawBody(lexemes) == [kind |-> "raw", lexemes |-> lexemes]

\* What opens and closes a string.
Quote == "\""

Char(code, lexemes) == [code |-> code, lexemes |-> lexemes]

-----------------------------------------------------------------------------
(* The text of a line.                                                     *)

Flat(parts) ==
    LET joined[k \in 0 .. Len(parts)] ==
            IF k = 0 THEN <<>> ELSE joined[k - 1] \o parts[k]
    IN  joined[Len(parts)]

Commas(operands) ==
    Flat([k \in DOMAIN operands |->
            (IF k = 1 THEN <<" ">> ELSE IF operands[k] = <<>> THEN <<",">>
             ELSE <<",", " ">>) \o operands[k]])

BodyText(b) ==
    CASE b.kind = "none" -> <<>>
      [] b.kind = "insn" -> <<b.name>> \o Commas(b.operands)
      [] b.kind = "section" -> <<".section", " ", b.name>>
      [] b.kind = "globl" -> <<".globl", " ", b.name>>
      [] b.kind = "string" ->
            <<b.directive, " ", Quote>>
            \o Flat([k \in DOMAIN b.chars |-> b.chars[k].lexemes]) \o <<Quote>>
      [] b.kind = "raw" -> b.lexemes

\* What stands in front of the body, and the body with what stands behind it.
Heading(w) == w.lead \o Flat([k \in DOMAIN w.labels |-> <<w.labels[k], ":", " ">>])
Content(w) == BodyText(w.body) \o w.trail

Rendered(w) == Heading(w) \o Content(w)

-----------------------------------------------------------------------------
(* What is expected of an assembler that reads the line.                   *)

\* Nothing, or at once a semicolon, behind the body.
IsPlain(w) == w.trail = <<>> \/ w.trail[1] = ";"

\* The body of the line and what follows it, but for a comment behind a
\* semicolon.
Statement(w) ==
    LET t == Content(w)
        ends == {k \in DOMAIN t : t[k] = ";"} \cup {Len(t) + 1}
    IN  SubSeq(t, 1, Min(ends) - 1)

\* The label the instruction refers to.
Refers(b) ==
    {b.operands[Len(b.operands)] : kinds \in
        {s \in Signatures(b.name) :
            s # <<>> /\ Len(s) = Len(b.operands) /\ s[Len(s)] = "sym"}}

\* A number strtol with base 0 does not know, at a place where it is asked.
Unreadable(b) ==
    \E k \in DOMAIN b.operands, kinds \in Signatures(b.name) :
        /\ Len(kinds) = Len(b.operands) /\ kinds[k] \in {"addr", "zaddr", "csr"}
        /\ b.operands[k] # <<>> /\ b.operands[k][1] \in DOMAIN Literal
        /\ Literal[b.operands[k][1]].prefix \in {"0b", "0o"}

\* A string whose characters are neither cut off by a semicolon nor taken for
\* digits of an escape.
Hexadecimal == {"0", "1", "2", "3", "4", "5", "6", "7", "8", "9", "a", "b", "c",
                "d", "e", "f", "A", "B", "C", "D", "E", "F"}
IsNumericEscape(c) == Len(c.lexemes) > 1 /\ c.lexemes[2] \in {"x", "u"}
CleanString(chars) ==
    \A k \in DOMAIN chars :
        /\ ";" \notin {chars[k].lexemes[j] : j \in DOMAIN chars[k].lexemes}
        /\ k > 1 /\ IsNumericEscape(chars[k - 1]) =>
                chars[k].lexemes[1] \notin Hexadecimal

Proper(b) ==
    CASE b.kind = "insn" -> WellFormed(b.name, b.operands)
      [] b.kind = "section" -> b.name \in {".text", ".data"}
      [] b.kind = "string" -> CleanString(b.chars)
      [] b.kind \in {"none", "globl"} -> TRUE
      [] b.kind = "raw" -> FALSE

\* The trails that turn an instruction into a label, or that become part of a
\* name.
Misleading(w) ==
    LET t == Statement([w EXCEPT !.body = NoBody])
    IN  /\ t # <<>>
        /\ \/ w.body.kind = "globl"
           \/ /\ w.body.kind = "insn"
              /\ \/ Refers(w.body) # {}
                 \/ ":" \in {t[k] : k \in DOMAIN t}

\* The operands that pass for what they are not: a word that begins with an x
\* for a register, anything that begins with a digit for a number, and any text
\* for the name of a label.
PassesFor(kind, o) ==
    \/ IsOfKind(kind, o) \/ kind = "sym"
    \/ /\ kind = "reg" /\ o # <<>> /\ o[1] \in DOMAIN XValue
       /\ Characters(o) <= 4 /\ XValue[o[1]] \in 0 .. 31
    \/ /\ kind = "num" /\ o # <<>> /\ o[1] \in DOMAIN Literal
       /\ Literal[o[1]].digits[1] < LiteralBase(Literal[o[1]])

\* The malformed instructions that may be taken all the same: empty operands are
\* passed over, a handler that expects none overlooks one, and jalr may have none.
Tolerated(name, operands) ==
    LET o == SelectSeq(operands, LAMBDA operand : operand # <<>>)
    IN  \/ \E kinds \in Signatures(name) :
            Len(kinds) = Len(o) /\ \A k \in DOMAIN o : PassesFor(kinds[k], o[k])
        \/ <<>> \in Signatures(name) /\ name # "fence" /\ Len(o) = 1
        \/ name = "jalr" /\ o = <<>>

\* The statements with which the reading runs over the end of the line: a
\* directive with no white space behind its name, and a string that is not
\* closed and ends in a backslash.
White == {" ", "\t", "\r"}
BackslashesBefore(t, k) ==
    LET others == {j \in 1 .. k - 1 : t[j] # "\\"} \cup {0}
    IN  k - 1 - Max(others)
OpensAt(t, q) ==
    /\ t[1] \in {".string", ".asciz", ".ascii"} /\ t[2] \in White /\ t[q] = Quote
    /\ \A k \in 3 .. q - 1 : t[k] \in White
OpenString(t) ==
    \E q \in 3 .. Len(t) :
        /\ OpensAt(t, q)
        /\ \A k \in q + 1 .. Len(t) :
                t[k] = Quote => BackslashesBefore(t, k) % 2 = 1
RunsOver(w, dotted) ==
    LET t == Statement(w)
    IN  /\ t # <<>> /\ t[1] \in dotted
        /\ \/ \A k \in DOMAIN t : t[k] \notin White
           \/ OpenString(t) /\ BackslashesBefore(t, Len(t) + 1) % 2 = 1
=============================================================================
