------------------------------ MODULE Lexemes ------------------------------
(***************************************************************************)
(* The words of a source that the code looks into.  A text is a sequence   *)
(* of lexemes: blanks, the characters the code looks for, and words.  Two  *)
(* kinds of words are described here: a number, by its sign, its prefix    *)
(* and its digits, and a word that begins with an x, by what atol makes of *)
(* the rest of it.                                                         *)
(***************************************************************************)
EXTENDS Integers, Sequences

CONSTANTS
    Literal,  \* lexemes that begin with a digit or a minus sign
    XValue    \* lexemes that begin with an x

ASSUME LexemesAssumption ==
    /\ \A n \in DOMAIN Literal :
        /\ Literal[n].neg \in BOOLEAN
        /\ Literal[n].prefix \in {"", "0b", "0o", "0x"}
        /\ Literal[n].digits \in Seq(0 .. 15)
        /\ Literal[n].prefix = "" => Literal[n].digits # <<>>
    /\ \A x \in DOMAIN XValue : XValue[x] \in Int
=============================================================================
