---------------------------- MODULE MCAssembler ----------------------------
(* Small sources for Assembler: two names, an empty string and one whose    *)
(* length is no multiple of the alignment of .text.                         *)
EXTENDS Assembler

CONSTANTS aa, bb, empty, abc

MCName == {aa, bb}
MCNameSz == [n \in Name |-> IF n = aa THEN 2 ELSE 3]

\* The names in buckets of their own, and sharing one.
MCApart == [n \in Name |-> IF n = aa THEN 1 ELSE 0]
MCTogether == [n \in Name |-> 0]

MCStrings == {empty, abc}
MCStrLen == [s \in Strings |-> IF s = empty THEN 0 ELSE 3]
=============================================================================
