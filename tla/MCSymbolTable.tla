----------------------------- MODULE MCSymbolTable -----------------------------
(* The symbol table with three names, two of which share a bucket.         *)
EXTENDS SymbolTable, TLC

CONSTANTS aa, bb, cc

MCName == {aa, bb, cc}
MCNameSz == [n \in MCName |-> 2]
MCHash == aa :> 0 @@ bb :> 0 @@ cc :> 1
=============================================================================
