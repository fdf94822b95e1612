------------------------------- MODULE Words -------------------------------
(***************************************************************************)
(* 32-bit machine words as the sets of the bits that are 1: bitwise or is  *)
(* union, a mask is an intersection, a shift moves the elements and drops  *)
(* those that leave the word.  uint32_t arithmetic in form/*.c is of this  *)
(* kind only.                                                              *)
(***************************************************************************)
EXTENDS Integers, FiniteSetsExt

Bit == 0 .. 31
Word == SUBSET Bit

\* Two's complement: \div rounds down and % is never negative.
BitsOf(n) ==
    {b \in 0 .. 30 : (n \div 2 ^ b) % 2 = 1} \cup (IF n < 0 THEN {31} ELSE {})

ShiftLeft(w, k) == {b \in Bit : b - k \in w}

\* (w >> lo) & (2^n - 1)
Extract(w, lo, n) == {b \in 0 .. n - 1 : b + lo \in w}

\* What the bits below bit 31 stand for, read as a number without a sign.
ValueOf(w) == MapThenSumSet(LAMBDA b : 2 ^ b, w)

\* The same for n < 32 bits in two's complement.
SignedValueOf(w, n) ==
    ValueOf(w \ {n - 1}) - (IF n - 1 \in w THEN 2 ^ (n - 1) ELSE 0)
=============================================================================
