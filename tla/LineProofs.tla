----------------------------- MODULE LineProofs -----------------------------
(***************************************************************************)
(* What is proved of Line, for every line and whatever lies in memory      *)
(* behind it.                                                              *)
(*                                                                         *)
(* A line whose reading does not run over its end never copies more        *)
(* characters of its string than the block made for them holds.  The block *)
(* is measured once, by the length of the argument with its quotes, and    *)
(* filled a character at a time.  So the invariant counts what is still to *)
(* be read together with what has been copied: every step takes at least   *)
(* one lexeme of the text for the byte it stores, and the closing quote    *)
(* pays for the NUL.                                                       *)
(*                                                                         *)
(* The reading runs over the end of exactly the lines that RunsOver says   *)
(* it does.  The invariant keeps the place in the line at which each       *)
(* handler reads: parse_line at the start or behind a label's colon, the   *)
(* directives at the start of the statement, and the copying of a string   *)
(* at a character that no backslash escapes, all quotes before which are   *)
(* escaped.                                                                *)
(*                                                                         *)
(* What is made keeps its types and its sizes.  Each row of the tables of  *)
(* mnemonics is sound: its handlers exist, and its form makes as many      *)
(* words as its size announces.  Operands report errors there are, a       *)
(* numeric escape that is no byte stores a NUL, and every other character  *)
(* of a string has a code.                                                 *)
(***************************************************************************)
EXTENDS Line, WellFoundedInduction, TLAPS

\* A set of natural numbers that is not empty has a least element.
LEMMA HasLeast ==
    ASSUME NEW S \in SUBSET Nat, S # {}
    PROVE  \E x \in S : \A y \in S : x <= y
<1>1. PICK x \in S : \A y \in S : ~(<<y, x>> \in OpToRel(<, Nat))
  BY NatLessThanWellFounded, WFMin
<1>2. \A y \in S : ~(y < x)
  BY <1>1 DEF OpToRel
<1> QED
  BY <1>2

\* The place of the first of these lexemes is in the text or just behind it.
LEMMA FirstOfPlace ==
    ASSUME NEW T, NEW t \in Seq(T), NEW marks
    PROVE  FirstOf(t, marks) \in 1 .. Len(t) + 1
<1> DEFINE at == {k \in DOMAIN t : t[k] \in marks}
<1>1. CASE at = {}
  BY <1>1 DEF FirstOf
<1>2. CASE at # {}
  <2>1. at \in SUBSET Nat /\ at \subseteq 1 .. Len(t)
    OBVIOUS
  <2>2. \E x \in at : \A y \in at : x <= y
    BY <1>2, <2>1, HasLeast
  <2>3. Min(at) \in at
    BY <2>2 DEF Min
  <2> QED
    BY <1>2, <2>1, <2>3 DEF FirstOf
<1> QED
  BY <1>1, <1>2

LEMMA FirstNonblankPlace ==
    ASSUME NEW T, NEW t \in Seq(T)
    PROVE  FirstNonblank(t) \in 1 .. Len(t) + 1
<1> DEFINE at == {k \in DOMAIN t : t[k] \notin Blanks}
<1>1. CASE at = {}
  BY <1>1 DEF FirstNonblank
<1>2. CASE at # {}
  <2>1. at \in SUBSET Nat /\ at \subseteq 1 .. Len(t)
    OBVIOUS
  <2>2. \E x \in at : \A y \in at : x <= y
    BY <1>2, <2>1, HasLeast
  <2>3. Min(at) \in at
    BY <2>2 DEF Min
  <2> QED
    BY <1>2, <2>1, <2>3 DEF FirstNonblank
<1> QED
  BY <1>1, <1>2

\* A part of a text is a text, no longer than the range it was taken from.
LEMMA PartOfText ==
    ASSUME NEW T, NEW t \in Seq(T), NEW m \in Nat \ {0}, NEW n \in 0 .. Len(t)
    PROVE  /\ SubSeq(t, m, n) \in Seq(T)
           /\ Len(SubSeq(t, m, n)) = IF m <= n THEN n - m + 1 ELSE 0
  OBVIOUS

LEMMA TailText ==
    ASSUME NEW T, NEW t \in Seq(T), t # <<>>
    PROVE  Tail(t) \in Seq(T) /\ Len(Tail(t)) = Len(t) - 1 /\ Len(t) \in Nat \ {0}
  OBVIOUS

LEMMA UpToText ==
    ASSUME NEW T, NEW t \in Seq(T), NEW marks
    PROVE  UpTo(t, marks) \in Seq(T)
<1>1. FirstOf(t, marks) - 1 \in 0 .. Len(t)
  BY FirstOfPlace
<1> QED
  BY <1>1, PartOfText DEF UpTo

LEMMA BehindText ==
    ASSUME NEW T, NEW t \in Seq(T), NEW marks
    PROVE  Behind(t, marks) \in Seq(T)
<1>1. FirstOf(t, marks) + 1 \in Nat \ {0}
  BY FirstOfPlace
<1>2. Len(t) \in 0 .. Len(t)
  OBVIOUS
<1> QED
  BY <1>1, <1>2, PartOfText DEF Behind

LEMMA TrimmedText ==
    ASSUME NEW T, NEW t \in Seq(T)
    PROVE  trim_whitespace(t) \in Seq(T)
<1>1. FirstNonblank(t) \in Nat \ {0}
  BY FirstNonblankPlace
<1>2. Len(t) \in 0 .. Len(t)
  OBVIOUS
<1>3. SubSeq(t, FirstNonblank(t), Len(t)) \in Seq(T)
  BY <1>1, <1>2, PartOfText
<1> QED
  BY <1>3, UpToText DEF trim_whitespace

\* strtol finds an end to the digits it takes.
LEMMA TakenCounts ==
    ASSUME NEW digits \in Seq(Int), NEW base \in Int
    PROVE  /\ Taken(digits, base) \in 0 .. Len(digits)
           /\ \A k \in 1 .. Taken(digits, base) : digits[k] < base
<1> DEFINE Ends(n) == /\ \A k \in 1 .. n : digits[k] < base
                      /\ n < Len(digits) => digits[n + 1] >= base
           past == {m \in 0 .. Len(digits) - 1 : digits[m + 1] >= base}
<1>1. /\ past \in SUBSET Nat
      /\ \A m \in past : m < Len(digits) /\ digits[m + 1] >= base
      /\ \A k \in 1 .. Len(digits) : digits[k] < base \/ k - 1 \in past
  <2>1. ASSUME NEW k \in 1 .. Len(digits)
        PROVE  digits[k] < base \/ k - 1 \in past
    <3>1. k - 1 \in 0 .. Len(digits) - 1 /\ (k - 1) + 1 = k /\ digits[k] \in Int
      OBVIOUS
    <3> QED
      BY <3>1
  <2> QED
    BY <2>1
<1> HIDE DEF past
<1>2. CASE past = {}
  <2>1. Ends(Len(digits))
    BY <1>1, <1>2
  <2> HIDE DEF Ends
  <2>2. \E n \in 0 .. Len(digits) : Ends(n)
    BY <2>1
  <2> QED
    BY <2>2 DEF Taken, Ends
<1>3. CASE past # {}
  <2>1. PICK n \in past : \A y \in past : n <= y
    BY <1>1, <1>3, HasLeast
  <2>2. n \in Nat /\ n < Len(digits) /\ digits[n + 1] >= base
    BY <1>1
  <2>3. \A k \in 1 .. n : digits[k] < base
    BY <1>1, <2>1, <2>2
  <2>4. Ends(n) /\ n \in 0 .. Len(digits)
    BY <2>2, <2>3
  <2> HIDE DEF Ends
  <2>5. \E m \in 0 .. Len(digits) : Ends(m)
    BY <2>4
  <2> QED
    BY <2>5 DEF Taken, Ends
<1> QED
  BY <1>2, <1>3

LEMMA HexDigits == \A digit \in DOMAIN HexDigit : HexDigit[digit] \in 0 .. 15
  BY LineAssumption

\* A numeric escape takes some of the digits there are behind its letter.
LEMMA EscapeSize ==
    ASSUME text \in Seq(STRING), Len(text) > 1, NEW base \in {8, 16}
    PROVE  NumericEscape(base).size \in Nat
<1> DEFINE digits == [k \in 1 .. Len(text) - 2 |->
                        IF text[k + 2] \in DOMAIN HexDigit THEN HexDigit[text[k + 2]]
                        ELSE base]
<1>1. \A k \in 1 .. Len(text) - 2 : digits[k] \in Int
  BY HexDigits
<1>2. digits \in Seq(Int)
  BY <1>1
<1> HIDE DEF digits
<1>3. Taken(digits, base) \in Nat
  BY <1>2, TakenCounts
<1>4. NumericEscape(base).size = Taken(digits, base)
  BY DEF NumericEscape, digits
<1> QED
  BY <1>3, <1>4

-----------------------------------------------------------------------------
(* The invariant.                                                          *)

\* The line has made one string, whose bytes are a sequence.
OneString ==
    /\ DOMAIN made.strings = {1}
    /\ "bytes" \in DOMAIN made.strings[1]
    /\ Bytes \in Seq(ToSet(Bytes))

\* What is still to be read counts against the block as long as the string is
\* open, the NUL once it is closed.
Paid ==
    ~overread =>
        Len(Bytes) + (IF point = "string" THEN Len(text) ELSE 1) <= room

FitsInv ==
    /\ text \in Seq(STRING)
    /\ overread \in BOOLEAN
    /\ room \in Int
    /\ "strings" \in DOMAIN made
    /\ \/ made.strings = <<>> /\ point # "string"
       \/ OneString /\ Paid /\ point \in {"string", "parsed", "written"}

LEMMA FitsEnough == FitsInv => StringFits
<1> SUFFICES ASSUME FitsInv, NEW k \in DOMAIN made.strings, ~overread
             PROVE  Len(made.strings[k].bytes)
                        + (IF point = "string" THEN 0 ELSE 1) <= room
  BY DEF StringFits
<1>1. OneString /\ Paid
  BY DEF FitsInv
<1>2. k = 1 /\ Bytes \in Seq(ToSet(Bytes)) /\ Len(Bytes) \in Nat /\ Len(text) \in Nat
  BY <1>1 DEF OneString, FitsInv
<1> HIDE DEF Bytes
<1>3. Len(Bytes) + (IF point = "string" THEN 0 ELSE 1) <= room
  BY <1>1, <1>2 DEF Paid, FitsInv
<1> QED
  BY <1>2, <1>3 DEF Bytes

\* One more byte, paid for by the lexemes it was read from.
LEMMA StorePays ==
    ASSUME FitsInv, Copying, NEW byte, Store(byte), point' = point, room' = room,
           overread' \in BOOLEAN, text' \in Seq(STRING),
           ~overread' => ~overread /\ Len(text') < Len(text)
    PROVE  FitsInv'
<1> DEFINE longer == Append(Bytes, byte)
<1>1. OneString /\ Paid /\ point = "string"
  BY DEF FitsInv, Copying
<1>2. /\ DOMAIN made' = DOMAIN made
      /\ DOMAIN made'.strings = {1}
      /\ DOMAIN made'.strings[1] = DOMAIN made.strings[1]
      /\ made'.strings[1].bytes = longer
  BY <1>1 DEF OneString, Store, FitsInv, Bytes
<1>3. /\ longer \in Seq(ToSet(longer))
      /\ Len(longer) = Len(Bytes) + 1
      /\ Len(Bytes) \in Nat
  <2>1. Bytes \in Seq(ToSet(Bytes))
    BY <1>1 DEF OneString
  <2> HIDE DEF Bytes
  <2>2. longer \in Seq(ToSet(Bytes) \cup {byte})
    BY <2>1
  <2>3. Len(longer) = Len(Bytes) + 1 /\ Len(Bytes) \in Nat
    BY <2>1
  <2>4. \A i \in 1 .. Len(longer) : longer[i] \in ToSet(longer)
    BY <2>2 DEF ToSet
  <2> HIDE DEF longer
  <2>5. longer \in Seq(ToSet(longer))
    BY <2>2, <2>4
  <2> QED
    BY <2>3, <2>5 DEF longer
<1>4. OneString'
  BY <1>1, <1>2, <1>3 DEF OneString, Bytes
<1>5. Bytes' = longer
  BY <1>2 DEF Bytes
<1> HIDE DEF longer
<1>6. Paid'
  <2> HIDE DEF Bytes
  <2>1. Len(text) \in Nat /\ Len(text') \in Nat /\ room \in Int
    BY DEF FitsInv
  <2> QED
    BY <1>1, <1>3, <1>5, <2>1 DEF Paid
<1> QED
  BY <1>1, <1>2, <1>4, <1>6 DEF FitsInv

\* A step that neither opens, fills nor closes a string.
LEMMA OtherPays ==
    ASSUME FitsInv, point # "string", point' # "string",
           text' \in Seq(STRING), overread' \in BOOLEAN, room' = room,
           DOMAIN made' = DOMAIN made, made'.strings = made.strings,
           made.strings = <<>> \/ (overread' = overread /\ point' \in {"parsed", "written"})
    PROVE  FitsInv'
<1>1. CASE made.strings = <<>>
  BY <1>1 DEF FitsInv
<1>2. CASE OneString /\ Paid /\ overread' = overread /\ point' \in {"parsed", "written"}
  <2>1. OneString'
    BY <1>2 DEF OneString, Bytes
  <2>2. Paid'
    BY <1>2 DEF Paid, Bytes
  <2> QED
    BY <1>2, <2>1, <2>2 DEF FitsInv
<1> QED
  BY <1>1, <1>2 DEF FitsInv

LEMMA ScanEndsTexts ==
    ASSUME FitsInv, NEW rest \in ScanEnds
    PROVE  trim_whitespace(rest) \in Seq(STRING)
<1>1. rest \in Seq(STRING)
  BY BehindText, LineAssumption DEF ScanEnds, FitsInv
<1> QED
  BY <1>1, TrimmedText

LEMMA FitsInit == Init => FitsInv
<1> SUFFICES ASSUME Init PROVE FitsInv
  OBVIOUS
<1>1. text \in Seq(STRING)
  <2>1. Heading(written) \in Seq(STRING) /\ Content(written) \in Seq(STRING)
    BY LineAssumption DEF Init
  <2> QED
    BY <2>1 DEF Init, Rendered
<1>2. "strings" \in DOMAIN made /\ made.strings = <<>>
  BY DEF Init, Nothing
<1>3. point # "string"
  BY DEF Init
<1>4. overread \in BOOLEAN
  BY DEF Init
<1>5. room \in Int
  BY DEF Init
<1> QED
  BY <1>1, <1>2, <1>3, <1>4, <1>5 DEF FitsInv

LEMMA FitsStep == FitsInv /\ [Next]_vars => FitsInv'
<1> SUFFICES ASSUME FitsInv, [Next]_vars PROVE FitsInv'
  OBVIOUS
<1> USE DEF lineVars
<1>1. ASSUME parse_line PROVE FitsInv'
  <2>1. text' \in Seq(STRING)
    BY <1>1, TrimmedText DEF parse_line, FitsInv
  <2>2. made.strings = <<>> /\ made' = made /\ overread' = overread
        /\ room' = room /\ point = "line" /\ point' = "trimmed"
    BY <1>1 DEF parse_line, FitsInv
  <2> QED
    BY <2>1, <2>2, OtherPays DEF FitsInv
<1>2. ASSUME ParseBlank PROVE FitsInv'
  <2>1. /\ made.strings = <<>> /\ made' = made /\ overread' = overread
        /\ text' = text /\ room' = room /\ point = "trimmed" /\ point' = "parsed"
    BY <1>2 DEF ParseBlank, Reading, Succeed, FitsInv
  <2> QED
    BY <2>1, OtherPays DEF FitsInv
<1>3. ASSUME parse_label PROVE FitsInv'
  <2>1. text' \in Seq(STRING)
    BY <1>3, BehindText DEF parse_label, FitsInv
  <2>2. /\ made.strings = <<>> /\ overread' = overread
        /\ room' = room /\ point = "trimmed" /\ point' = "line"
    BY <1>3 DEF parse_label, Reading, FitsInv
  <2>3. DOMAIN made' = DOMAIN made /\ made'.strings = made.strings
    BY <1>3 DEF parse_label, FitsInv
  <2> QED
    BY <2>1, <2>2, <2>3, OtherPays DEF FitsInv
<1>4. ASSUME ScanFaults PROVE FitsInv'
  <2>1. /\ made.strings = <<>> /\ made' = made /\ overread' = TRUE /\ text' = text
        /\ room' = room /\ point = "trimmed" /\ point' = "trimmed"
    BY <1>4 DEF ScanFaults, Reading, FitsInv
  <2> QED
    BY <2>1, OtherPays DEF FitsInv
<1>5. ASSUME UnknownDirective PROVE FitsInv'
  <2>1. /\ made.strings = <<>> /\ made' = made /\ overread' \in BOOLEAN
        /\ text' = text /\ room' = room /\ point = "trimmed" /\ point' = "trimmed"
    BY <1>5 DEF UnknownDirective, Reading, Scanned, FitsInv
  <2> QED
    BY <2>1, OtherPays DEF FitsInv
<1>6. ASSUME NEW args \in Seq(STRING), parse_section(args) PROVE FitsInv'
  <2>1. /\ made.strings = <<>> /\ overread' \in BOOLEAN
        /\ text' = text /\ room' = room /\ point = "trimmed"
        /\ point' \in {"parsed", "refused"}
    BY <1>6 DEF parse_section, ParseDirective, Reading, Scanned, FitsInv
  <2>2. DOMAIN made' = DOMAIN made /\ made'.strings = made.strings
    BY <1>6 DEF parse_section, FitsInv
  <2> QED
    BY <2>1, <2>2, OtherPays DEF FitsInv
<1>7. ASSUME NEW args \in Seq(STRING), parse_global(args) PROVE FitsInv'
  <2>1. /\ made.strings = <<>> /\ overread' \in BOOLEAN
        /\ text' = text /\ room' = room /\ point = "trimmed" /\ point' = "parsed"
    BY <1>7 DEF parse_global, ParseDirective, Reading, Scanned, FitsInv
  <2>2. DOMAIN made' = DOMAIN made /\ made'.strings = made.strings
    BY <1>7 DEF parse_global, FitsInv
  <2> QED
    BY <2>1, <2>2, OtherPays DEF FitsInv
<1>8. ASSUME NEW args \in Seq(STRING), NEW name \in Strings,
             parse_ascii_generic(name, args)
      PROVE  FitsInv'
  <2>1. made.strings = <<>> /\ overread' \in BOOLEAN /\ point = "trimmed"
    BY <1>8 DEF parse_ascii_generic, ParseDirective, Reading, Scanned, FitsInv
  <2>2. CASE args # <<>> /\ args[1] = Quote
    <3>1. /\ point' = "string" /\ text' = Tail(args) /\ room' = BlockSize(args)
          /\ made' = [made EXCEPT !.strings =
                Append(@, [nullterm |-> name # ".ascii", bytes |-> <<>>])]
      BY <1>8, <2>2 DEF parse_ascii_generic
    <3>2. /\ DOMAIN made' = DOMAIN made
          /\ made'.strings = <<[nullterm |-> name # ".ascii", bytes |-> <<>>]>>
      BY <2>1, <3>1 DEF FitsInv
    <3>3. OneString' /\ Bytes' = <<>>
      <4>1. DOMAIN made'.strings = {1} /\ "bytes" \in DOMAIN made'.strings[1]
            /\ made'.strings[1].bytes = <<>>
        BY <3>2
      <4>2. Bytes' = <<>>
        BY <4>1 DEF Bytes
      <4>3. <<>> \in Seq(ToSet(<<>>))
        OBVIOUS
      <4> QED
        BY <4>1, <4>2, <4>3 DEF OneString
    <3>4. /\ text' \in Seq(STRING) /\ room' \in Int
          /\ Len(text') = Len(args) - 1 /\ room' = Len(args) - 1
      <4>1. Tail(args) \in Seq(STRING) /\ Len(Tail(args)) = Len(args) - 1
            /\ Len(args) \in Nat
        BY <2>2, TailText
      <4> QED
        BY <3>1, <4>1 DEF BlockSize
    <3>5. Paid'
      BY <3>1, <3>3, <3>4 DEF Paid
    <3> QED
      BY <2>1, <3>1, <3>2, <3>3, <3>4, <3>5 DEF FitsInv
  <2>3. CASE args = <<>> \/ args[1] # Quote
    <3>1. /\ point' \in {"refused", point} /\ text' = text /\ room' = room
          /\ made' = made
      BY <1>8, <2>3 DEF parse_ascii_generic
    <3> QED
      BY <2>1, <3>1, OtherPays DEF FitsInv
  <2> QED
    BY <2>2, <2>3
<1>9. ASSUME CloseString PROVE FitsInv'
  <2>1. /\ OneString /\ Paid /\ point = "string" /\ text # <<>>
        /\ made' = made /\ text' = text /\ room' = room /\ overread' = overread
        /\ point' = "parsed"
    BY <1>9 DEF CloseString, Copying, Succeed, FitsInv
  <2>2. OneString' /\ Bytes' = Bytes
    BY <2>1 DEF OneString, Bytes
  <2>3. Len(text) \in Nat \ {0} /\ Len(Bytes) \in Nat /\ room \in Int
    <3>1. Bytes \in Seq(ToSet(Bytes))
      BY <2>1 DEF OneString
    <3> HIDE DEF Bytes
    <3> QED
      BY <2>1, <3>1 DEF FitsInv
  <2>4. Paid'
    <3> HIDE DEF Bytes
    <3> QED
      BY <2>1, <2>2, <2>3 DEF Paid
  <2> QED
    BY <2>1, <2>2, <2>4 DEF FitsInv
<1>10. ASSUME UnclosedString PROVE FitsInv'
  <2>1. UNCHANGED lineVars
    BY <1>10 DEF UnclosedString, Complain
  <2> QED
    BY <2>1 DEF FitsInv, OneString, Paid, Bytes
<1>11. ASSUME PlainChar PROVE FitsInv'
  <2>1. text \in Seq(STRING) /\ text # <<>> /\ text' = Tail(text)
    BY <1>11 DEF PlainChar, FitsInv
  <2>2. text' \in Seq(STRING) /\ Len(text') < Len(text)
    BY <2>1
  <2>3. /\ Copying /\ Store(Ascii[text[1]]) /\ point' = point /\ room' = room
        /\ overread' = overread
    BY <1>11 DEF PlainChar
  <2> QED
    BY <2>2, <2>3, StorePays DEF FitsInv
<1>12. ASSUME get_escapedchar PROVE FitsInv'
  <2>1. text \in Seq(STRING) /\ Len(text) > 1 /\ Copying
    BY <1>12 DEF get_escapedchar, FitsInv
  <2>2. CASE UNCHANGED lineVars
    BY <2>2 DEF FitsInv, OneString, Paid, Bytes
  <2>3. ASSUME NEW byte, NEW size \in Nat, Store(byte),
               text' = SubSeq(text, 3 + size, Len(text)),
               UNCHANGED <<written, point, room, overread, processVars>>
        PROVE  FitsInv'
    <3>1. 3 + size \in Nat \ {0} /\ Len(text) \in 0 .. Len(text)
      BY <2>1
    <3>2. text' \in Seq(STRING)
      BY <2>1, <2>3, <3>1, PartOfText
    <3>3. Len(text') = IF 3 + size <= Len(text) THEN Len(text) - (3 + size) + 1 ELSE 0
      BY <2>1, <2>3, <3>1, PartOfText
    <3>4. Len(text') < Len(text)
      BY <2>1, <3>3
    <3> QED
      BY <2>1, <2>3, <3>2, <3>4, StorePays DEF FitsInv
  <2>4. CASE text[2] \in {"x", "u"}
    <3>1. NumericEscape(NumericBase).size \in Nat
      BY <2>1, EscapeSize DEF NumericBase
    <3>2. \/ Complain("error_invalid_instruction")
          \/ /\ Store(NumericEscape(NumericBase).value)
             /\ text' = SubSeq(text, 3 + NumericEscape(NumericBase).size, Len(text))
             /\ UNCHANGED <<written, point, room, overread, processVars>>
      BY <1>12, <2>4 DEF get_escapedchar
    <3> QED
      BY <2>2, <2>3, <3>1, <3>2 DEF Complain
  <2>5. CASE text[2] \notin {"x", "u"}
    <3>1. /\ Store(Escaped(text[2]))
          /\ text' = SubSeq(text, 3 + 0, Len(text))
          /\ UNCHANGED <<written, point, room, overread, processVars>>
      BY <1>12, <2>5 DEF get_escapedchar
    <3>2. 0 \in Nat
      OBVIOUS
    <3> QED
      BY <2>3, <3>1, <3>2
  <2> QED
    BY <2>4, <2>5
<1>13. ASSUME EscapedEnd PROVE FitsInv'
  <2>1. /\ Copying /\ Store(0) /\ point' = point /\ room' = room /\ overread' = TRUE
        /\ text' \in Seq(STRING)
    BY <1>13, LineAssumption DEF EscapedEnd
  <2> QED
    BY <2>1, StorePays
<1>14. ASSUME EscapedEndFaults PROVE FitsInv'
  <2>1. UNCHANGED lineVars
    BY <1>14 DEF EscapedEndFaults
  <2> QED
    BY <2>1 DEF FitsInv, OneString, Paid, Bytes
<1>15. ASSUME UnknownInstruction PROVE FitsInv'
  <2>1. UNCHANGED lineVars
    BY <1>15 DEF UnknownInstruction, Complain
  <2> QED
    BY <2>1 DEF FitsInv, OneString, Paid, Bytes
<1>16. ASSUME parse_asm PROVE FitsInv'
  <2>1. CASE UNCHANGED lineVars
    BY <2>1 DEF FitsInv, OneString, Paid, Bytes
  <2>2. ASSUME NEW insns, Succeed([made EXCEPT !.insns = insns]) PROVE FitsInv'
    <3>1. /\ made.strings = <<>> /\ overread' = overread
          /\ text' = text /\ room' = room /\ point = "trimmed" /\ point' = "parsed"
      BY <1>16, <2>2 DEF parse_asm, Reading, Succeed, FitsInv
    <3>2. DOMAIN made' = DOMAIN made /\ made'.strings = made.strings
      BY <2>2 DEF Succeed, FitsInv
    <3> QED
      BY <3>1, <3>2, OtherPays DEF FitsInv
  <2> QED
    BY <1>16, <2>1, <2>2 DEF parse_asm, Complain
<1>17. ASSUME write_all_instructions PROVE FitsInv'
  <2>1. /\ overread' = overread /\ text' = text /\ room' = room
        /\ point = "parsed" /\ point' = "written"
    BY <1>17 DEF write_all_instructions
  <2>2. DOMAIN made' = DOMAIN made /\ made'.strings = made.strings
    BY <1>17 DEF write_all_instructions, FitsInv
  <2> QED
    BY <2>1, <2>2, OtherPays DEF FitsInv
<1>18. ASSUME UNCHANGED vars PROVE FitsInv'
  BY <1>18 DEF vars, FitsInv, OneString, Paid, Bytes
<1>19. ASSUME NEW args \in {trim_whitespace(rest) : rest \in ScanEnds},
              \/ parse_section(args)
              \/ parse_global(args)
              \/ \E name \in Strings : parse_ascii_generic(name, args)
       PROVE  FitsInv'
  <2>1. args \in Seq(STRING)
    BY ScanEndsTexts
  <2> QED
    BY <1>6, <1>7, <1>8, <1>19, <2>1
<1> QED
  BY <1>1, <1>2, <1>3, <1>4, <1>5, <1>9, <1>10, <1>11, <1>12, <1>13, <1>14, <1>15,
     <1>16, <1>17, <1>18, <1>19 DEF Next

-----------------------------------------------------------------------------

\* Whatever the lines and whatever lies in memory behind them, a string fits in
\* the block of strlen(str) - 1 bytes that was made for it, the NUL included, as
\* long as the reading does not pass the end of the line (directives.c:130).
THEOREM StringsFit == Spec => []StringFits
<1>1. Spec => []FitsInv
  BY FitsInit, FitsStep, PTL DEF Spec
<1> QED
  BY <1>1, FitsEnough, PTL

-----------------------------------------------------------------------------
(* Texts.                                                                  *)

\* What FirstOf gives is the first of these lexemes.
LEMMA FirstOfMeans ==
    ASSUME NEW T, NEW t \in Seq(T), NEW marks
    PROVE  /\ FirstOf(t, marks) \in 1 .. Len(t) + 1
           /\ \A k \in 1 .. FirstOf(t, marks) - 1 : t[k] \notin marks
           /\ FirstOf(t, marks) <= Len(t) => t[FirstOf(t, marks)] \in marks
<1> DEFINE at == {k \in DOMAIN t : t[k] \in marks}
<1>1. FirstOf(t, marks) \in 1 .. Len(t) + 1
  BY FirstOfPlace
<1>2. CASE at = {}
  BY <1>2 DEF FirstOf
<1>3. CASE at # {}
  <2>1. at \in SUBSET Nat /\ at \subseteq 1 .. Len(t)
    OBVIOUS
  <2>2. \E x \in at : \A y \in at : x <= y
    BY <1>3, <2>1, HasLeast
  <2>3. Min(at) \in at /\ \A y \in at : Min(at) <= y
    BY <2>2 DEF Min
  <2>4. FirstOf(t, marks) \in at /\ \A y \in at : FirstOf(t, marks) <= y
    BY <1>3, <2>3 DEF FirstOf
  <2> DEFINE p == FirstOf(t, marks)
  <2>5. p \in at /\ \A y \in at : p <= y
    BY <2>4
  <2> HIDE DEF p
  <2>6. \A k \in 1 .. p - 1 : k \in 1 .. Len(t) /\ k \notin at
    <3> HIDE DEF at
    <3> QED
      BY <2>1, <2>5
  <2>7. p \in 1 .. Len(t) + 1
    BY <1>1 DEF p
  <2> QED
    BY <2>5, <2>6, <2>7 DEF p
<1> QED
  BY <1>2, <1>3

\* A lexeme that no other of these stands before is what FirstOf gives.
LEMMA FirstOfIs ==
    ASSUME NEW T, NEW t \in Seq(T), NEW marks, NEW p \in 1 .. Len(t) + 1,
           \A k \in 1 .. p - 1 : t[k] \notin marks, p <= Len(t) => t[p] \in marks
    PROVE  FirstOf(t, marks) = p
<1>1. /\ FirstOf(t, marks) \in 1 .. Len(t) + 1
      /\ \A k \in 1 .. FirstOf(t, marks) - 1 : t[k] \notin marks
      /\ FirstOf(t, marks) <= Len(t) => t[FirstOf(t, marks)] \in marks
  BY FirstOfMeans
<1>2. ~(FirstOf(t, marks) < p)
  BY <1>1
<1>3. ~(FirstOf(t, marks) > p)
  BY <1>1
<1> QED
  BY <1>1, <1>2, <1>3

LEMMA FirstNonblankMeans ==
    ASSUME NEW T, NEW t \in Seq(T)
    PROVE  /\ FirstNonblank(t) \in 1 .. Len(t) + 1
           /\ \A k \in 1 .. FirstNonblank(t) - 1 : t[k] \in Blanks
           /\ FirstNonblank(t) <= Len(t) => t[FirstNonblank(t)] \notin Blanks
<1> DEFINE at == {k \in DOMAIN t : t[k] \notin Blanks}
<1>1. FirstNonblank(t) \in 1 .. Len(t) + 1
  BY FirstNonblankPlace
<1>2. CASE at = {}
  BY <1>2 DEF FirstNonblank
<1>3. CASE at # {}
  <2>1. at \in SUBSET Nat /\ at \subseteq 1 .. Len(t)
    OBVIOUS
  <2>2. \E x \in at : \A y \in at : x <= y
    BY <1>3, <2>1, HasLeast
  <2>3. Min(at) \in at /\ \A y \in at : Min(at) <= y
    BY <2>2 DEF Min
  <2>4. FirstNonblank(t) \in at /\ \A y \in at : FirstNonblank(t) <= y
    BY <1>3, <2>3 DEF FirstNonblank
  <2> DEFINE p == FirstNonblank(t)
  <2>5. p \in at /\ \A y \in at : p <= y
    BY <2>4
  <2> HIDE DEF p
  <2>6. \A k \in 1 .. p - 1 : k \in 1 .. Len(t) /\ k \notin at
    <3> HIDE DEF at
    <3> QED
      BY <2>1, <2>5
  <2>7. p \in 1 .. Len(t) + 1
    BY <1>1 DEF p
  <2> QED
    BY <2>5, <2>6, <2>7 DEF p
<1> QED
  BY <1>2, <1>3

\* A part of a text, lexeme by lexeme.
LEMMA PartMeans ==
    ASSUME NEW T, NEW t \in Seq(T), NEW m \in Nat \ {0}, NEW n \in 0 .. Len(t)
    PROVE  /\ SubSeq(t, m, n) \in Seq(T)
           /\ Len(SubSeq(t, m, n)) = IF m <= n THEN n - m + 1 ELSE 0
           /\ \A k \in 1 .. Len(SubSeq(t, m, n)) : SubSeq(t, m, n)[k] = t[m + k - 1]
  OBVIOUS

LEMMA SameText ==
    ASSUME NEW T, NEW s \in Seq(T), NEW t \in Seq(T), Len(s) = Len(t),
           \A k \in 1 .. Len(s) : s[k] = t[k]
    PROVE  s = t
  OBVIOUS

\* W is what of the text R stands in front of the end of the line.
EndsAt(R, W) ==
    /\ Len(W) <= Len(R)
    /\ \A k \in 1 .. Len(W) : R[k] = W[k] /\ W[k] \notin Terminating
    /\ Len(W) < Len(R) => R[Len(W) + 1] \in Terminating

\* Trimming takes the blanks at the start and what is behind the end.
LEMMA TrimmedFrom ==
    ASSUME NEW T, NEW R \in Seq(T), NEW W \in Seq(T), EndsAt(R, W),
           NEW n \in 1 .. Len(W) + 1
    PROVE  \E m \in n .. Len(W) + 1 :
                /\ trim_whitespace(SubSeq(R, n, Len(R))) = SubSeq(W, m, Len(W))
                /\ \A k \in n .. m - 1 : W[k] \in Blanks
                /\ m <= Len(W) => W[m] \notin Blanks
<1> DEFINE u == SubSeq(R, n, Len(R))
           f == FirstNonblank(u)
           m == n + f - 1
           v == SubSeq(u, f, Len(u))
           e == Len(W) - m + 2
<1>0. Len(R) \in Nat /\ Len(W) \in Nat /\ Len(W) <= Len(R)
  BY DEF EndsAt
<1>1. /\ u \in Seq(T) /\ Len(u) = Len(R) - n + 1
      /\ \A k \in 1 .. Len(u) : u[k] = R[n + k - 1]
  <2>1. n \in Nat \ {0} /\ Len(R) \in 0 .. Len(R)
    BY <1>0
  <2> QED
    BY <1>0, <2>1, PartMeans
<1>2. /\ f \in 1 .. Len(u) + 1
      /\ \A k \in 1 .. f - 1 : u[k] \in Blanks
      /\ f <= Len(u) => u[f] \notin Blanks
  <2> HIDE DEF u
  <2> QED
    BY <1>1, FirstNonblankMeans
<1>3. /\ v \in Seq(T) /\ Len(v) = Len(u) - f + 1
      /\ \A k \in 1 .. Len(v) : v[k] = u[f + k - 1]
  <2> HIDE DEF u, f
  <2>1. f \in Nat \ {0} /\ Len(u) \in 0 .. Len(u)
    BY <1>1, <1>2
  <2> QED
    BY <1>1, <1>2, <2>1, PartMeans
<1> HIDE DEF u, f, v
<1>4. \A k \in n .. m - 1 : R[k] \in Blanks
  <2> SUFFICES ASSUME NEW k \in n .. m - 1 PROVE R[k] \in Blanks
    OBVIOUS
  <2>1. PICK j \in 1 .. f - 1 : j \in 1 .. Len(u) /\ n + j - 1 = k
    <3>1. k - n + 1 \in 1 .. f - 1 /\ k - n + 1 \in 1 .. Len(u) /\ n + (k - n + 1) - 1 = k
      BY <1>0, <1>1, <1>2
    <3> QED
      BY <3>1
  <2>2. u[j] \in Blanks /\ u[j] = R[n + j - 1]
    BY <1>1, <1>2, <2>1
  <2> QED
    BY <2>1, <2>2
<1>5. m \in n .. Len(W) + 1
  <2>1. ASSUME m > Len(W) + 1 PROVE FALSE
    <3>1. Len(W) < Len(R) /\ Len(W) + 1 \in n .. m - 1
      BY <1>0, <1>1, <1>2, <2>1
    <3>2. R[Len(W) + 1] \in Terminating /\ R[Len(W) + 1] \in Blanks
      BY <1>4, <3>1 DEF EndsAt
    <3> QED
      BY <3>2 DEF Terminating, Blanks
  <2> QED
    BY <1>0, <1>1, <1>2, <2>1
<1>6. \A k \in 1 .. Len(v) : v[k] = R[m + k - 1]
  <2> SUFFICES ASSUME NEW k \in 1 .. Len(v) PROVE v[k] = R[m + k - 1]
    OBVIOUS
  <2>1. f + k - 1 \in 1 .. Len(u) /\ n + (f + k - 1) - 1 = m + k - 1
    BY <1>0, <1>1, <1>2, <1>3
  <2> QED
    BY <1>1, <1>3, <2>1
<1>7. e \in 1 .. Len(v) + 1 /\ Len(v) = Len(R) - m + 1
  BY <1>0, <1>1, <1>2, <1>3, <1>5
<1>8. FirstOf(v, Terminating) = e
  <2>1. \A k \in 1 .. e - 1 : v[k] \notin Terminating
    <3> SUFFICES ASSUME NEW k \in 1 .. e - 1 PROVE v[k] \notin Terminating
      OBVIOUS
    <3> HIDE DEF m
    <3>1. m + k - 1 \in 1 .. Len(W) /\ k \in 1 .. Len(v)
      BY <1>0, <1>5, <1>7
    <3> QED
      BY <1>6, <3>1 DEF EndsAt
  <2>2. e <= Len(v) => v[e] \in Terminating
    <3> SUFFICES ASSUME e <= Len(v) PROVE v[e] \in Terminating
      OBVIOUS
    <3>1. Len(W) < Len(R) /\ m + e - 1 = Len(W) + 1 /\ e \in 1 .. Len(v)
      BY <1>0, <1>5, <1>7
    <3> QED
      BY <1>6, <3>1 DEF EndsAt
  <2> QED
    BY <1>3, <1>7, <2>1, <2>2, FirstOfIs
<1>9. trim_whitespace(u) = SubSeq(v, 1, e - 1)
  BY <1>8 DEF trim_whitespace, UpTo, v, f
<1>10. SubSeq(v, 1, e - 1) = SubSeq(W, m, Len(W))
  <2>1. e - 1 \in 0 .. Len(v) /\ Len(W) \in 0 .. Len(W) /\ m \in Nat \ {0} /\ 1 \in Nat \ {0}
    BY <1>0, <1>5, <1>7
  <2>2. /\ SubSeq(v, 1, e - 1) \in Seq(T)
        /\ Len(SubSeq(v, 1, e - 1)) = IF 1 <= e - 1 THEN e - 1 - 1 + 1 ELSE 0
        /\ \A k \in 1 .. Len(SubSeq(v, 1, e - 1)) : SubSeq(v, 1, e - 1)[k] = v[1 + k - 1]
    <3> HIDE DEF e
    <3> QED
      BY <1>3, <2>1, PartMeans
  <2>3. /\ SubSeq(W, m, Len(W)) \in Seq(T)
        /\ Len(SubSeq(W, m, Len(W))) = IF m <= Len(W) THEN Len(W) - m + 1 ELSE 0
        /\ \A k \in 1 .. Len(SubSeq(W, m, Len(W))) : SubSeq(W, m, Len(W))[k] = W[m + k - 1]
    <3> HIDE DEF m
    <3> QED
      BY <2>1, PartMeans
  <2>4. Len(SubSeq(v, 1, e - 1)) = e - 1 /\ Len(SubSeq(W, m, Len(W))) = e - 1
    BY <1>0, <1>5, <2>2, <2>3
  <2>5. \A k \in 1 .. e - 1 : v[1 + k - 1] = W[m + k - 1]
    <3> SUFFICES ASSUME NEW k \in 1 .. e - 1 PROVE v[1 + k - 1] = W[m + k - 1]
      OBVIOUS
    <3>0. m \in Nat /\ e = Len(W) - m + 2 /\ Len(v) = Len(R) - m + 1 /\ m >= 1
      BY <1>0, <1>5, <1>7
    <3>1. m + k - 1 \in 1 .. Len(W) /\ k \in 1 .. Len(v) /\ 1 + k - 1 = k
      <4> HIDE DEF m, e
      <4> QED
        BY <1>0, <1>5, <1>7, <3>0
    <3>2. v[1 + k - 1] = v[k]
      BY <3>1
    <3> HIDE DEF m
    <3>3. v[k] = R[m + k - 1] /\ R[m + k - 1] = W[m + k - 1]
      BY <1>6, <3>1 DEF EndsAt
    <3> QED
      BY <3>2, <3>3
  <2> DEFINE s1 == SubSeq(v, 1, e - 1)
             s2 == SubSeq(W, m, Len(W))
  <2>6. s1 \in Seq(T) /\ s2 \in Seq(T) /\ Len(s1) = Len(s2)
        /\ \A k \in 1 .. Len(s1) : s1[k] = s2[k]
    BY <2>2, <2>3, <2>4, <2>5
  <2> HIDE DEF s1, s2
  <2>7. s1 = s2
    BY <2>6, SameText
  <2> QED
    BY <2>7 DEF s1, s2
<1>11. \A k \in n .. m - 1 : W[k] \in Blanks
  <2> SUFFICES ASSUME NEW k \in n .. m - 1 PROVE W[k] \in Blanks
    OBVIOUS
  <2>1. k \in 1 .. Len(W)
    BY <1>0, <1>5
  <2> QED
    BY <1>4, <2>1 DEF EndsAt
<1>12. m <= Len(W) => W[m] \notin Blanks
  <2> SUFFICES ASSUME m <= Len(W) PROVE W[m] \notin Blanks
    OBVIOUS
  <2>1. m \in 1 .. Len(W) /\ f <= Len(u) /\ f \in 1 .. Len(u) /\ n + f - 1 = m
    BY <1>0, <1>1, <1>2, <1>5
  <2>2. R[m] = W[m] /\ u[f] = R[m]
    BY <1>1, <2>1 DEF EndsAt
  <2> QED
    BY <1>2, <2>1, <2>2
<1> QED
  BY <1>5, <1>9, <1>10, <1>11, <1>12 DEF u

\* A part of a text that ends in front of the first of some lexemes.
LEMMA PartInFront ==
    ASSUME NEW T, NEW t \in Seq(T), NEW mark,
           NEW ends, ends = {k \in DOMAIN t : t[k] = mark} \cup {Len(t) + 1}
    PROVE  LET s == SubSeq(t, 1, Min(ends) - 1)
           IN  /\ s \in Seq(T) /\ Len(s) <= Len(t)
               /\ \A k \in 1 .. Len(s) : s[k] = t[k] /\ t[k] # mark
               /\ Len(s) < Len(t) => t[Len(s) + 1] = mark
<1>1. ends \in SUBSET Nat /\ ends # {} /\ Len(t) \in Nat
  OBVIOUS
<1>2. PICK z \in ends : \A y \in ends : z <= y
  BY <1>1, HasLeast
<1>3. Min(ends) \in ends /\ \A y \in ends : Min(ends) <= y
  BY <1>2 DEF Min
<1>4. Min(ends) = z
  BY <1>1, <1>2, <1>3
<1>5. z \in 1 .. Len(t) + 1 /\ (z <= Len(t) => t[z] = mark)
  BY <1>1, <1>2
<1>6. \A k \in 1 .. z - 1 : t[k] # mark
  <2>1. \A k \in 1 .. z - 1 : k \in 1 .. Len(t) /\ k \notin ends
    BY <1>1, <1>2, <1>5
  <2> QED
    BY <2>1
<1> DEFINE s == SubSeq(t, 1, z - 1)
<1>7. 1 \in Nat \ {0} /\ z - 1 \in 0 .. Len(t)
  BY <1>1, <1>5
<1>8. /\ s \in Seq(T)
      /\ Len(s) = IF 1 <= z - 1 THEN z - 1 - 1 + 1 ELSE 0
      /\ \A k \in 1 .. Len(s) : s[k] = t[1 + k - 1]
  BY <1>7, PartMeans
<1> HIDE DEF s
<1>9. Len(s) = z - 1
  BY <1>5, <1>8
<1>10. \A k \in 1 .. Len(s) : s[k] = t[k]
  <2> SUFFICES ASSUME NEW k \in 1 .. Len(s) PROVE s[k] = t[k]
    OBVIOUS
  <2>1. 1 + k - 1 = k
    BY <1>9, <1>5
  <2> QED
    BY <1>8, <2>1
<1>11. /\ s \in Seq(T) /\ Len(s) <= Len(t)
       /\ \A k \in 1 .. Len(s) : s[k] = t[k] /\ t[k] # mark
       /\ Len(s) < Len(t) => t[Len(s) + 1] = mark
  BY <1>1, <1>5, <1>6, <1>8, <1>9, <1>10
<1> QED
  BY <1>4, <1>11 DEF s

\* The statement of a line is its content up to the first semicolon.
LEMMA StatementText ==
    ASSUME NEW w \in Written
    PROVE  /\ Statement(w) \in Seq(STRING)
           /\ Len(Statement(w)) <= Len(Content(w))
           /\ \A k \in 1 .. Len(Statement(w)) :
                    Statement(w)[k] = Content(w)[k] /\ Content(w)[k] # ";"
           /\ Len(Statement(w)) < Len(Content(w)) => Content(w)[Len(Statement(w)) + 1] = ";"
<1> DEFINE t == Content(w)
           ends == {k \in DOMAIN t : t[k] = ";"} \cup {Len(t) + 1}
<1>1. t \in Seq(STRING)
  BY LineAssumption
<1>2. Statement(w) = SubSeq(t, 1, Min(ends) - 1)
  BY DEF Statement
<1>3. LET s == SubSeq(t, 1, Min(ends) - 1)
      IN  /\ s \in Seq(STRING) /\ Len(s) <= Len(t)
          /\ \A k \in 1 .. Len(s) : s[k] = t[k] /\ t[k] # ";"
          /\ Len(s) < Len(t) => t[Len(s) + 1] = ";"
  <2> HIDE DEF t
  <2>1. \A e : e = ends =>
          LET s == SubSeq(t, 1, Min(e) - 1)
          IN  /\ s \in Seq(STRING) /\ Len(s) <= Len(t)
              /\ \A k \in 1 .. Len(s) : s[k] = t[k] /\ t[k] # ";"
              /\ Len(s) < Len(t) => t[Len(s) + 1] = ";"
    BY <1>1, PartInFront
  <2> QED
    BY <2>1
<1> QED
  BY <1>2, <1>3

-----------------------------------------------------------------------------
(* The line in front of the string.                                        *)

\* The line without the comment behind a semicolon.
Whole == Heading(written) \o Statement(written)

\* Nothing but blanks stands between m and a colon in front of it or the start
\* of the line.
WordAt(m) ==
    \E l \in 1 .. m :
        /\ l > 1 => Whole[l - 1] = ":"
        /\ \A k \in l .. m - 1 : Whole[k] \in Blanks

\* The statement of the line is a directive.
Directed == Statement(written) # <<>> /\ Statement(written)[1] \in Dotted

\* Two texts in a row, lexeme by lexeme.
LEMMA JoinedText ==
    ASSUME NEW T, NEW s \in Seq(T), NEW t \in Seq(T)
    PROVE  /\ s \o t \in Seq(T) /\ Len(s \o t) = Len(s) + Len(t)
           /\ Len(s) \in Nat /\ Len(t) \in Nat
           /\ \A k \in 1 .. Len(s) : (s \o t)[k] = s[k]
           /\ \A k \in 1 .. Len(t) : (s \o t)[Len(s) + k] = t[k]
  OBVIOUS

\* What stands in the heading of a line.
LEMMA HeadingText ==
    ASSUME written \in Written, NEW k \in 1 .. Len(Heading(written))
    PROVE  /\ \/ Heading(written)[k] \in Blanks \/ LabelAt(Heading(written), k)
              \/ Heading(written)[k] = ":" /\ k > 1 /\ LabelAt(Heading(written), k - 1)
           /\ Heading(written)[k] # ";" /\ Heading(written)[k] \notin Dotted
<1>1. Heading(written) \in Seq(STRING)
  BY LineAssumption
<1>2. \/ Heading(written)[k] \in Blanks \/ LabelAt(Heading(written), k)
      \/ Heading(written)[k] = ":" /\ k > 1 /\ LabelAt(Heading(written), k - 1)
  BY <1>1, WrittenAssumption
<1>3. ";" \notin Blanks /\ ";" # ":"
  BY DEF Blanks
<1>4. Heading(written)[k] # ";"
  BY <1>2, <1>3 DEF LabelAt
<1>5. Dotted \cap Blanks = {} /\ ":" \notin Dotted
  BY LineAssumption
<1>6. Heading(written)[k] \notin Dotted
  BY <1>2, <1>5 DEF LabelAt
<1> QED
  BY <1>2, <1>4, <1>6

LEMMA WholeText ==
    ASSUME written \in Written
    PROVE  /\ Whole \in Seq(STRING) /\ Heading(written) \in Seq(STRING)
           /\ Statement(written) \in Seq(STRING)
           /\ Len(Heading(written)) \in Nat /\ Len(Statement(written)) \in Nat
           /\ Len(Whole) = Len(Heading(written)) + Len(Statement(written))
           /\ \A k \in 1 .. Len(Heading(written)) : Whole[k] = Heading(written)[k]
           /\ \A k \in 1 .. Len(Statement(written)) :
                    Whole[Len(Heading(written)) + k] = Statement(written)[k]
<1>1. Heading(written) \in Seq(STRING) /\ Statement(written) \in Seq(STRING)
  BY LineAssumption, StatementText
<1> QED
  BY <1>1, JoinedText DEF Whole

\* Each lexeme of the line stands in its heading or in its statement.
LEMMA WholeParts ==
    ASSUME written \in Written, NEW k \in 1 .. Len(Whole)
    PROVE  \/ k \in 1 .. Len(Heading(written)) /\ Whole[k] = Heading(written)[k]
           \/ \E j \in 1 .. Len(Statement(written)) :
                    k = Len(Heading(written)) + j /\ Whole[k] = Statement(written)[j]
<1> DEFINE h == Len(Heading(written))
           s == Len(Statement(written))
<1>1. /\ h \in Nat /\ s \in Nat /\ Len(Whole) = h + s
      /\ \A i \in 1 .. h : Whole[i] = Heading(written)[i]
      /\ \A i \in 1 .. s : Whole[h + i] = Statement(written)[i]
  BY WholeText
<1> HIDE DEF h, s
<1>2. CASE k <= h
  <2>1. k \in 1 .. h
    BY <1>1, <1>2
  <2> QED
    BY <1>1, <2>1 DEF h
<1>3. CASE k > h
  <2>1. k - h \in 1 .. s /\ h + (k - h) = k
    BY <1>1, <1>3
  <2>2. Whole[k] = Statement(written)[k - h]
    BY <1>1, <2>1
  <2> QED
    BY <2>1, <2>2 DEF h, s
<1> QED
  BY <1>1, <1>2, <1>3

LEMMA WholeUndotted ==
    ASSUME written \in Written, ~Directed, NEW m \in 1 .. Len(Whole), WordAt(m)
    PROVE  Whole[m] \notin Dotted
<1> SUFFICES ASSUME Whole[m] \in Dotted PROVE FALSE
  OBVIOUS
<1> DEFINE S == Statement(written)
           h == Len(Heading(written))
           s == Len(S)
<1>1. /\ h \in Nat /\ s \in Nat /\ S \in Seq(STRING)
      /\ \A k \in 1 .. s : Whole[h + k] = S[k]
  BY WholeText
<1>2. \A k \in 1 .. s : S[k] \in Dotted =>
            /\ \E j \in 1 .. k - 1 : S[j] \notin Blanks
            /\ \A j \in 1 .. k - 1 : S[j] # ":"
  BY <1>1, WrittenAssumption DEF Directed
<1>3. PICK j \in 1 .. s : m = h + j /\ Whole[m] = S[j]
  BY WholeParts, HeadingText
<1> HIDE DEF h, s, S
<1>4. PICK i \in 1 .. j - 1 : S[i] \notin Blanks
  BY <1>2, <1>3
<1>5. PICK l \in 1 .. m :
        /\ l > 1 => Whole[l - 1] = ":"
        /\ \A k \in l .. m - 1 : Whole[k] \in Blanks
  BY DEF WordAt
<1>6. h + i < l
  <2> SUFFICES ASSUME l <= h + i PROVE FALSE
    BY <1>1, <1>3
  <2>1. h + i \in l .. m - 1 /\ i \in 1 .. s
    BY <1>1, <1>3
  <2>2. Whole[h + i] \in Blanks /\ Whole[h + i] = S[i]
    BY <1>1, <1>5, <2>1
  <2> QED
    BY <1>4, <2>2
<1> DEFINE d == l - 1 - h
<1>7. d \in 1 .. j - 1 /\ d \in 1 .. s /\ h + d = l - 1 /\ l > 1
  BY <1>1, <1>3, <1>6
<1> HIDE DEF d
<1>8. Whole[h + d] = ":" /\ Whole[h + d] = S[d]
  BY <1>1, <1>5, <1>7
<1>9. S[d] # ":"
  BY <1>2, <1>3, <1>7
<1> QED
  BY <1>8, <1>9

\* The line that is given ends where its statement does.
LEMMA WholeEnds ==
    ASSUME written \in Written
    PROVE  /\ Rendered(written) \in Seq(STRING)
           /\ EndsAt(Rendered(written), Whole) /\ EndsAt(Whole, Whole)
           /\ EndsAt(Statement(written), Statement(written))
<1> DEFINE H == Heading(written)
           S == Statement(written)
           C == Content(written)
           R == Rendered(written)
           h == Len(H)
           s == Len(S)
           c == Len(C)
           r == Len(R)
           n == Len(Whole)
<1>1. H \in Seq(STRING) /\ C \in Seq(STRING) /\ S \in Seq(STRING)
  BY LineAssumption, StatementText
<1>2. /\ R \in Seq(STRING) /\ r = h + c /\ h \in Nat /\ c \in Nat
      /\ \A k \in 1 .. h : R[k] = H[k]
      /\ \A k \in 1 .. c : R[h + k] = C[k]
  BY <1>1, JoinedText DEF Rendered
<1>3. /\ s \in Nat /\ s <= c
      /\ \A k \in 1 .. s : S[k] = C[k] /\ C[k] # ";"
      /\ s < c => C[s + 1] = ";"
  BY StatementText, WholeText
<1>4. \A k \in 1 .. r : R[k] # "\n"
  <2>1. "\n" \notin ToSet(R)
    BY WrittenAssumption
  <2> HIDE DEF R
  <2> QED
    BY <1>2, <2>1 DEF ToSet
<1>5. /\ n = h + s
      /\ \A k \in 1 .. s : Whole[h + k] = S[k]
  BY WholeText
<1>6. \A k \in 1 .. h : H[k] # ";"
  BY HeadingText
<1>7. \A k \in 1 .. n : \/ k \in 1 .. h /\ Whole[k] = H[k]
                       \/ \E j \in 1 .. s : k = h + j /\ Whole[k] = S[j]
  BY WholeParts
<1>0. r = h + c /\ n = h + s /\ h \in Nat /\ c \in Nat /\ s \in Nat /\ s <= c
  BY <1>2, <1>3, <1>5
<1> HIDE DEF H, S, C, R, h, s, c, r, n
<1>8. ASSUME NEW k \in 1 .. n
      PROVE  k \in 1 .. r /\ R[k] = Whole[k] /\ Whole[k] \notin Terminating
  <2>1. k \in 1 .. r
    BY <1>0
  <2>2. CASE k \in 1 .. h /\ Whole[k] = H[k]
    BY <1>2, <1>4, <1>6, <2>1, <2>2 DEF Terminating
  <2>3. ASSUME NEW j \in 1 .. s, k = h + j, Whole[k] = S[j]
        PROVE  R[k] = Whole[k] /\ Whole[k] \notin Terminating
    <3>1. j \in 1 .. c
      BY <1>0
    <3>2. R[k] = C[j] /\ S[j] = C[j] /\ C[j] # ";" /\ R[k] # "\n"
      BY <1>2, <1>3, <1>4, <2>1, <2>3, <3>1
    <3> QED
      BY <2>3, <3>2 DEF Terminating
  <2> QED
    BY <1>7, <2>1, <2>2, <2>3
<1>9. n <= r /\ n \in Nat
  BY <1>0
<1>10. n < r => R[n + 1] \in Terminating
  <2> SUFFICES ASSUME n < r PROVE R[n + 1] = ";"
    BY DEF Terminating
  <2>1. s < c /\ s + 1 \in 1 .. c /\ n + 1 = h + (s + 1)
    BY <1>0
  <2> QED
    BY <1>2, <1>3, <2>1
<1>11. \A j \in 1 .. s : S[j] \notin Terminating
  <2> SUFFICES ASSUME NEW j \in 1 .. s PROVE S[j] \notin Terminating
    OBVIOUS
  <2>1. Whole[h + j] = S[j] /\ h + j \in 1 .. n
    BY <1>0, <1>5
  <2> QED
    BY <1>8, <2>1
<1>12. EndsAt(R, Whole) /\ EndsAt(Whole, Whole)
  BY <1>8, <1>9, <1>10 DEF EndsAt, n, r
<1>13. EndsAt(S, S)
  <2>1. Len(S) = s /\ s <= s /\ ~(s < s)
    BY <1>0 DEF s
  <2>2. \A k \in 1 .. s : S[k] = S[k] /\ S[k] \notin Terminating
    BY <1>11
  <2> QED
    BY <2>1, <2>2 DEF EndsAt
<1> QED
  BY <1>2, <1>12, <1>13 DEF R, S

\* The rest of the line from n on.
RestFrom(n) == SubSeq(Whole, n, Len(Whole))

\* Where the statement begins.
Start == Len(Heading(written)) + 1

\* parse_line has to read the line from n on, behind a label or at the start.
LineAt(n) ==
    /\ n \in 1 .. Len(Whole) + 1
    /\ n > 1 => Whole[n - 1] = ":"
    /\ text = RestFrom(n) \/ (n = 1 /\ text = Rendered(written))
    /\ Directed => n <= Start

\* parse_line_trimmed has to read it: from its directive on if it has one, or
\* from a label in front of that.
TrimmedAt(n) ==
    /\ n \in 1 .. Len(Whole) + 1 /\ WordAt(n)
    /\ text = RestFrom(n)
    /\ Directed => n = Start \/ (n + 1 < Start /\ LabelAt(Heading(written), n))

\* The rest, lexeme by lexeme.
LEMMA RestText ==
    ASSUME written \in Written, NEW n \in 1 .. Len(Whole) + 1
    PROVE  /\ RestFrom(n) \in Seq(STRING) /\ Len(RestFrom(n)) = Len(Whole) - n + 1
           /\ Len(Whole) \in Nat
           /\ \A k \in 1 .. Len(RestFrom(n)) : RestFrom(n)[k] = Whole[n + k - 1]
<1>1. Whole \in Seq(STRING)
  BY WholeText
<1> HIDE DEF Whole
<1>2. Len(Whole) \in Nat /\ Len(Whole) \in 0 .. Len(Whole) /\ n \in Nat \ {0}
  BY <1>1
<1>3. /\ RestFrom(n) \in Seq(STRING)
      /\ Len(RestFrom(n)) = IF n <= Len(Whole) THEN Len(Whole) - n + 1 ELSE 0
      /\ \A k \in 1 .. Len(RestFrom(n)) : RestFrom(n)[k] = Whole[n + k - 1]
  BY <1>1, <1>2, PartMeans DEF RestFrom
<1> DEFINE w == Len(Whole)
<1>4. Len(RestFrom(n)) = (IF n <= w THEN w - n + 1 ELSE 0) /\ w \in Nat /\ n \in 1 .. w + 1
  BY <1>2, <1>3
<1> HIDE DEF w
<1>5. Len(RestFrom(n)) = w - n + 1
  BY <1>4
<1> QED
  BY <1>2, <1>3, <1>5 DEF w

\* parse_line takes the blanks in front of the next label or the statement.
LEMMA LineTrimmed ==
    ASSUME written \in Written, NEW n, LineAt(n)
    PROVE  \E m \in 1 .. Len(Whole) + 1 :
                /\ trim_whitespace(text) = RestFrom(m) /\ WordAt(m)
                /\ Directed => m = Start \/ (m + 1 < Start /\ LabelAt(Heading(written), m))
<1> DEFINE h == Len(Heading(written))
           s == Len(Statement(written))
           w == Len(Whole)
<1>1. /\ h \in Nat /\ s \in Nat /\ w = h + s /\ Start = h + 1 /\ w \in Nat
      /\ Whole \in Seq(STRING) /\ Rendered(written) \in Seq(STRING)
      /\ EndsAt(Rendered(written), Whole) /\ EndsAt(Whole, Whole)
      /\ \A k \in 1 .. h : Whole[k] = Heading(written)[k]
      /\ \A k \in 1 .. s : Whole[h + k] = Statement(written)[k]
  BY WholeText, WholeEnds DEF Start
<1>2. n \in 1 .. w + 1 /\ (n > 1 => Whole[n - 1] = ":")
  BY DEF LineAt
<1>3. \E m \in n .. w + 1 :
        /\ trim_whitespace(text) = SubSeq(Whole, m, Len(Whole))
        /\ \A k \in n .. m - 1 : Whole[k] \in Blanks
        /\ m <= w => Whole[m] \notin Blanks
  <2>1. CASE text = RestFrom(n)
    BY <1>1, <1>2, <2>1, TrimmedFrom DEF RestFrom
  <2>2. CASE n = 1 /\ text = Rendered(written)
    <3> DEFINE R == Rendered(written)
    <3>1. SubSeq(R, 1, Len(R)) = R
      <4>1. R \in Seq(STRING)
        BY <1>1
      <4> HIDE DEF R
      <4> QED
        BY <4>1
    <3>2. \E m \in 1 .. Len(Whole) + 1 :
            /\ trim_whitespace(SubSeq(R, 1, Len(R))) = SubSeq(Whole, m, Len(Whole))
            /\ \A k \in 1 .. m - 1 : Whole[k] \in Blanks
            /\ m <= Len(Whole) => Whole[m] \notin Blanks
      <4>1. 1 \in 1 .. Len(Whole) + 1
        BY <1>1
      <4>2. R \in Seq(STRING) /\ Whole \in Seq(STRING) /\ EndsAt(R, Whole)
        BY <1>1
      <4> HIDE DEF R
      <4>3. \A l \in 1 .. Len(Whole) + 1 : \E m \in l .. Len(Whole) + 1 :
              /\ trim_whitespace(SubSeq(R, l, Len(R))) = SubSeq(Whole, m, Len(Whole))
              /\ \A k \in l .. m - 1 : Whole[k] \in Blanks
              /\ m <= Len(Whole) => Whole[m] \notin Blanks
        BY <4>2, TrimmedFrom
      <4> QED
        BY <4>1, <4>3
    <3> QED
      BY <2>2, <3>1, <3>2
  <2> QED
    BY <2>1, <2>2 DEF LineAt
<1>4. PICK m \in n .. w + 1 :
        /\ trim_whitespace(text) = SubSeq(Whole, m, Len(Whole))
        /\ \A k \in n .. m - 1 : Whole[k] \in Blanks
        /\ m <= w => Whole[m] \notin Blanks
  BY <1>3
<1> HIDE DEF h, s, w
<1>5. m \in 1 .. w + 1
  BY <1>1, <1>2
<1>6. ASSUME Directed
      PROVE  m = Start \/ (m + 1 < Start /\ LabelAt(Heading(written), m))
  <2>1. n <= h + 1
    BY <1>1, <1>6 DEF LineAt
  <2>2. s >= 1 /\ Whole[h + 1] \notin Blanks
    <3>1. Statement(written) # <<>> /\ Statement(written)[1] \in Dotted
      BY <1>6 DEF Directed
    <3>2. s >= 1
      <4>1. Statement(written) \in Seq(STRING)
        BY WholeText
      <4> QED
        BY <3>1, <4>1 DEF s
    <3>3. Whole[h + 1] = Statement(written)[1]
      BY <1>1, <3>2
    <3> QED
      BY <3>1, <3>2, <3>3, LineAssumption
  <2>3. m <= h + 1
    <3>1. ASSUME m > h + 1 PROVE FALSE
      <4>1. h + 1 \in n .. m - 1
        BY <1>1, <1>5, <2>1, <3>1
      <4> QED
        BY <1>4, <2>2, <4>1
    <3> QED
      BY <1>1, <1>5, <3>1
  <2>4. CASE m = h + 1
    BY <1>1, <2>4
  <2>5. CASE m <= h
    <3>1. m \in 1 .. h /\ m <= w
      BY <1>1, <1>5, <2>5
    <3>2. Whole[m] = Heading(written)[m] /\ Heading(written)[m] \notin Blanks
      BY <1>1, <1>4, <3>1
    <3>3. \/ LabelAt(Heading(written), m)
          \/ Heading(written)[m] = ":" /\ m > 1 /\ LabelAt(Heading(written), m - 1)
      BY <3>1, <3>2, HeadingText DEF h
    <3>4. ASSUME m > 1, LabelAt(Heading(written), m - 1) PROVE FALSE
      <4>1. m - 1 \in 1 .. h
        BY <1>1, <3>1, <3>4
      <4>2. Whole[m - 1] \notin Blanks \cup {":"}
        BY <1>1, <3>4, <4>1 DEF LabelAt
      <4>3. CASE m = n
        BY <1>2, <3>4, <4>2, <4>3
      <4>4. CASE m # n
        <5>1. m - 1 \in n .. m - 1
          BY <1>1, <1>2, <1>5, <4>4
        <5> QED
          BY <1>4, <4>2, <5>1
      <4> QED
        BY <4>3, <4>4
    <3>5. LabelAt(Heading(written), m)
      BY <3>3, <3>4
    <3>6. m < h
      BY <3>5 DEF LabelAt, h
    <3> QED
      BY <1>1, <3>1, <3>5, <3>6
  <2> QED
    BY <1>1, <1>5, <2>3, <2>4, <2>5
<1>7. WordAt(m)
  <2>1. n \in 1 .. m
    BY <1>1, <1>2, <1>5
  <2> QED
    BY <1>2, <1>4, <2>1 DEF WordAt
<1> QED
  BY <1>4, <1>5, <1>6, <1>7 DEF RestFrom, w

-----------------------------------------------------------------------------
(* What the trimmed line is taken for.                                     *)

\* If it has no directive it is taken for none.
LEMMA UndirectedIsNone ==
    ASSUME written \in Written, NEW n, TrimmedAt(n), ~Directed
    PROVE  ~IsDirective
<1> SUFFICES ASSUME IsDirective PROVE FALSE
  OBVIOUS
<1>1. n \in 1 .. Len(Whole) + 1 /\ text = RestFrom(n) /\ WordAt(n)
  BY DEF TrimmedAt
<1>2. /\ text \in Seq(STRING) /\ Len(text) = Len(Whole) - n + 1 /\ Len(Whole) \in Nat
      /\ \A k \in 1 .. Len(text) : text[k] = Whole[n + k - 1]
  BY <1>1, RestText
<1>3. text # <<>> /\ text[1] \in Dotted
  BY DEF IsDirective, IsBlank
<1>4. Len(text) >= 1
  BY <1>2, <1>3
<1> DEFINE w == Len(Whole)
           t == Len(text)
<1>5. w \in Nat /\ t \in Nat /\ t >= 1 /\ t = w - n + 1 /\ n \in 1 .. w + 1
  BY <1>1, <1>2, <1>4
<1> HIDE DEF w, t
<1>6. n \in 1 .. w /\ 1 \in 1 .. t /\ n + 1 - 1 = n
  BY <1>5
<1>7. text[1] = Whole[n]
  <2>1. text[1] = Whole[n + 1 - 1]
    BY <1>2, <1>6 DEF t
  <2> QED
    BY <1>6, <2>1
<1> QED
  BY <1>1, <1>3, <1>6, <1>7, WholeUndotted DEF w

\* At the start of its statement a line with a directive is a directive.
LEMMA AtDirective ==
    ASSUME written \in Written, TrimmedAt(Start), Directed
    PROVE  text = Statement(written) /\ IsDirective
<1> DEFINE h == Len(Heading(written))
           s == Len(Statement(written))
           w == Len(Whole)
           t == Len(text)
<1>1. /\ h \in Nat /\ s \in Nat /\ w = h + s /\ Start = h + 1
      /\ Statement(written) \in Seq(STRING)
      /\ \A k \in 1 .. s : Whole[h + k] = Statement(written)[k]
  BY WholeText DEF Start
<1>2. Start \in 1 .. w + 1 /\ text = RestFrom(Start)
  BY DEF TrimmedAt
<1>3. /\ text \in Seq(STRING) /\ t = w - Start + 1
      /\ \A k \in 1 .. t : text[k] = Whole[Start + k - 1]
  BY <1>2, RestText
<1>4. t = s
  <2> HIDE DEF h, s, w, t
  <2> QED
    BY <1>1, <1>3
<1>5. ASSUME NEW k \in 1 .. t PROVE text[k] = Statement(written)[k]
  <2> HIDE DEF h, s, w, t
  <2>1. Start + k - 1 = h + k /\ k \in 1 .. s
    BY <1>1, <1>4
  <2>2. text[k] = Whole[Start + k - 1]
    BY <1>3
  <2> QED
    BY <1>1, <2>1, <2>2
<1>6. text = Statement(written)
  BY <1>1, <1>3, <1>4, <1>5, SameText
<1>7. text # <<>> /\ text[1] \in Dotted
  BY <1>6 DEF Directed
<1>8. text[1] # "//"
  BY <1>7, LineAssumption
<1>9. ~IsPrefix(<<"//">>, text)
  BY <1>7, <1>8 DEF IsPrefix
<1> QED
  BY <1>6, <1>7, <1>9 DEF IsDirective, IsBlank

\* The rest of a text, lexeme by lexeme.
LEMMA SuffixText ==
    ASSUME NEW T, NEW W \in Seq(T), NEW n \in 1 .. Len(W) + 1
    PROVE  /\ SubSeq(W, n, Len(W)) \in Seq(T)
           /\ Len(SubSeq(W, n, Len(W))) = Len(W) - n + 1
           /\ \A k \in 1 .. Len(SubSeq(W, n, Len(W))) : SubSeq(W, n, Len(W))[k] = W[n + k - 1]
<1> DEFINE w == Len(W)
           u == SubSeq(W, n, Len(W))
<1>1. w \in Nat /\ w \in 0 .. Len(W) /\ n \in Nat \ {0} /\ n \in 1 .. w + 1
  OBVIOUS
<1>2. /\ u \in Seq(T)
      /\ Len(u) = IF n <= w THEN w - n + 1 ELSE 0
      /\ \A k \in 1 .. Len(u) : u[k] = W[n + k - 1]
  BY <1>1, PartMeans
<1>3. Len(u) = w - n + 1
  <2> HIDE DEF u, w
  <2> QED
    BY <1>1, <1>2
<1> QED
  BY <1>2, <1>3

\* The rest of a rest is a rest.
LEMMA SuffixOfSuffix ==
    ASSUME NEW T, NEW W \in Seq(T), NEW n \in 1 .. Len(W) + 1,
           NEW u, u = SubSeq(W, n, Len(W)), NEW p \in 1 .. Len(u) + 1
    PROVE  /\ n + p - 1 \in 1 .. Len(W) + 1
           /\ SubSeq(u, p, Len(u)) = SubSeq(W, n + p - 1, Len(W))
<1> DEFINE w == Len(W)
           l == Len(u)
           m == n + p - 1
           a == SubSeq(u, p, Len(u))
           b == SubSeq(W, m, Len(W))
<1>1. /\ u \in Seq(T) /\ l = w - n + 1 /\ w \in Nat
      /\ \A k \in 1 .. l : u[k] = W[n + k - 1]
  BY SuffixText
<1>2. n \in 1 .. w + 1 /\ p \in 1 .. l + 1
  OBVIOUS
<1>3. m \in 1 .. w + 1 /\ l - p + 1 = w - m + 1
  <2> HIDE DEF w, l
  <2> QED
    BY <1>1, <1>2
<1>4. /\ a \in Seq(T) /\ Len(a) = l - p + 1
      /\ \A k \in 1 .. Len(a) : a[k] = u[p + k - 1]
  BY <1>1, <1>2, SuffixText
<1>5. /\ b \in Seq(T) /\ Len(b) = w - m + 1
      /\ \A k \in 1 .. Len(b) : b[k] = W[m + k - 1]
  <2> HIDE DEF m
  <2> QED
    BY <1>3, SuffixText
<1>6. m = n + p - 1
  OBVIOUS
<1> HIDE DEF a, b, w, l, m
<1>7. ASSUME NEW k \in 1 .. Len(a) PROVE a[k] = b[k]
  <2>1. p + k - 1 \in 1 .. l /\ n + (p + k - 1) - 1 = m + k - 1 /\ k \in 1 .. Len(b)
    BY <1>1, <1>2, <1>3, <1>4, <1>5, <1>6
  <2>2. a[k] = u[p + k - 1] /\ u[p + k - 1] = W[n + (p + k - 1) - 1] /\ b[k] = W[m + k - 1]
    BY <1>1, <1>4, <1>5, <2>1
  <2> QED
    BY <2>1, <2>2
<1>8. a = b
  BY <1>3, <1>4, <1>5, <1>7, SameText
<1> QED
  BY <1>3, <1>8 DEF a, b, w, m

\* A line with a directive that begins with a label is taken for a label.
LEMMA AtLabel ==
    ASSUME written \in Written, Directed, NEW n, TrimmedAt(n),
           n + 1 < Start, LabelAt(Heading(written), n)
    PROVE  ~IsBlank /\ ~IsDirective /\ IsLabel /\ FirstOf(text, {":"}) = 2
<1> DEFINE h == Len(Heading(written))
           w == Len(Whole)
           t == Len(text)
<1>1. /\ h \in Nat /\ w \in Nat /\ h <= w /\ Start = h + 1
      /\ \A k \in 1 .. h : Whole[k] = Heading(written)[k]
  <2>1. /\ h \in Nat /\ Len(Statement(written)) \in Nat /\ w = h + Len(Statement(written))
        /\ \A k \in 1 .. h : Whole[k] = Heading(written)[k]
    BY WholeText
  <2> HIDE DEF h, w
  <2>2. w \in Nat /\ h <= w
    BY <2>1
  <2> QED
    BY <2>1, <2>2 DEF Start, h
<1>2. n \in 1 .. w + 1 /\ text = RestFrom(n)
  BY DEF TrimmedAt
<1>3. /\ text \in Seq(STRING) /\ t = w - n + 1
      /\ \A k \in 1 .. t : text[k] = Whole[n + k - 1]
  BY <1>2, RestText
<1> HIDE DEF h, w, t
<1>4. n \in 1 .. h /\ n + 1 \in 1 .. h /\ t >= 2 /\ t \in Nat
  BY <1>1, <1>2, <1>3
<1>5. text[1] = Heading(written)[n] /\ text[2] = Heading(written)[n + 1]
  <2>1. 1 \in 1 .. t /\ 2 \in 1 .. t /\ n + 1 - 1 = n /\ n + 2 - 1 = n + 1
    BY <1>1, <1>3, <1>4
  <2>2. text[1] = Whole[n + 1 - 1] /\ text[2] = Whole[n + 2 - 1]
    BY <1>3, <2>1
  <2> QED
    BY <1>1, <1>4, <2>1, <2>2
<1>6. text[1] \notin Dotted \cup Blanks \cup {":", ";", "//"} /\ text[2] = ":"
  BY <1>5 DEF LabelAt
<1>7. text # <<>> /\ 2 \in DOMAIN text
  BY <1>3, <1>4 DEF t
<1>8. ~IsPrefix(<<"//">>, text)
  <2>1. text \in Seq(STRING) /\ text # <<>> /\ text[1] # "//"
    BY <1>3, <1>6, <1>7
  <2> QED
    BY <2>1 DEF IsPrefix
<1>9. FirstOf(text, {":"}) = 2
  <2>1. 2 \in 1 .. t + 1
    BY <1>4
  <2>2. ASSUME NEW k \in 1 .. 2 - 1 PROVE text[k] \notin {":"}
    <3>1. k = 1
      OBVIOUS
    <3> QED
      BY <1>6, <3>1
  <2>3. text[2] \in {":"}
    BY <1>6
  <2> QED
    BY <1>3, <2>1, <2>2, <2>3, FirstOfIs DEF t
<1> QED
  BY <1>6, <1>7, <1>8, <1>9 DEF IsBlank, IsDirective, IsLabel

\* What is behind a label is the rest of the line from behind its colon on.
LEMMA LabelPassed ==
    ASSUME written \in Written, NEW n, TrimmedAt(n), IsLabel
    PROVE  \E m \in 1 .. Len(Whole) + 1 :
                /\ m > 1 /\ Whole[m - 1] = ":" /\ Behind(text, {":"}) = RestFrom(m)
                /\ Directed => m <= Start
<1> DEFINE w == Len(Whole)
           t == Len(text)
           p == FirstOf(text, {":"})
           m == n + p
<1>1. n \in 1 .. w + 1 /\ text = RestFrom(n) /\ Whole \in Seq(STRING)
  BY WholeText DEF TrimmedAt
<1>2. /\ text \in Seq(STRING) /\ t = w - n + 1 /\ w \in Nat
      /\ \A k \in 1 .. t : text[k] = Whole[n + k - 1]
  BY <1>1, RestText
<1>3. /\ p \in 1 .. t + 1 /\ \A k \in 1 .. p - 1 : text[k] \notin {":"}
      /\ p <= t => text[p] \in {":"}
  BY <1>2, FirstOfMeans
<1>4. PICK k \in 1 .. t : text[k] = ":"
  BY <1>2 DEF IsLabel
<1> HIDE DEF w, t, p
<1>5. p \in 1 .. t /\ text[p] = ":" /\ t \in Nat
  BY <1>1, <1>2, <1>3, <1>4
<1>6. m \in 1 .. w + 1 /\ m > 1 /\ m - 1 = n + p - 1
  BY <1>1, <1>2, <1>5
<1>7. Whole[m - 1] = ":"
  BY <1>2, <1>5, <1>6
<1>8. Behind(text, {":"}) = RestFrom(m)
  <2>1. Behind(text, {":"}) = SubSeq(text, p + 1, Len(text))
    BY DEF Behind, p
  <2>2. p + 1 \in 1 .. Len(text) + 1 /\ n + (p + 1) - 1 = m
    BY <1>1, <1>2, <1>5 DEF t
  <2>3. n \in 1 .. Len(Whole) + 1 /\ text = SubSeq(Whole, n, Len(Whole))
    BY <1>1 DEF w, RestFrom
  <2>4. SubSeq(text, p + 1, Len(text)) = SubSeq(Whole, n + (p + 1) - 1, Len(Whole))
    BY <1>1, <2>2, <2>3, SuffixOfSuffix
  <2> HIDE DEF m
  <2> QED
    BY <2>1, <2>2, <2>4 DEF RestFrom
<1>9. ASSUME Directed PROVE m <= Start
  <2>1. n # Start
    BY <1>9, AtDirective DEF IsLabel
  <2>2. n + 1 < Start /\ LabelAt(Heading(written), n)
    BY <1>9, <2>1 DEF TrimmedAt
  <2>3. p = 2
    BY <1>9, <2>2, AtLabel DEF p
  <2>4. Start \in Nat
    BY WholeText DEF Start
  <2> QED
    BY <1>1, <1>2, <2>2, <2>3, <2>4
<1> QED
  BY <1>6, <1>7, <1>8, <1>9 DEF w

-----------------------------------------------------------------------------
(* Backslashes.                                                            *)

\* One more lexeme: a backslash more, or none.
LEMMA BackslashesNext ==
    ASSUME NEW T, NEW t \in Seq(T), NEW k \in 1 .. Len(t)
    PROVE  /\ BackslashesBefore(t, k) \in Nat
           /\ BackslashesBefore(t, k + 1) =
                IF t[k] = "\\" THEN BackslashesBefore(t, k) + 1 ELSE 0
<1> DEFINE O(j) == {i \in 1 .. j - 1 : t[i] # "\\"} \cup {0}
<1>1. k \in Nat \ {0}
  OBVIOUS
<1>2. ASSUME NEW j \in Nat \ {0}
      PROVE  Max(O(j)) \in O(j) /\ \A y \in O(j) : Max(O(j)) >= y
  <2> DEFINE d == {j - x : x \in O(j)}
  <2>1. d \in SUBSET Nat /\ d # {}
    <3>1. \A x \in O(j) : j - x \in Nat
      OBVIOUS
    <3>2. j - 0 \in d
      OBVIOUS
    <3> QED
      BY <3>1, <3>2
  <2>2. PICK e \in d : \A y \in d : e <= y
    <3> HIDE DEF d
    <3> QED
      BY <2>1, HasLeast
  <2>3. PICK x \in O(j) : e = j - x
    BY <2>2
  <2>4. \A y \in O(j) : j - y \in d
    OBVIOUS
  <2>5. \A y \in O(j) : x >= y
    <3> SUFFICES ASSUME NEW y \in O(j) PROVE x >= y
      OBVIOUS
    <3>1. j - x <= j - y
      BY <2>2, <2>3, <2>4
    <3>2. x \in Int /\ y \in Int
      OBVIOUS
    <3> HIDE DEF O
    <3> QED
      BY <3>1, <3>2
  <2> HIDE DEF O
  <2> QED
    BY <2>5 DEF Max
<1> DEFINE a == Max(O(k))
           b == Max(O(k + 1))
<1>3. a \in O(k) /\ \A y \in O(k) : a >= y
  BY <1>1, <1>2
<1>4. b \in O(k + 1) /\ \A y \in O(k + 1) : b >= y
  <2>1. k + 1 \in Nat \ {0}
    BY <1>1
  <2> QED
    BY <1>2, <2>1
<1>5. BackslashesBefore(t, k) = k - 1 - a /\ BackslashesBefore(t, k + 1) = (k + 1) - 1 - b
  <2>1. BackslashesBefore(t, k) = k - 1 - a
    BY Zenon DEF BackslashesBefore
  <2>2. BackslashesBefore(t, k + 1) = (k + 1) - 1 - b
    BY Zenon DEF BackslashesBefore
  <2> QED
    BY <2>1, <2>2
<1> HIDE DEF a, b
<1>6. a \in 0 .. k - 1 /\ b \in 0 .. k
  <2>1. O(k) \subseteq 0 .. k - 1 /\ O(k + 1) \subseteq 0 .. k
    BY <1>1
  <2> HIDE DEF O
  <2> QED
    BY <1>3, <1>4, <2>1
<1>7. CASE t[k] = "\\"
  <2>1. O(k + 1) = O(k)
    BY <1>1, <1>7
  <2>2. a = b
    <3>1. a \in O(k) /\ b \in O(k) /\ a >= b /\ b >= a
      <4> HIDE DEF O
      <4> QED
        BY <1>3, <1>4, <2>1
    <3> QED
      BY <1>1, <1>6, <3>1
  <2> QED
    BY <1>1, <1>5, <1>6, <1>7, <2>2
<1>8. CASE t[k] # "\\"
  <2>1. k \in O(k + 1)
    BY <1>1, <1>8
  <2>2. b >= k
    <3> HIDE DEF O
    <3> QED
      BY <1>4, <2>1
  <2> QED
    BY <1>1, <1>5, <1>6, <1>8, <2>2
<1> QED
  BY <1>7, <1>8

\* Of the string that is opened at q in the statement s all up to n has been
\* read: the quotes so far are escaped, and n is no escaped character.
Copied(s, q, n) ==
    /\ q \in 3 .. Len(s) /\ n \in q + 1 .. Len(s) + 1
    /\ OpensAt(s, q)
    /\ BackslashesBefore(s, n) % 2 = 0
    /\ \A k \in q + 1 .. n - 1 : s[k] = Quote => BackslashesBefore(s, k) % 2 = 1

\* A quote is neither a backslash nor a blank.
LEMMA QuoteBare == Quote # "\\" /\ Quote \notin White
<1>1. Quote # "\\"
  BY Zenon DEF Quote
<1>2. Quote \notin White
  BY Zenon DEF Quote, White
<1> QED
  BY <1>1, <1>2

\* A string is opened once.
LEMMA OpensOnce ==
    ASSUME NEW s, NEW q \in 3 .. Len(s), NEW p \in 3 .. Len(s), Len(s) \in Nat,
           OpensAt(s, q), OpensAt(s, p)
    PROVE  p = q
<1>1. s[q] \notin White /\ s[p] \notin White
  BY Zenon, QuoteBare DEF OpensAt
<1>2. ~(p < q)
  <2> SUFFICES ASSUME p < q PROVE FALSE
    OBVIOUS
  <2>1. p \in 3 .. q - 1
    OBVIOUS
  <2> QED
    BY <1>1, <2>1 DEF OpensAt
<1>3. ~(q < p)
  <2> SUFFICES ASSUME q < p PROVE FALSE
    OBVIOUS
  <2>1. q \in 3 .. p - 1
    OBVIOUS
  <2> QED
    BY <1>1, <2>1 DEF OpensAt
<1> QED
  BY <1>2, <1>3

\* What there is behind a Copied, and what makes one.
LEMMA CopiedParts ==
    ASSUME NEW s, NEW q, NEW n, Copied(s, q, n), Len(s) \in Nat
    PROVE  /\ q \in Nat /\ n \in Nat /\ 3 <= q /\ q < n /\ q <= Len(s) /\ n <= Len(s) + 1
           /\ q \in 3 .. Len(s) /\ OpensAt(s, q)
           /\ BackslashesBefore(s, n) % 2 = 0
           /\ \A k \in q + 1 .. n - 1 : s[k] = Quote => BackslashesBefore(s, k) % 2 = 1
<1>1. q \in 3 .. Len(s) /\ n \in q + 1 .. Len(s) + 1
  BY Zenon DEF Copied
<1>2. /\ OpensAt(s, q) /\ BackslashesBefore(s, n) % 2 = 0
      /\ \A k \in q + 1 .. n - 1 : s[k] = Quote => BackslashesBefore(s, k) % 2 = 1
  BY Zenon DEF Copied
<1> DEFINE h == Len(s)
<1> HIDE DEF h
<1>3. h \in Nat /\ q \in 3 .. h /\ n \in q + 1 .. h + 1
  BY <1>1 DEF h
<1>4. q \in Nat /\ n \in Nat /\ 3 <= q /\ q < n /\ q <= h /\ n <= h + 1
  BY <1>3
<1>5. q \in Nat /\ n \in Nat /\ 3 <= q /\ q < n /\ q <= Len(s) /\ n <= Len(s) + 1
  BY <1>4 DEF h
<1> QED
  BY <1>1, <1>2, <1>5, Zenon

LEMMA CopiedMade ==
    ASSUME NEW s, NEW q \in Nat, NEW n \in Nat, Len(s) \in Nat,
           3 <= q, q < n, q <= Len(s), n <= Len(s) + 1,
           OpensAt(s, q), BackslashesBefore(s, n) % 2 = 0,
           \A k \in q + 1 .. n - 1 : s[k] = Quote => BackslashesBefore(s, k) % 2 = 1
    PROVE  Copied(s, q, n)
<1> DEFINE h == Len(s)
<1> HIDE DEF h
<1>1. h \in Nat /\ q <= h /\ n <= h + 1
  BY DEF h
<1>2. q \in 3 .. h /\ n \in q + 1 .. h + 1
  BY <1>1
<1>3. q \in 3 .. Len(s) /\ n \in q + 1 .. Len(s) + 1
  BY <1>2 DEF h
<1> QED
  BY <1>3, Zenon DEF Copied

LEMMA SpanIndex ==
    ASSUME NEW T, NEW s \in Seq(T), NEW n \in Nat, 1 <= n, n <= Len(s)
    PROVE  n \in 1 .. Len(s) /\ Len(s) \in Nat
OBVIOUS

\* The opening quote.
LEMMA CopiedFirst ==
    ASSUME NEW T, NEW s \in Seq(T), NEW q \in 3 .. Len(s), OpensAt(s, q)
    PROVE  Copied(s, q, q + 1)
<1>1. s[q] # "\\"
  BY Zenon, QuoteBare DEF OpensAt
<1>2. q \in 1 .. Len(s) /\ Len(s) \in Nat
  OBVIOUS
<1>3. BackslashesBefore(s, q + 1) = 0
  BY <1>1, <1>2, BackslashesNext
<1>4. BackslashesBefore(s, q + 1) % 2 = 0
  BY <1>3
<1>5. \A k \in q + 1 .. (q + 1) - 1 : FALSE
  BY <1>2
<1>6. q \in Nat /\ q + 1 \in Nat /\ 3 <= q /\ q < q + 1 /\ q <= Len(s) /\ q + 1 <= Len(s) + 1
  BY <1>2
<1> HIDE DEF OpensAt
<1> QED
  BY <1>2, <1>4, <1>5, <1>6, CopiedMade

\* A character that is neither a quote nor a backslash.
LEMMA CopiedPlain ==
    ASSUME NEW T, NEW s \in Seq(T), NEW q, NEW n, Copied(s, q, n), n <= Len(s),
           s[n] \notin {Quote, "\\"}
    PROVE  Copied(s, q, n + 1)
<1>0. Len(s) \in Nat
  OBVIOUS
<1>1. /\ q \in Nat /\ n \in Nat /\ 3 <= q /\ q < n /\ q <= Len(s) /\ n <= Len(s) + 1
      /\ OpensAt(s, q)
  BY <1>0, CopiedParts
<1>2. \A k \in q + 1 .. n - 1 : s[k] = Quote => BackslashesBefore(s, k) % 2 = 1
  BY <1>0, CopiedParts
<1>3. n \in 1 .. Len(s)
  BY <1>0, <1>1
<1>4. BackslashesBefore(s, n + 1) = 0
  BY <1>3, BackslashesNext
<1>5. BackslashesBefore(s, n + 1) % 2 = 0
  BY <1>4
<1>6. n + 1 \in Nat /\ q < n + 1 /\ n + 1 <= Len(s) + 1
  BY <1>0, <1>1
<1>7. ASSUME NEW k \in q + 1 .. (n + 1) - 1, s[k] = Quote
      PROVE  BackslashesBefore(s, k) % 2 = 1
  <2>1. k # n
    BY <1>7
  <2>2. k \in q + 1 .. n - 1
    BY <1>1, <2>1
  <2> QED
    BY <1>2, <1>7, <2>2
<1> QED
  BY <1>0, <1>1, <1>5, <1>6, <1>7, CopiedMade

\* An escape: a backslash, a character, and characters that are neither.
LEMMA CopiedEscape ==
    ASSUME NEW T, NEW s \in Seq(T), NEW q, NEW n, Copied(s, q, n), n + 1 <= Len(s),
           s[n] = "\\", NEW m \in n + 2 .. Len(s) + 1,
           \A k \in n + 2 .. m - 1 : s[k] \notin {Quote, "\\"}
    PROVE  Copied(s, q, m)
<1> DEFINE B(k) == BackslashesBefore(s, k)
<1>0. Len(s) \in Nat
  OBVIOUS
<1>1. /\ q \in Nat /\ n \in Nat /\ 3 <= q /\ q < n /\ q <= Len(s) /\ n <= Len(s) + 1
      /\ OpensAt(s, q)
  BY <1>0, CopiedParts
<1>2. \A k \in q + 1 .. n - 1 : s[k] = Quote => B(k) % 2 = 1
  BY <1>0, CopiedParts
<1>3. n \in 1 .. Len(s) /\ n + 1 \in 1 .. Len(s)
  BY <1>0, <1>1
<1>4. B(n) \in Nat /\ B(n + 1) = B(n) + 1
  BY <1>3, BackslashesNext
<1>5. B((n + 1) + 1) = IF s[n + 1] = "\\" THEN B(n + 1) + 1 ELSE 0
  BY <1>3, BackslashesNext
<1>6. B(n) % 2 = 0
  BY <1>0, CopiedParts
<1>7. m \in Nat /\ n + 2 <= m /\ m <= Len(s) + 1 /\ q < m
  BY <1>0, <1>1
<1> HIDE DEF B
<1>8. B(n + 1) % 2 = 1 /\ (B(n + 1) + 1) % 2 = 0
  BY <1>4, <1>6
<1>9. B(n + 2) % 2 = 0
  <2>1. (n + 1) + 1 = n + 2
    BY <1>1
  <2>2. B((n + 1) + 1) % 2 = 0
    BY <1>5, <1>8
  <2> QED
    BY <2>1, <2>2
<1>10. B(m) % 2 = 0
  <2>1. CASE m = n + 2
    BY <1>9, <2>1
  <2>2. CASE m # n + 2
    <3>1. m - 1 \in n + 2 .. m - 1 /\ m - 1 \in 1 .. Len(s) /\ (m - 1) + 1 = m
      BY <1>0, <1>1, <1>7, <2>2
    <3>2. s[m - 1] # "\\"
      BY <3>1
    <3>3. BackslashesBefore(s, (m - 1) + 1) = 0
      BY <3>1, <3>2, BackslashesNext
    <3>4. B(m) = 0
      BY <3>1, <3>3 DEF B
    <3> QED
      BY <3>4
  <2> QED
    BY <2>1, <2>2
<1>11. ASSUME NEW k \in q + 1 .. m - 1, s[k] = Quote PROVE B(k) % 2 = 1
  <2>0. k \in Int /\ q + 1 <= k /\ k <= m - 1
    BY <1>1, <1>7
  <2>1. CASE k < n
    <3>1. k \in q + 1 .. n - 1
      BY <1>1, <2>0, <2>1
    <3> QED
      BY <1>2, <1>11, <3>1
  <2>2. CASE k = n + 1
    BY <1>8, <2>2
  <2>3. CASE k >= n + 2
    <3>1. k \in n + 2 .. m - 1
      BY <1>1, <1>7, <2>0, <2>3
    <3> QED
      BY <1>11, <3>1
  <2>4. k # n
    BY <1>11, QuoteBare
  <2>5. k < n \/ k = n + 1 \/ k >= n + 2
    BY <1>1, <2>0, <2>4
  <2> QED
    BY <2>1, <2>2, <2>3, <2>5
<1>12. BackslashesBefore(s, m) % 2 = 0
  BY <1>10 DEF B
<1>13. \A k \in q + 1 .. m - 1 : s[k] = Quote => BackslashesBefore(s, k) % 2 = 1
  BY <1>11, Zenon DEF B
<1> QED
  BY <1>0, <1>1, <1>7, <1>12, <1>13, CopiedMade

\* A quote that is not escaped: the string is not open.
LEMMA CopiedClosed ==
    ASSUME NEW T, NEW s \in Seq(T), NEW q, NEW n, Copied(s, q, n), n <= Len(s),
           s[n] = Quote
    PROVE  ~OpenString(s)
<1> SUFFICES ASSUME OpenString(s) PROVE FALSE
  OBVIOUS
<1>0. Len(s) \in Nat
  OBVIOUS
<1>1. /\ q \in Nat /\ n \in Nat /\ 3 <= q /\ q < n /\ OpensAt(s, q)
      /\ q \in 3 .. Len(s)
  BY <1>0, CopiedParts
<1>2. BackslashesBefore(s, n) % 2 = 0
  BY <1>0, CopiedParts
<1>3. PICK p \in 3 .. Len(s) :
        /\ OpensAt(s, p)
        /\ \A k \in p + 1 .. Len(s) : s[k] = Quote => BackslashesBefore(s, k) % 2 = 1
  BY Zenon DEF OpenString
<1>4. p = q
  BY <1>0, <1>1, <1>3, OpensOnce
<1>5. n \in p + 1 .. Len(s)
  BY <1>0, <1>1, <1>4
<1>6. BackslashesBefore(s, n) % 2 = 1
  BY <1>3, <1>5
<1> QED
  BY <1>2, <1>6

\* A backslash that ends the statement: the string is open.
LEMMA CopiedOpen ==
    ASSUME NEW T, NEW s \in Seq(T), NEW q, NEW n, Copied(s, q, n), n = Len(s),
           s[n] = "\\"
    PROVE  OpenString(s) /\ BackslashesBefore(s, Len(s) + 1) % 2 = 1
<1> DEFINE B(k) == BackslashesBefore(s, k)
<1>0. Len(s) \in Nat
  OBVIOUS
<1>1. /\ q \in Nat /\ n \in Nat /\ 3 <= q /\ q < n /\ OpensAt(s, q)
      /\ q \in 3 .. Len(s)
  BY <1>0, CopiedParts
<1>2. \A k \in q + 1 .. n - 1 : s[k] = Quote => B(k) % 2 = 1
  BY <1>0, CopiedParts
<1>3. n \in 1 .. Len(s)
  BY <1>0, <1>1
<1>4. B(n) \in Nat /\ B(n + 1) = B(n) + 1
  BY <1>3, BackslashesNext
<1>5. B(n) % 2 = 0
  BY <1>0, CopiedParts
<1> HIDE DEF B
<1>6. ASSUME NEW k \in q + 1 .. Len(s), s[k] = Quote PROVE B(k) % 2 = 1
  <2>1. k # n
    BY <1>6, QuoteBare
  <2>2. k \in q + 1 .. n - 1
    BY <1>0, <1>1, <2>1
  <2> QED
    BY <1>2, <1>6, <2>2
<1>7. \A k \in q + 1 .. Len(s) : s[k] = Quote => BackslashesBefore(s, k) % 2 = 1
  BY <1>6, Zenon DEF B
<1>8. OpenString(s)
  BY <1>1, <1>7, Zenon DEF OpenString
<1>9. B(n + 1) % 2 = 1
  BY <1>4, <1>5
<1>10. BackslashesBefore(s, Len(s) + 1) % 2 = 1
  BY <1>9 DEF B
<1> QED
  BY <1>8, <1>10

-----------------------------------------------------------------------------
(* Directives.                                                             *)

\* The reading runs over a directive that has no blank in it or that has a
\* string that is open and ends in a backslash, and over no other statement.
LEMMA RunsOverIf ==
    ASSUME Directed, NEW s, s = Statement(written),
           \/ \A k \in DOMAIN s : s[k] \notin Blanks
           \/ OpenString(s) /\ BackslashesBefore(s, Len(s) + 1) % 2 = 1
    PROVE  RunsOver(written, Dotted)
<1>1. s # <<>> /\ s[1] \in Dotted
  BY DEF Directed
<1>2. White = Blanks
  BY DEF White, Blanks
<1>3. \/ \A k \in DOMAIN s : s[k] \notin White
      \/ OpenString(s) /\ BackslashesBefore(s, Len(s) + 1) % 2 = 1
  BY <1>2
<1> QED
  BY <1>1, <1>3, Zenon DEF RunsOver

LEMMA RunsOverOnly ==
    ASSUME RunsOver(written, Dotted)
    PROVE  /\ Directed
           /\ \/ \A k \in DOMAIN Statement(written) : Statement(written)[k] \notin Blanks
              \/ /\ OpenString(Statement(written))
                 /\ BackslashesBefore(Statement(written), Len(Statement(written)) + 1) % 2 = 1
<1> DEFINE s == Statement(written)
<1> HIDE DEF s
<1>1. s = Statement(written)
  BY DEF s
<1>2. /\ s # <<>> /\ s[1] \in Dotted
      /\ \/ \A k \in DOMAIN s : s[k] \notin White
         \/ OpenString(s) /\ BackslashesBefore(s, Len(s) + 1) % 2 = 1
  BY <1>1, Zenon DEF RunsOver
<1>3. White = Blanks
  BY DEF White, Blanks
<1> QED
  BY <1>1, <1>2, <1>3 DEF Directed

\* What is read as a directive is the statement.
LEMMA DirectiveRead ==
    ASSUME written \in Written, NEW n, TrimmedAt(n), IsDirective
    PROVE  Directed /\ text = Statement(written) /\ text \in Seq(STRING)
<1>1. Directed
  BY UndirectedIsNone
<1>2. n = Start
  BY <1>1, AtLabel DEF TrimmedAt
<1> QED
  BY <1>1, <1>2, AtDirective, StatementText

\* What is read as a blank line, a label or an instruction has none.
LEMMA NoDirectiveRead ==
    ASSUME written \in Written, NEW n, TrimmedAt(n), IsBlank \/ IsAsm
    PROVE  ~RunsOver(written, Dotted)
<1>1. ASSUME Directed PROVE FALSE
  <2>1. CASE n = Start
    BY <1>1, <2>1, AtDirective DEF IsAsm, IsDirective
  <2>2. CASE n + 1 < Start /\ LabelAt(Heading(written), n)
    BY <1>1, <2>2, AtLabel DEF IsAsm
  <2> QED
    BY <1>1, <2>1, <2>2 DEF TrimmedAt
<1> QED
  BY <1>1, RunsOverOnly

\* A directive without a blank behind its name.
LEMMA ScanRunsOver ==
    ASSUME written \in Written, NEW n, TrimmedAt(n), IsDirective, ~EndsInLine
    PROVE  RunsOver(written, Dotted)
<1>1. Directed /\ text = Statement(written)
  BY DirectiveRead
<1>2. \A k \in DOMAIN Statement(written) : Statement(written)[k] \notin Blanks
  BY <1>1 DEF EndsInLine
<1> QED
  BY <1>1, <1>2, RunsOverIf

\* A directive that opens a string has the name of one.
LEMMA OpensNamed ==
    ASSUME NEW s \in Seq(STRING), OpenString(s), s[1] \notin Blanks
    PROVE  \E name \in Strings : UpTo(s, Blanks) = <<name>>
<1>1. PICK q \in 3 .. Len(s) : OpensAt(s, q)
  BY Zenon DEF OpenString
<1>2. s[1] \in Strings /\ s[2] \in White
  BY <1>1, Zenon DEF OpensAt, Strings
<1>3. White = Blanks
  BY DEF White, Blanks
<1>4. /\ 1 \in 1 .. Len(s) /\ 2 \in 1 .. Len(s) + 1 /\ 1 \in 0 .. Len(s)
      /\ 1 \in Nat \ {0} /\ Len(s) \in Nat
  OBVIOUS
<1>5. FirstOf(s, Blanks) = 2
  <2>1. ASSUME NEW k \in 1 .. 2 - 1 PROVE s[k] \notin Blanks
    <3>1. k = 1
      OBVIOUS
    <3> QED
      BY <3>1
  <2> QED
    BY <1>2, <1>3, <1>4, <2>1, FirstOfIs
<1>6. UpTo(s, Blanks) = SubSeq(s, 1, 1)
  BY <1>5 DEF UpTo
<1>7. /\ SubSeq(s, 1, 1) \in Seq(STRING) /\ Len(SubSeq(s, 1, 1)) = 1
      /\ SubSeq(s, 1, 1)[1] = s[1]
  <2>1. /\ SubSeq(s, 1, 1) \in Seq(STRING)
        /\ Len(SubSeq(s, 1, 1)) = IF 1 <= 1 THEN 1 - 1 + 1 ELSE 0
        /\ \A k \in 1 .. Len(SubSeq(s, 1, 1)) : SubSeq(s, 1, 1)[k] = s[1 + k - 1]
    BY <1>4, PartMeans
  <2> QED
    BY <2>1
<1>8. UpTo(s, Blanks) = <<s[1]>>
  <2> DEFINE u == SubSeq(s, 1, 1)
             v == <<s[1]>>
  <2>1. s[1] \in STRING
    BY <1>4
  <2>2. u \in Seq(STRING) /\ Len(u) = 1 /\ u[1] = s[1]
    BY <1>7
  <2>3. v \in Seq(STRING) /\ Len(v) = 1 /\ v[1] = s[1]
    BY <2>1
  <2> HIDE DEF u, v
  <2>4. \A k \in 1 .. Len(u) : u[k] = v[k]
    BY <2>2, <2>3
  <2>5. u = v
    BY <2>2, <2>3, <2>4, SameText
  <2> QED
    BY <1>6, <2>5 DEF u, v
<1> QED
  BY <1>2, <1>8

\* One that is read as another directive, or as none there is, opens none.
LEMMA OtherDirective ==
    ASSUME written \in Written, NEW n, TrimmedAt(n), IsDirective, EndsInLine,
           \A name \in Strings : DirectiveName # <<name>>
    PROVE  ~RunsOver(written, Dotted)
<1> SUFFICES ASSUME RunsOver(written, Dotted) PROVE FALSE
  OBVIOUS
<1>1. Directed /\ text = Statement(written) /\ text \in Seq(STRING)
  BY DirectiveRead
<1>2. OpenString(text)
  BY <1>1, RunsOverOnly DEF EndsInLine
<1>3. text[1] \notin Blanks
  BY LineAssumption DEF IsDirective
<1> QED
  BY <1>1, <1>2, <1>3, OpensNamed DEF DirectiveName

\* What of the statement is not copied yet.
Rest(n) == SubSeq(Statement(written), n, Len(Statement(written)))

\* The argument of a directive that has the name of a string begins behind the
\* blanks that follow the name.
LEMMA ArgumentBegins ==
    ASSUME NEW s \in Seq(STRING), EndsAt(s, s), NEW name, UpTo(s, Blanks) = <<name>>,
           \E k \in DOMAIN s : s[k] \in Blanks
    PROVE  /\ Len(s) \in Nat /\ s[1] = name /\ s[2] \in Blanks
           /\ \E m \in 3 .. Len(s) + 1 :
                /\ trim_whitespace(Behind(s, Blanks)) = SubSeq(s, m, Len(s))
                /\ \A k \in 3 .. m - 1 : s[k] \in Blanks
                /\ m <= Len(s) => s[m] \notin Blanks
<1> DEFINE h == Len(s)
           f == FirstOf(s, Blanks)
<1>1. /\ h \in Nat /\ f \in 1 .. h + 1 /\ \A k \in 1 .. f - 1 : s[k] \notin Blanks
      /\ f <= h => s[f] \in Blanks
  BY FirstOfMeans
<1>2. PICK k \in 1 .. h : s[k] \in Blanks
  OBVIOUS
<1>3. f <= h /\ f \in Nat
  <2> HIDE DEF f, h
  <2>1. ASSUME f > h PROVE FALSE
    <3>1. k \in 1 .. f - 1
      BY <1>1, <1>2, <2>1
    <3> QED
      BY <1>1, <1>2, <3>1
  <2> QED
    BY <1>1, <2>1
<1>4. UpTo(s, Blanks) = SubSeq(s, 1, f - 1)
  BY DEF UpTo
<1>5. f - 1 \in 0 .. Len(s) /\ 1 \in Nat \ {0}
  <2> HIDE DEF f
  <2> QED
    BY <1>1, <1>3
<1>6. /\ Len(SubSeq(s, 1, f - 1)) = IF 1 <= f - 1 THEN f - 1 - 1 + 1 ELSE 0
      /\ \A j \in 1 .. Len(SubSeq(s, 1, f - 1)) : SubSeq(s, 1, f - 1)[j] = s[1 + j - 1]
  <2> HIDE DEF f
  <2> QED
    BY <1>5, PartMeans
<1>7. Len(<<name>>) = 1 /\ <<name>>[1] = name
  OBVIOUS
<1> HIDE DEF f, h
<1>8. f = 2 /\ s[1] = name
  <2> DEFINE u == SubSeq(s, 1, f - 1)
             v == <<name>>
  <2>1. /\ Len(u) = IF 1 <= f - 1 THEN f - 1 - 1 + 1 ELSE 0
        /\ \A j \in 1 .. Len(u) : u[j] = s[1 + j - 1]
    BY <1>6
  <2>2. Len(v) = 1 /\ v[1] = name /\ u = v
    BY <1>4, <1>7
  <2> DEFINE l == Len(u)
  <2> HIDE DEF u, v
  <2>a. l = 1 /\ l = IF 1 <= f - 1 THEN f - 1 - 1 + 1 ELSE 0
    BY <2>1, <2>2
  <2> HIDE DEF l
  <2>3. f = 2
    BY <1>3, <2>a
  <2>4. 1 \in 1 .. l /\ 1 + 1 - 1 = 1
    BY <2>a
  <2>5. u[1] = s[1]
    BY <2>1, <2>4 DEF l
  <2> QED
    BY <2>2, <2>3, <2>5
<1>9. s[2] \in Blanks /\ 3 \in 1 .. h + 1
  BY <1>1, <1>3, <1>8
<1>10. Behind(s, Blanks) = SubSeq(s, 3, Len(s))
  BY <1>8 DEF Behind, f
<1>11. 3 \in 1 .. Len(s) + 1
  BY <1>9 DEF h
<1>12. \E m \in 3 .. Len(s) + 1 :
                /\ trim_whitespace(SubSeq(s, 3, Len(s))) = SubSeq(s, m, Len(s))
                /\ \A j \in 3 .. m - 1 : s[j] \in Blanks
                /\ m <= Len(s) => s[m] \notin Blanks
  BY <1>11, TrimmedFrom
<1> QED
  BY <1>1, <1>8, <1>9, <1>10, <1>12 DEF h

\* The tail of a text is its rest from the second lexeme on.
LEMMA TailRest ==
    ASSUME NEW T, NEW t \in Seq(T), t # <<>>
    PROVE  Tail(t) = SubSeq(t, 2, Len(t))
<1> DEFINE a == Tail(t)
           b == SubSeq(t, 2, Len(t))
<1>1. a \in Seq(T) /\ Len(a) = Len(t) - 1 /\ Len(t) \in Nat \ {0}
  BY TailText
<1>2. \A k \in 1 .. Len(a) : a[k] = t[k + 1]
  OBVIOUS
<1>3. 2 \in 1 .. Len(t) + 1
  BY <1>1
<1>4. /\ b \in Seq(T) /\ Len(b) = Len(t) - 2 + 1
      /\ \A k \in 1 .. Len(b) : b[k] = t[2 + k - 1]
  BY <1>3, SuffixText
<1> HIDE DEF a, b
<1>5. ASSUME NEW k \in 1 .. Len(a) PROVE a[k] = b[k]
  <2>1. 2 + k - 1 = k + 1 /\ k \in 1 .. Len(b)
    BY <1>1, <1>4
  <2> QED
    BY <1>2, <1>4, <2>1
<1>6. Len(a) = Len(b)
  BY <1>1, <1>4
<1>7. a = b
  BY <1>1, <1>4, <1>5, <1>6, SameText
<1> QED
  BY <1>7 DEF a, b

LEMMA StringRead ==
    ASSUME written \in Written, NEW n, TrimmedAt(n), IsDirective, EndsInLine,
           NEW name \in Strings, DirectiveName = <<name>>,
           NEW args, args = trim_whitespace(Behind(text, Blanks))
    PROVE  /\ args # <<>> /\ args[1] = Quote =>
                \E q, m : Copied(Statement(written), q, m) /\ Tail(args) = Rest(m)
           /\ args = <<>> \/ args[1] # Quote => ~RunsOver(written, Dotted)
<1> DEFINE s == Statement(written)
<1>1. Directed /\ text = s /\ s \in Seq(STRING)
  BY DirectiveRead
<1>2. EndsAt(s, s)
  BY WholeEnds
<1> HIDE DEF s
<1>3. /\ Len(s) \in Nat /\ s[1] = name /\ s[2] \in Blanks
      /\ \E m \in 3 .. Len(s) + 1 :
            /\ args = SubSeq(s, m, Len(s))
            /\ \A k \in 3 .. m - 1 : s[k] \in Blanks
            /\ m <= Len(s) => s[m] \notin Blanks
  BY <1>1, <1>2, ArgumentBegins DEF EndsInLine, DirectiveName
<1>4. PICK m \in 3 .. Len(s) + 1 :
            /\ args = SubSeq(s, m, Len(s))
            /\ \A k \in 3 .. m - 1 : s[k] \in Blanks
            /\ m <= Len(s) => s[m] \notin Blanks
  BY <1>3
<1>5. White = Blanks
  BY DEF White, Blanks
<1>6. /\ args \in Seq(STRING) /\ Len(args) = Len(s) - m + 1
      /\ \A k \in 1 .. Len(args) : args[k] = s[m + k - 1]
  <2> DEFINE u == SubSeq(s, m, Len(s))
  <2>1. m \in 1 .. Len(s) + 1
    BY <1>3
  <2>2. /\ u \in Seq(STRING) /\ Len(u) = Len(s) - m + 1
        /\ \A k \in 1 .. Len(u) : u[k] = s[m + k - 1]
    BY <1>1, <2>1, SuffixText
  <2>3. args = u
    BY <1>4
  <2> HIDE DEF u
  <2> QED
    BY <2>2, <2>3
<1>7. args # <<>> => m \in 3 .. Len(s) /\ args[1] = s[m]
  <2> SUFFICES ASSUME args # <<>> PROVE m \in 3 .. Len(s) /\ args[1] = s[m]
    OBVIOUS
  <2>1. Len(args) # 0 /\ Len(args) \in Nat
    BY <1>6
  <2>2. 1 \in 1 .. Len(args) /\ m + 1 - 1 = m /\ m <= Len(s)
    BY <1>3, <1>6, <2>1
  <2>3. args[1] = s[m + 1 - 1]
    BY <1>6, <2>2
  <2> QED
    BY <1>3, <2>2, <2>3
<1>8. ASSUME args # <<>>, args[1] = Quote
      PROVE  \E q, p : Copied(s, q, p) /\ Tail(args) = SubSeq(s, p, Len(s))
  <2>1. m \in 3 .. Len(s) /\ s[m] = Quote
    BY <1>7, <1>8
  <2>2. s[1] \in {".string", ".asciz", ".ascii"}
    BY <1>3 DEF Strings
  <2>3. OpensAt(s, m)
    BY <1>3, <1>4, <1>5, <2>1, <2>2, Zenon DEF OpensAt
  <2>4. Copied(s, m, m + 1)
    BY <1>1, <2>1, <2>3, CopiedFirst
  <2>5. Tail(args) = SubSeq(s, m + 1, Len(s))
    <3>1. m \in 1 .. Len(s) + 1 /\ 2 \in 1 .. Len(args) + 1 /\ m + 2 - 1 = m + 1
      BY <1>3, <1>6, <2>1
    <3>2. SubSeq(args, 2, Len(args)) = SubSeq(s, m + 2 - 1, Len(s))
      <4>1. args = SubSeq(s, m, Len(s))
        BY <1>4
      <4>2. s \in Seq(STRING) /\ m \in 1 .. Len(s) + 1
        BY <1>1, <3>1
      <4>3. \A p \in 1 .. Len(args) + 1 :
                SubSeq(args, p, Len(args)) = SubSeq(s, m + p - 1, Len(s))
        BY <4>1, <4>2, SuffixOfSuffix
      <4> QED
        BY <3>1, <4>3, Zenon
    <3> QED
      BY <1>6, <1>8, <3>1, <3>2, TailRest
  <2> QED
    BY <2>4, <2>5
<1>9. ASSUME args = <<>> \/ args[1] # Quote PROVE ~OpenString(s)
  <2> SUFFICES ASSUME OpenString(s) PROVE FALSE
    OBVIOUS
  <2>1. PICK q \in 3 .. Len(s) : OpensAt(s, q)
    BY Zenon DEF OpenString
  <2>2. s[q] = Quote /\ \A k \in 3 .. q - 1 : s[k] \in Blanks
    BY <1>5, <2>1, Zenon DEF OpensAt
  <2>3. Quote \notin Blanks
    BY <1>5, QuoteBare
  <2>4. ~(q < m)
    <3> SUFFICES ASSUME q < m PROVE FALSE
      OBVIOUS
    <3>1. q \in 3 .. m - 1
      BY <1>3
    <3> QED
      BY <1>4, <2>2, <2>3, <3>1
  <2>5. m <= Len(s)
    BY <1>3, <2>4
  <2>6. args # <<>>
    <3>1. Len(args) # 0
      BY <1>3, <1>6, <2>5
    <3> QED
      BY <3>1
  <2>7. s[m] # Quote /\ s[m] \notin Blanks
    BY <1>4, <1>7, <1>9, <2>5, <2>6
  <2>8. m \in 3 .. q - 1
    <3>1. m # q
      BY <2>2, <2>7
    <3> QED
      BY <1>3, <2>4, <3>1
  <2> QED
    BY <2>2, <2>7, <2>8
<1>10. \E k \in DOMAIN s : s[k] \in Blanks
  BY <1>1 DEF EndsInLine
<1>11. ASSUME args = <<>> \/ args[1] # Quote PROVE ~RunsOver(written, Dotted)
  BY <1>9, <1>10, <1>11, RunsOverOnly DEF s
<1> QED
  BY <1>8, <1>11 DEF s, Rest

-----------------------------------------------------------------------------
(* Strings.                                                                *)

\* A numeric escape takes digits alone.
LEMMA EscapeDigits ==
    ASSUME text \in Seq(STRING), Len(text) > 1, NEW base \in {8, 16}
    PROVE  /\ NumericEscape(base).size \in 0 .. Len(text) - 2
           /\ \A k \in 3 .. 2 + NumericEscape(base).size : text[k] \notin {Quote, "\\"}
<1> DEFINE t == Len(text)
           digits == [k \in 1 .. Len(text) - 2 |->
                        IF text[k + 2] \in DOMAIN HexDigit THEN HexDigit[text[k + 2]]
                        ELSE base]
           size == Taken(digits, base)
<1>1. \A k \in 1 .. Len(text) - 2 : digits[k] \in Int
  BY HexDigits
<1>2. t \in Nat /\ t > 1 /\ digits \in Seq(Int) /\ Len(digits) = t - 2
  BY <1>1
<1>3. \A k \in 1 .. t - 2 : digits[k] < base => text[k + 2] \in DOMAIN HexDigit
  OBVIOUS
<1> HIDE DEF digits
<1>4. size \in 0 .. t - 2 /\ \A k \in 1 .. size : digits[k] < base
  <2>0. digits \in Seq(Int) /\ base \in Int
    BY <1>2
  <2>1. size \in 0 .. Len(digits) /\ \A k \in 1 .. size : digits[k] < base
    BY <2>0, TakenCounts, Zenon
  <2> QED
    BY <1>2, <2>1
<1>5. NumericEscape(base).size = size
  BY DEF NumericEscape, digits
<1>6. \A d \in DOMAIN HexDigit : d \notin {Quote, "\\"}
  BY LineAssumption
<1> HIDE DEF size, t
<1>7. ASSUME NEW k \in 3 .. 2 + size PROVE text[k] \notin {Quote, "\\"}
  <2>1. k - 2 \in 1 .. size /\ k - 2 \in 1 .. t - 2 /\ (k - 2) + 2 = k
    BY <1>2, <1>4
  <2>2. text[(k - 2) + 2] \in DOMAIN HexDigit
    BY <1>3, <1>4, <2>1
  <2> QED
    BY <1>6, <2>1, <2>2
<1> QED
  BY <1>4, <1>5, <1>7 DEF t

\* What is still to be read of an open string, as long as it is the line's.
StringAt ==
    /\ Directed
    /\ \E q, n : Copied(Statement(written), q, n) /\ text = Rest(n)

\* The text is what there is of s from n on.
Unread(s, n) ==
    /\ n \in Nat /\ Len(s) \in Nat /\ n \in 1 .. Len(s) + 1
    /\ text \in Seq(STRING) /\ Len(text) = Len(s) - n + 1
    /\ \A k \in 1 .. Len(text) : text[k] = s[n + k - 1]
    /\ \A p \in 1 .. Len(text) + 1 :
            SubSeq(text, p, Len(text)) = SubSeq(s, n + p - 1, Len(s))

LEMMA StringRest ==
    ASSUME written \in Written, StringAt, NEW s, s = Statement(written)
    PROVE  \E q, n : Copied(s, q, n) /\ Unread(s, n)
<1>1. s \in Seq(STRING)
  BY StatementText
<1>2. Len(s) \in Nat
  BY <1>1
<1>3. PICK q, n : Copied(s, q, n) /\ text = SubSeq(s, n, Len(s))
  BY Zenon DEF StringAt, Rest
<1>4. q \in Nat /\ n \in Nat /\ 3 <= q /\ q < n /\ n <= Len(s) + 1
  BY <1>2, <1>3, CopiedParts
<1>5. n \in 1 .. Len(s) + 1
  BY <1>2, <1>4
<1> DEFINE u == SubSeq(s, n, Len(s))
<1>6. /\ u \in Seq(STRING) /\ Len(u) = Len(s) - n + 1
      /\ \A k \in 1 .. Len(u) : u[k] = s[n + k - 1]
  BY <1>1, <1>5, SuffixText
<1>7. u = SubSeq(s, n, Len(s))
  OBVIOUS
<1>8. text = u
  BY <1>3
<1> HIDE DEF u
<1>9. \A p \in 1 .. Len(u) + 1 : SubSeq(u, p, Len(u)) = SubSeq(s, n + p - 1, Len(s))
  BY <1>1, <1>5, <1>7, SuffixOfSuffix
<1>10. /\ text \in Seq(STRING) /\ Len(text) = Len(s) - n + 1
       /\ \A k \in 1 .. Len(text) : text[k] = s[n + k - 1]
       /\ \A p \in 1 .. Len(text) + 1 :
            SubSeq(text, p, Len(text)) = SubSeq(s, n + p - 1, Len(s))
  BY <1>6, <1>8, <1>9, Zenon
<1>11. n \in Nat
  BY <1>4
<1>12. Unread(s, n)
  BY <1>2, <1>5, <1>10, <1>11, Zenon DEF Unread
<1> QED
  BY <1>3, <1>12, Zenon

LEMMA PlainRead ==
    ASSUME written \in Written, StringAt, text # <<>>, text[1] \notin {Quote, "\\"},
           text' = Tail(text), written' = written
    PROVE  StringAt'
<1> DEFINE s == Statement(written)
<1>1. s \in Seq(STRING)
  BY StatementText
<1>2. s = Statement(written)
  OBVIOUS
<1> HIDE DEF s
<1>a. PICK q, n : Copied(s, q, n) /\ Unread(s, n)
  BY <1>2, StringRest, Zenon
<1>3. /\ Copied(s, q, n)
      /\ n \in Nat /\ Len(s) \in Nat /\ n \in 1 .. Len(s) + 1
      /\ text \in Seq(STRING) /\ Len(text) = Len(s) - n + 1
      /\ \A k \in 1 .. Len(text) : text[k] = s[n + k - 1]
      /\ \A p \in 1 .. Len(text) + 1 :
            SubSeq(text, p, Len(text)) = SubSeq(s, n + p - 1, Len(s))
  BY <1>a, Zenon DEF Unread
<1>4. Len(text) \in Nat \ {0}
  BY <1>3
<1>5. 1 \in 1 .. Len(text) /\ 2 \in 1 .. Len(text) + 1 /\ n + 1 - 1 = n /\ n + 2 - 1 = n + 1
      /\ n <= Len(s)
  BY <1>3, <1>4
<1>6. s[n] \notin {Quote, "\\"}
  <2>1. text[1] = s[n + 1 - 1]
    BY <1>3, <1>5
  <2> QED
    BY <1>5, <2>1
<1>7. Copied(s, q, n + 1)
  BY <1>1, <1>3, <1>5, <1>6, CopiedPlain
<1>8. text' = SubSeq(s, n + 1, Len(s))
  <2>1. Tail(text) = SubSeq(text, 2, Len(text))
    BY <1>3, TailRest
  <2> QED
    BY <1>3, <1>5, <2>1
<1> QED
  BY <1>7, <1>8, Zenon DEF StringAt, Directed, Rest, s

LEMMA EscapeRead ==
    ASSUME written \in Written, StringAt, Len(text) > 1, text[1] = "\\",
           NEW size \in 0 .. Len(text) - 2,
           \A k \in 3 .. 2 + size : text[k] \notin {Quote, "\\"},
           text' = SubSeq(text, 3 + size, Len(text)), written' = written
    PROVE  StringAt'
<1> DEFINE s == Statement(written)
<1>1. s \in Seq(STRING)
  BY StatementText
<1>2. s = Statement(written)
  OBVIOUS
<1> HIDE DEF s
<1>a. PICK q, n : Copied(s, q, n) /\ Unread(s, n)
  BY <1>2, StringRest, Zenon
<1>3. /\ Copied(s, q, n)
      /\ n \in Nat /\ Len(s) \in Nat /\ n \in 1 .. Len(s) + 1
      /\ text \in Seq(STRING) /\ Len(text) = Len(s) - n + 1
      /\ \A k \in 1 .. Len(text) : text[k] = s[n + k - 1]
      /\ \A p \in 1 .. Len(text) + 1 :
            SubSeq(text, p, Len(text)) = SubSeq(s, n + p - 1, Len(s))
  BY <1>a, Zenon DEF Unread
<1> DEFINE m == n + 2 + size
<1>4. /\ 1 \in 1 .. Len(text) /\ n + 1 - 1 = n /\ n + 1 <= Len(s)
      /\ 3 + size \in 1 .. Len(text) + 1 /\ n + (3 + size) - 1 = m
      /\ m \in n + 2 .. Len(s) + 1
  BY <1>3
<1>5. s[n] = "\\"
  <2>1. text[1] = s[n + 1 - 1]
    BY <1>3, <1>4
  <2> QED
    BY <1>4, <2>1
<1>6. ASSUME NEW k \in n + 2 .. m - 1 PROVE s[k] \notin {Quote, "\\"}
  <2>1. k - n + 1 \in 3 .. 2 + size /\ k - n + 1 \in 1 .. Len(text) /\ n + (k - n + 1) - 1 = k
    BY <1>3
  <2>2. text[k - n + 1] = s[n + (k - n + 1) - 1]
    BY <1>3, <2>1
  <2> QED
    BY <2>1, <2>2
<1>7. text' = SubSeq(s, m, Len(s))
  BY <1>3, <1>4
<1> HIDE DEF m
<1>8. Copied(s, q, m)
  BY <1>1, <1>3, <1>4, <1>5, <1>6, CopiedEscape
<1> QED
  BY <1>7, <1>8, Zenon DEF StringAt, Directed, Rest, s

\* A string that was opened has a blank behind the name of its directive.
LEMMA CopiedNotBare ==
    ASSUME NEW s \in Seq(STRING), NEW q, NEW n, Copied(s, q, n)
    PROVE  ~ \A k \in DOMAIN s : s[k] \notin Blanks
<1>1. Len(s) \in Nat
  OBVIOUS
<1>2. q \in Nat /\ 3 <= q /\ q <= Len(s) /\ OpensAt(s, q)
  BY <1>1, CopiedParts
<1>3. 2 \in DOMAIN s
  BY <1>1, <1>2
<1>4. s[2] \in White
  BY <1>2, Zenon DEF OpensAt
<1>5. White = Blanks
  BY DEF White, Blanks
<1> QED
  BY <1>3, <1>4, <1>5

\* The quote that closes the string, and the end of a string without one.
LEMMA ClosedRead ==
    ASSUME written \in Written, StringAt, text = <<>> \/ text[1] = Quote
    PROVE  ~RunsOver(written, Dotted)
<1> DEFINE s == Statement(written)
<1>1. s \in Seq(STRING)
  BY StatementText
<1>2. s = Statement(written)
  OBVIOUS
<1> HIDE DEF s
<1>3. PICK q, n : Copied(s, q, n) /\ Unread(s, n)
  BY <1>2, StringRest, Zenon
<1>4. /\ Copied(s, q, n)
      /\ n \in Nat /\ Len(s) \in Nat /\ n \in 1 .. Len(s) + 1
      /\ text \in Seq(STRING) /\ Len(text) = Len(s) - n + 1
      /\ \A k \in 1 .. Len(text) : text[k] = s[n + k - 1]
  BY <1>3, Zenon DEF Unread
<1>5. ASSUME text = <<>> PROVE BackslashesBefore(s, Len(s) + 1) % 2 = 0
  <2>1. n = Len(s) + 1
    <3>1. Len(text) = 0
      BY <1>5
    <3> QED
      BY <1>4, <3>1
  <2>2. BackslashesBefore(s, n) % 2 = 0
    BY <1>4, CopiedParts
  <2> QED
    BY <2>1, <2>2
<1>6. ASSUME text # <<>>, text[1] = Quote PROVE ~OpenString(s)
  <2>1. Len(text) \in Nat \ {0}
    BY <1>4, <1>6
  <2>2. 1 \in 1 .. Len(text) /\ n + 1 - 1 = n /\ n <= Len(s)
    BY <1>4, <2>1
  <2>3. s[n] = Quote
    <3>1. text[1] = s[n + 1 - 1]
      BY <1>4, <2>2
    <3> QED
      BY <1>6, <2>2, <3>1
  <2> QED
    BY <1>1, <1>4, <2>2, <2>3, CopiedClosed
<1>7. ~ \A k \in DOMAIN s : s[k] \notin Blanks
  BY <1>1, <1>4, CopiedNotBare
<1> SUFFICES ASSUME RunsOver(written, Dotted) PROVE FALSE
  OBVIOUS
<1>8. OpenString(s) /\ BackslashesBefore(s, Len(s) + 1) % 2 = 1
  BY <1>2, <1>7, RunsOverOnly
<1>9. text = <<>>
  BY <1>6, <1>8
<1> QED
  BY <1>5, <1>8, <1>9

\* The backslash that ends the line.
LEMMA EscapedEndRead ==
    ASSUME written \in Written, StringAt, text = <<"\\">>
    PROVE  RunsOver(written, Dotted)
<1> DEFINE s == Statement(written)
<1>1. s \in Seq(STRING)
  BY StatementText
<1>2. s = Statement(written)
  OBVIOUS
<1> HIDE DEF s
<1>3. PICK q, n : Copied(s, q, n) /\ Unread(s, n)
  BY <1>2, StringRest, Zenon
<1>4. /\ Copied(s, q, n)
      /\ n \in Nat /\ Len(s) \in Nat /\ n \in 1 .. Len(s) + 1
      /\ text \in Seq(STRING) /\ Len(text) = Len(s) - n + 1
      /\ \A k \in 1 .. Len(text) : text[k] = s[n + k - 1]
  BY <1>3, Zenon DEF Unread
<1>5. Len(text) = 1 /\ text[1] = "\\"
  OBVIOUS
<1>6. n = Len(s) /\ 1 \in 1 .. Len(text) /\ n + 1 - 1 = n
  BY <1>4, <1>5
<1>7. s[n] = "\\"
  <2>1. text[1] = s[n + 1 - 1]
    BY <1>4, <1>6
  <2> QED
    BY <1>5, <1>6, <2>1
<1>8. OpenString(s) /\ BackslashesBefore(s, Len(s) + 1) % 2 = 1
  BY <1>1, <1>4, <1>6, <1>7, CopiedOpen
<1> QED
  BY <1>2, <1>8, RunsOverIf DEF StringAt

-----------------------------------------------------------------------------
(* The invariant of the reading behind the end.                            *)

OverInv ==
    /\ written \in Written
    /\ overread => RunsOver(written, Dotted)
    /\ point = "line" => ~overread /\ \E n : LineAt(n)
    /\ point = "trimmed" => (Running => ~overread) /\ \E n : TrimmedAt(n)
    /\ point = "string" /\ ~overread => StringAt
    /\ RunsOver(written, Dotted) =>
            \/ overread
            \/ point \notin {"parsed", "written", "refused"} /\ (Running \/ WideEscape)

LEMMA OverEnough == OverInv => OverreadExactly
BY DEF OverInv, OverreadExactly

LEMMA OverInit == Init => OverInv
<1> SUFFICES ASSUME Init PROVE OverInv
  OBVIOUS
<1>1. /\ written \in Written /\ text = Rendered(written) /\ point = "line"
      /\ overread = FALSE /\ Running
  BY DEF Init, ProcessInit, Running
<1>2. LineAt(1)
  <2>1. /\ Len(Whole) \in Nat /\ Len(Heading(written)) \in Nat
    BY <1>1, WholeText
  <2> QED
    BY <1>1, <2>1 DEF LineAt, Start
<1> QED
  BY <1>1, <1>2 DEF OverInv

\* A step with which the scan for the end of a directive's name has run over
\* the line, or the line is none with which the reading does.
LEMMA OverScanned ==
    ASSUME OverInv, Reading, IsDirective, Scanned, written' = written,
           point' \notin {"line", "string"},
           point' = "trimmed" => point = "trimmed" /\ text' = text /\ ~Running',
           EndsInLine => ~RunsOver(written, Dotted)
    PROVE  OverInv'
<1>1. written \in Written /\ ~overread /\ point = "trimmed"
  BY DEF OverInv, Reading
<1>2. PICK n : TrimmedAt(n)
  BY <1>1 DEF OverInv
<1>3. ~EndsInLine => RunsOver(written, Dotted)
  BY <1>1, <1>2, ScanRunsOver
<1>4. overread' = ~EndsInLine
  BY <1>1 DEF Scanned
<1>5. RunsOver(written, Dotted)' = RunsOver(written, Dotted)
  OBVIOUS
<1>6. point' = "trimmed" => TrimmedAt(n)'
  BY <1>2 DEF TrimmedAt, WordAt, RestFrom, Whole, Directed, Start
<1> QED
  BY <1>1, <1>3, <1>4, <1>5, <1>6, Zenon DEF OverInv

\* A step that reads nothing, and that ends the program only if the reading has
\* run over the line or does not run over it.
LEMMA OverKept ==
    ASSUME OverInv, UNCHANGED <<written, text, point, overread>>,
           Running' = Running \/ ~RunsOver(written, Dotted) \/ overread \/ WideEscape,
           Running' => Running
    PROVE  OverInv'
<1>1. RunsOver(written, Dotted)' = RunsOver(written, Dotted)
  OBVIOUS
<1>2. \A n : (LineAt(n)' <=> LineAt(n)) /\ (TrimmedAt(n)' <=> TrimmedAt(n))
  BY DEF LineAt, TrimmedAt, WordAt, RestFrom, Whole, Directed, Start
<1>3. StringAt' <=> StringAt
  BY DEF StringAt, Directed, Rest
<1>4. WideEscape' <=> WideEscape
  BY DEF WideEscape, NumericEscape, NumericBase
<1> QED
  BY <1>1, <1>2, <1>3, <1>4 DEF OverInv

\* A step that copies a character.
LEMMA OverCopied ==
    ASSUME OverInv, Copying, point' = "string", written' = written, Running',
           overread' = overread, ~overread => StringAt'
    PROVE  OverInv'
<1>1. RunsOver(written, Dotted)' = RunsOver(written, Dotted)
  OBVIOUS
<1> QED
  BY <1>1 DEF OverInv, Copying

\* A step that ends the line.
LEMMA OverEnds ==
    ASSUME OverInv, point' \in {"parsed", "written"}, written' = written,
           overread' = overread, ~overread => ~RunsOver(written, Dotted)
    PROVE  OverInv'
<1>1. RunsOver(written, Dotted)' = RunsOver(written, Dotted)
  OBVIOUS
<1> QED
  BY <1>1 DEF OverInv

LEMMA OverStep == FitsInv /\ OverInv /\ [Next]_vars => OverInv'
<1> SUFFICES ASSUME FitsInv, OverInv, [Next]_vars PROVE OverInv'
  OBVIOUS
<1> USE DEF lineVars, processVars
<1>0. written \in Written /\ text \in Seq(STRING)
  BY DEF OverInv, FitsInv
<1>a. ASSUME Reading PROVE ~overread /\ point = "trimmed" /\ \E n : TrimmedAt(n)
  BY <1>a DEF OverInv, Reading
<1>1. ASSUME parse_line PROVE OverInv'
  <2>1. /\ point = "line" /\ Running /\ point' = "trimmed" /\ text' = trim_whitespace(text)
        /\ written' = written /\ overread' = overread /\ status' = status
    BY <1>1 DEF parse_line
  <2>2. PICK n : LineAt(n)
    BY <2>1 DEF OverInv
  <2>3. PICK m \in 1 .. Len(Whole) + 1 :
            /\ trim_whitespace(text) = RestFrom(m) /\ WordAt(m)
            /\ Directed => m = Start \/ (m + 1 < Start /\ LabelAt(Heading(written), m))
    BY <1>0, <2>2, LineTrimmed
  <2>4. TrimmedAt(m)'
    BY <2>1, <2>3 DEF TrimmedAt, WordAt, RestFrom, Whole, Directed, Start
  <2>5. RunsOver(written, Dotted)' = RunsOver(written, Dotted)
    BY <2>1
  <2>6. ~overread /\ Running'
    BY <2>1 DEF OverInv, Running
  <2> QED
    BY <2>1, <2>4, <2>5, <2>6, Zenon DEF OverInv
<1>2. ASSUME ParseBlank PROVE OverInv'
  <2>1. /\ point' = "parsed" /\ written' = written /\ overread' = overread
        /\ Reading /\ IsBlank
    BY <1>2 DEF ParseBlank, Succeed
  <2>2. ~RunsOver(written, Dotted)
    BY <1>0, <1>a, <2>1, NoDirectiveRead
  <2> QED
    BY <2>1, <2>2, OverEnds
<1>3. ASSUME parse_label PROVE OverInv'
  <2>1. /\ Reading /\ IsLabel /\ Running /\ point' = "line" /\ text' = Behind(text, {":"})
        /\ written' = written /\ overread' = overread /\ status' = status
    BY <1>3 DEF parse_label, Reading
  <2>2. PICK n : TrimmedAt(n)
    BY <1>a, <2>1
  <2>3. PICK m \in 1 .. Len(Whole) + 1 :
            /\ m > 1 /\ Whole[m - 1] = ":" /\ Behind(text, {":"}) = RestFrom(m)
            /\ Directed => m <= Start
    BY <1>0, <2>1, <2>2, LabelPassed
  <2>4. LineAt(m)'
    BY <2>1, <2>3 DEF LineAt, RestFrom, Whole, Directed, Start
  <2>5. RunsOver(written, Dotted)' = RunsOver(written, Dotted)
    BY <2>1
  <2>6. ~overread /\ Running'
    BY <1>a, <2>1 DEF Running
  <2> QED
    BY <2>1, <2>4, <2>5, <2>6, Zenon DEF OverInv
<1>4. ASSUME ScanFaults PROVE OverInv'
  <2>1. /\ Reading /\ IsDirective /\ ~EndsInLine /\ overread' = TRUE /\ ~Running'
        /\ UNCHANGED <<written, text, point>>
    BY <1>4 DEF ScanFaults, Fault, Running
  <2> QED
    BY <1>a, <2>1, OverScanned DEF Scanned
<1>5. ASSUME UnknownDirective PROVE OverInv'
  <2>1. /\ Reading /\ IsDirective /\ Scanned /\ ~Running'
        /\ UNCHANGED <<written, text, point>>
        /\ \A name \in Directives : DirectiveName # <<name>>
    BY <1>5 DEF UnknownDirective, Logger, Fatal, Running
  <2>2. EndsInLine => ~RunsOver(written, Dotted)
    BY <1>0, <1>a, <2>1, OtherDirective DEF Directives
  <2> QED
    BY <1>a, <2>1, <2>2, OverScanned
<1>6. ASSUME NEW args, parse_section(args) PROVE OverInv'
  <2>1. /\ Reading /\ IsDirective /\ Scanned /\ written' = written
        /\ point' \in {"parsed", "refused"} /\ DirectiveName = <<".section">>
    BY <1>6 DEF parse_section, ParseDirective
  <2>2. EndsInLine => ~RunsOver(written, Dotted)
    BY <1>0, <1>a, <2>1, OtherDirective DEF Strings
  <2> QED
    BY <2>1, <2>2, OverScanned
<1>7. ASSUME NEW args, parse_global(args) PROVE OverInv'
  <2>1. /\ Reading /\ IsDirective /\ Scanned /\ written' = written
        /\ point' = "parsed" /\ DirectiveName = <<".globl">>
    BY <1>7 DEF parse_global, ParseDirective
  <2>2. EndsInLine => ~RunsOver(written, Dotted)
    BY <1>0, <1>a, <2>1, OtherDirective DEF Strings
  <2> QED
    BY <2>1, <2>2, OverScanned
<1>8. ASSUME NEW args, NEW name \in Strings,
             EndsInLine => args = trim_whitespace(Behind(text, Blanks)),
             parse_ascii_generic(name, args)
      PROVE  OverInv'
  <2>1. /\ Reading /\ IsDirective /\ Scanned /\ written' = written
        /\ DirectiveName = <<name>> /\ Running
    BY <1>8 DEF parse_ascii_generic, ParseDirective, Reading
  <2>2. PICK n : TrimmedAt(n)
    BY <1>a, <2>1
  <2>3. CASE args # <<>> /\ args[1] = Quote
    <3>1. point' = "string" /\ text' = Tail(args) /\ status' = status
      BY <1>8, <2>3 DEF parse_ascii_generic
    <3>2. ASSUME EndsInLine PROVE StringAt'
      <4>1. \E q, m : Copied(Statement(written), q, m) /\ Tail(args) = Rest(m)
        BY <1>0, <1>8, <2>1, <2>2, <2>3, <3>2, StringRead
      <4>2. Directed
        BY <1>0, <2>1, <2>2, DirectiveRead
      <4> QED
        BY <2>1, <3>1, <4>1, <4>2 DEF StringAt, Directed, Rest
    <3>3. ~EndsInLine => RunsOver(written, Dotted)
      BY <1>0, <2>1, <2>2, ScanRunsOver
    <3>4. overread' = ~EndsInLine
      BY <1>a, <2>1 DEF Scanned
    <3>5. RunsOver(written, Dotted)' = RunsOver(written, Dotted)
      BY <2>1
    <3>6. Running'
      BY <2>1, <3>1 DEF Running
    <3> QED
      BY <1>0, <2>1, <3>1, <3>2, <3>3, <3>4, <3>5, <3>6, Zenon DEF OverInv
  <2>4. CASE args = <<>> \/ args[1] # Quote
    <3>1. \/ point' = "refused"
          \/ UNCHANGED <<text, point>> /\ ~Running'
      BY <1>8, <2>4 DEF parse_ascii_generic, Logger, Fatal, Running
    <3>2. EndsInLine => ~RunsOver(written, Dotted)
      BY <1>0, <1>8, <2>1, <2>2, <2>4, StringRead
    <3> QED
      BY <1>a, <2>1, <3>1, <3>2, OverScanned
  <2> QED
    BY <2>3, <2>4
<1>9. ASSUME CloseString PROVE OverInv'
  <2>1. /\ point = "string" /\ text # <<>> /\ text[1] = Quote
        /\ point' = "parsed" /\ written' = written /\ overread' = overread
    BY <1>9 DEF CloseString, Copying, Succeed
  <2>2. ~overread => ~RunsOver(written, Dotted)
    BY <1>0, <2>1, ClosedRead DEF OverInv
  <2> QED
    BY <2>1, <2>2, OverEnds
<1>10. ASSUME UnclosedString PROVE OverInv'
  <2>1. /\ point = "string" /\ text = <<>> /\ ~Running'
        /\ UNCHANGED <<written, text, point, overread>>
    BY <1>10 DEF UnclosedString, Copying, Complain, Logger, Fatal, Running
  <2>2. ~overread => ~RunsOver(written, Dotted)
    BY <1>0, <2>1, ClosedRead DEF OverInv
  <2> QED
    BY <2>1, <2>2, OverKept
<1>11. ASSUME PlainChar PROVE OverInv'
  <2>1. /\ Copying /\ text # <<>> /\ text[1] \notin {Quote, "\\"} /\ text' = Tail(text)
        /\ UNCHANGED <<written, point, overread, status>>
    BY <1>11 DEF PlainChar
  <2>2. point = "string" /\ Running'
    BY <2>1 DEF Copying, Running
  <2>3. ~overread => StringAt'
    BY <1>0, <2>1, <2>2, PlainRead DEF OverInv
  <2> QED
    BY <2>1, <2>2, <2>3, OverCopied
<1>12. ASSUME get_escapedchar PROVE OverInv'
  <2>1. Copying /\ point = "string" /\ Running /\ Len(text) > 1 /\ text[1] = "\\"
    BY <1>12 DEF get_escapedchar, Copying
  <2>2. ASSUME NEW size \in 0 .. Len(text) - 2,
               \A k \in 3 .. 2 + size : text[k] \notin {Quote, "\\"},
               text' = SubSeq(text, 3 + size, Len(text)),
               UNCHANGED <<written, point, overread, status>>
        PROVE  OverInv'
    <3>1. ~overread => StringAt'
      BY <1>0, <2>1, <2>2, EscapeRead DEF OverInv
    <3>2. Running' /\ point' = "string"
      BY <2>1, <2>2 DEF Running
    <3> QED
      BY <2>1, <2>2, <3>1, <3>2, OverCopied
  <2>3. CASE text[2] \in {"x", "u"}
    <3> DEFINE escape == NumericEscape(NumericBase)
    <3>1. \/ escape.value >= 256 /\ Complain("error_invalid_instruction")
          \/ /\ text' = SubSeq(text, 3 + escape.size, Len(text))
             /\ UNCHANGED <<written, point, overread, status>>
      BY <1>12, <2>3 DEF get_escapedchar
    <3>2. CASE escape.value >= 256 /\ Complain("error_invalid_instruction")
      <4>1. WideEscape
        BY <2>1, <2>3, <3>2 DEF WideEscape
      <4>2. UNCHANGED <<written, text, point, overread>> /\ ~Running'
        BY <3>2 DEF Complain, Logger, Fatal, Running
      <4> QED
        BY <4>1, <4>2, OverKept
    <3>3. CASE /\ text' = SubSeq(text, 3 + escape.size, Len(text))
               /\ UNCHANGED <<written, point, overread, status>>
      <4>1. /\ escape.size \in 0 .. Len(text) - 2
            /\ \A k \in 3 .. 2 + escape.size : text[k] \notin {Quote, "\\"}
        BY <1>0, <2>1, EscapeDigits DEF NumericBase
      <4> QED
        BY <2>2, <3>3, <4>1
    <3> QED
      BY <3>1, <3>2, <3>3
  <2>4. CASE text[2] \notin {"x", "u"}
    <3>1. /\ text' = SubSeq(text, 3 + 0, Len(text))
          /\ UNCHANGED <<written, point, overread, status>>
      BY <1>12, <2>4 DEF get_escapedchar
    <3>2. 0 \in 0 .. Len(text) - 2 /\ \A k \in 3 .. 2 + 0 : FALSE
      BY <1>0, <2>1
    <3> QED
      BY <2>2, <3>1, <3>2
  <2> QED
    BY <2>3, <2>4
<1>13. ASSUME EscapedEnd PROVE OverInv'
  <2>1. /\ point = "string" /\ text = <<"\\">> /\ overread' = TRUE
        /\ written' = written /\ point' = point
    BY <1>13 DEF EscapedEnd, Copying
  <2>2. RunsOver(written, Dotted)
    BY <1>0, <2>1, EscapedEndRead DEF OverInv
  <2>3. RunsOver(written, Dotted)' = RunsOver(written, Dotted)
    BY <2>1
  <2> QED
    BY <1>0, <2>1, <2>2, <2>3 DEF OverInv
<1>14. ASSUME EscapedEndFaults PROVE OverInv'
  <2>1. overread /\ UNCHANGED <<written, text, point, overread>> /\ ~Running'
    BY <1>14 DEF EscapedEndFaults, Fault, Running
  <2> QED
    BY <2>1, OverKept
<1>15. ASSUME UnknownInstruction PROVE OverInv'
  <2>1. Reading /\ IsAsm /\ ~Running' /\ UNCHANGED <<written, text, point, overread>>
    BY <1>15 DEF UnknownInstruction, Complain, Logger, Fatal, Running
  <2>2. ~RunsOver(written, Dotted)
    BY <1>0, <1>a, <2>1, NoDirectiveRead
  <2> QED
    BY <2>1, <2>2, OverKept
<1>16. ASSUME parse_asm PROVE OverInv'
  <2>1. Reading /\ IsAsm
    BY <1>16 DEF parse_asm
  <2>2. \/ UNCHANGED <<written, text, point, overread>> /\ ~Running'
        \/ point' = "parsed" /\ UNCHANGED <<written, overread>>
    BY <1>16 DEF parse_asm, Complain, Succeed, Logger, Fatal, Running
  <2>3. ~RunsOver(written, Dotted)
    BY <1>0, <1>a, <2>1, NoDirectiveRead
  <2> QED
    BY <2>2, <2>3, OverKept, OverEnds
<1>17. ASSUME write_all_instructions PROVE OverInv'
  <2>1. point = "parsed" /\ point' = "written" /\ UNCHANGED <<written, overread>>
    BY <1>17 DEF write_all_instructions
  <2>2. ~overread => ~RunsOver(written, Dotted)
    BY <2>1 DEF OverInv
  <2> QED
    BY <2>1, <2>2, OverEnds
<1>18. ASSUME UNCHANGED vars PROVE OverInv'
  <2>1. UNCHANGED <<written, text, point, overread>> /\ Running' = Running
    BY <1>18 DEF vars, Running
  <2> QED
    BY <2>1, OverKept
<1>19. ASSUME NEW args \in {trim_whitespace(rest) : rest \in ScanEnds},
              \/ parse_section(args)
              \/ parse_global(args)
              \/ \E name \in Strings : parse_ascii_generic(name, args)
       PROVE  OverInv'
  <2>1. EndsInLine => args = trim_whitespace(Behind(text, Blanks))
    BY DEF ScanEnds
  <2> QED
    BY <1>6, <1>7, <1>8, <1>19, <2>1
<1> QED
  BY <1>1, <1>2, <1>3, <1>4, <1>5, <1>9, <1>10, <1>11, <1>12, <1>13, <1>14, <1>15,
     <1>16, <1>17, <1>18, <1>19 DEF Next

-----------------------------------------------------------------------------

\* Whatever the lines and whatever lies in memory behind them, the program reads
\* behind the end of a line for a directive with no white space behind its name
\* and for an open string that ends in a backslash, and for no other line; and
\* of these it finishes none without having done so (directives.c:46 and :115).
THEOREM OverreadsExactly == Spec => []OverreadExactly
<1>1. Init => FitsInv /\ OverInv
  BY FitsInit, OverInit
<1>2. FitsInv /\ OverInv /\ [Next]_vars => (FitsInv /\ OverInv)'
  BY FitsStep, OverStep
<1>3. Spec => [](FitsInv /\ OverInv)
  BY <1>1, <1>2, PTL DEF Spec
<1>4. FitsInv /\ OverInv => OverreadExactly
  BY OverEnough
<1> QED
  BY <1>3, <1>4, PTL

-----------------------------------------------------------------------------
(* The tables of mnemonics.                                                *)

\* The forms that make one word, and the operations of those that choose by one.
PlainForms == {"form_rtype", "form_itype", "form_itype2", "form_stype", "form_btype",
               "form_utype", "form_jtype", "form_syscall", "form_nop",
               "form_branchifz", "form_branchifr", "form_jump"}
MathOps == {"MATH_MV", "MATH_NOT", "MATH_NEG", "MATH_NEGW", "MATH_SEXTW"}
SetIfOps == {"SETIF_EQZ", "SETIF_NEZ", "SETIF_LTZ", "SETIF_GTZ"}

\* The handlers of arguments there are.
Handlers == {"parse_none", "parse_ftso", "parse_fence", "parse_rtype", "parse_itype",
             "parse_ltype", "parse_stype", "parse_utype", "parse_btype", "parse_bztype",
             "parse_pseudo", "parse_la", "parse_li", "parse_j", "parse_jr", "parse_al",
             "parse_as", "parse_csr", "parse_csri", "parse_jal", "parse_jalr"}

\* A row whose handlers are known, of the size its form makes (form/*.c).
SoundForm(row) ==
    \/ row.sz = 4 /\ row.form \in PlainForms
    \/ row.sz = 4 /\ row.form = "form_math" /\ row.idata.opcode \in MathOps
    \/ row.sz = 4 /\ row.form = "form_setif" /\ row.idata.opcode \in SetIfOps
    \/ row.sz = 8 /\ row.form = "form_load_pseudo"
SoundRow(row) == row.arg \in Handlers /\ SoundForm(row)
SoundTable(table) == \A name \in DOMAIN table : SoundRow(table[name])

\* Tables searched one behind the other are sound when each is.
LEMMA SearchedSound ==
    ASSUME NEW tables, NEW n \in Nat, DOMAIN tables = 1 .. n,
           \A k \in 1 .. n : SoundTable(tables[k])
    PROVE  SoundTable(Searched(tables))
<1> SUFFICES ASSUME NEW name \in UNION {DOMAIN tables[k] : k \in 1 .. n}
             PROVE  SoundRow(tables[Min({k \in 1 .. n : name \in DOMAIN tables[k]})][name])
  BY Zenon DEF SoundTable, Searched
<1> DEFINE has == {k \in 1 .. n : name \in DOMAIN tables[k]}
<1>1. has # {} /\ has \subseteq Nat
  OBVIOUS
<1>2. Min(has) \in has
  <2>1. \E x \in has : \A y \in has : x <= y
    BY <1>1, HasLeast
  <2> QED
    BY <2>1, Zenon DEF Min
<1> QED
  BY <1>2 DEF SoundTable

\* The search of two tables.
LEMMA TwoSound ==
    ASSUME NEW t1, NEW t2,
           SoundTable(t1), SoundTable(t2)
    PROVE  SoundTable(Searched(<<t1, t2>>))
<1> DEFINE tables == <<t1, t2>>
<1>1. DOMAIN tables = 1 .. 2
  OBVIOUS
<1>2. \A k \in 1 .. 2 : SoundTable(tables[k])
  OBVIOUS
<1> HIDE DEF tables
<1>3. SoundTable(Searched(tables))
  BY <1>1, <1>2, SearchedSound
<1> QED
  BY <1>3 DEF tables

\* The search of seven tables.
LEMMA SevenSound ==
    ASSUME NEW t1, NEW t2, NEW t3, NEW t4, NEW t5, NEW t6, NEW t7,
           SoundTable(t1), SoundTable(t2), SoundTable(t3), SoundTable(t4),
           SoundTable(t5), SoundTable(t6), SoundTable(t7)
    PROVE  SoundTable(Searched(<<t1, t2, t3, t4, t5, t6, t7>>))
<1> DEFINE tables == <<t1, t2, t3, t4, t5, t6, t7>>
<1>1. DOMAIN tables = 1 .. 7
  OBVIOUS
<1>2. \A k \in 1 .. 7 : SoundTable(tables[k])
  OBVIOUS
<1> HIDE DEF tables
<1>3. SoundTable(Searched(tables))
  BY <1>1, <1>2, SearchedSound
<1> QED
  BY <1>3 DEF tables

\* The search of eight tables.
LEMMA EightSound ==
    ASSUME NEW t1, NEW t2, NEW t3, NEW t4, NEW t5, NEW t6, NEW t7, NEW t8,
           SoundTable(t1), SoundTable(t2), SoundTable(t3), SoundTable(t4),
           SoundTable(t5), SoundTable(t6), SoundTable(t7), SoundTable(t8)
    PROVE  SoundTable(Searched(<<t1, t2, t3, t4, t5, t6, t7, t8>>))
<1> DEFINE tables == <<t1, t2, t3, t4, t5, t6, t7, t8>>
<1>1. DOMAIN tables = 1 .. 8
  OBVIOUS
<1>2. \A k \in 1 .. 8 : SoundTable(tables[k])
  OBVIOUS
<1> HIDE DEF tables
<1>3. SoundTable(Searched(tables))
  BY <1>1, <1>2, SearchedSound
<1> QED
  BY <1>3 DEF tables

\* The search of twelve tables.
LEMMA TwelveSound ==
    ASSUME NEW t1, NEW t2, NEW t3, NEW t4, NEW t5, NEW t6, NEW t7,
           NEW t8, NEW t9, NEW t10, NEW t11, NEW t12,
           SoundTable(t1), SoundTable(t2), SoundTable(t3), SoundTable(t4),
           SoundTable(t5), SoundTable(t6), SoundTable(t7), SoundTable(t8),
           SoundTable(t9), SoundTable(t10), SoundTable(t11), SoundTable(t12)
    PROVE  SoundTable(Searched(<<t1, t2, t3, t4, t5, t6, t7, t8, t9, t10, t11, t12>>))
<1> DEFINE tables == <<t1, t2, t3, t4, t5, t6, t7, t8, t9, t10, t11, t12>>
<1>1. DOMAIN tables = 1 .. 12
  OBVIOUS
<1>2. \A k \in 1 .. 12 : SoundTable(tables[k])
  OBVIOUS
<1> HIDE DEF tables
<1>3. SoundTable(Searched(tables))
  BY <1>1, <1>2, SearchedSound
<1> QED
  BY <1>3 DEF tables

\* The operators the tables are written with make sound rows.
LEMMA RowsSound ==
    ASSUME NEW form \in PlainForms, NEW arg \in Handlers, NEW opcode, NEW row
    PROVE  SoundTable(Rows(form, arg, opcode, row))
<1>1. ASSUME NEW name \in DOMAIN row
      PROVE  SoundRow(Formation(form, arg, 4, opcode, row[name], 0))
  BY DEF SoundRow, SoundForm, Formation
<1> QED
  BY <1>1, Zenon DEF SoundTable, Rows

LEMMA Rows7Sound ==
    ASSUME NEW form \in PlainForms, NEW arg \in Handlers, NEW opcode, NEW row
    PROVE  SoundTable(Rows7(form, arg, opcode, row))
<1>1. ASSUME NEW name \in DOMAIN row
      PROVE  SoundRow(Formation(form, arg, 4, opcode, row[name][1], row[name][2]))
  BY DEF SoundRow, SoundForm, Formation
<1> QED
  BY <1>1, Zenon DEF SoundTable, Rows7

LEMMA PseudoSound ==
    ASSUME NEW form, NEW arg \in Handlers, NEW kind,
           \/ form \in PlainForms
           \/ form = "form_math" /\ \A name \in DOMAIN kind : kind[name] \in MathOps
           \/ form = "form_setif" /\ \A name \in DOMAIN kind : kind[name] \in SetIfOps
    PROVE  SoundTable(Pseudo(form, arg, kind))
<1>1. ASSUME NEW name \in DOMAIN kind
      PROVE  SoundRow(Formation(form, arg, 4, kind[name], 0, 0))
  BY DEF SoundRow, SoundForm, Formation, Idata
<1> QED
  BY <1>1, Zenon DEF SoundTable, Pseudo

LEMMA AmoSound ==
    ASSUME NEW width, NEW funct3
    PROVE  SoundTable(AmoRows(width, funct3))
<1>1. \A arg \in Handlers : \A f7 : SoundRow(Formation("form_rtype", arg, 4, OP_AMO, funct3, f7))
  BY DEF SoundRow, SoundForm, Formation, PlainForms
<1> DEFINE names == {AmoName(op, width, o) : op \in DOMAIN AmoFunct7, o \in Orderings}
           Op(name) == CHOOSE p \in DOMAIN AmoFunct7 :
                        \E o \in Orderings : AmoName(p, width, o) = name
           Ordering(name) == CHOOSE q \in Orderings : AmoName(Op(name), width, q) = name
           Row(name) == Formation("form_rtype", AmoArg(Op(name)), 4, OP_AMO, funct3,
                            AmoFunct7[Op(name)] + OrderingBits(Op(name), Ordering(name)))
<1>2. AmoRows(width, funct3) = [name \in names |-> Row(name)]
  BY DEF AmoRows
<1>3. \A name : SoundRow(Row(name))
  <2>1. \A op : AmoArg(op) \in Handlers
    BY DEF AmoArg, Handlers
  <2> QED
    BY <1>1, <2>1, Zenon
<1> HIDE DEF names, Row
<1> QED
  BY <1>2, <1>3 DEF SoundTable

\* The tables of the extensions (form/rv32i.c to form/rv64a.c) and their search.
LEMMA PseudoTable == SoundTable(rv32iPseudo)
<1> DEFINE first ==
        [nop |-> Formation("form_nop", "parse_none", 4, OP_OPI, 0, 0),
         li  |-> Formation("form_load_pseudo", "parse_li", 8, "LOAD_IMM", 0, 0),
         la  |-> Formation("form_load_pseudo", "parse_la", 8, "LOAD_ADDR", 0, 0)]
    math == [mv |-> "MATH_MV", not |-> "MATH_NOT", neg |-> "MATH_NEG"]
    setif == [seqz |-> "SETIF_EQZ", snez |-> "SETIF_NEZ", sltz |-> "SETIF_LTZ",
              sgtz |-> "SETIF_GTZ"]
<1>1. SoundTable(first)
  BY DEF SoundTable, SoundRow, SoundForm, Handlers, Formation, PlainForms
<1>2. SoundTable(Pseudo("form_math", "parse_pseudo", math))
  <2>1. \A name \in DOMAIN math : math[name] \in MathOps
    BY DEF MathOps
  <2> QED
    BY <2>1, PseudoSound DEF Handlers
<1>3. SoundTable(Pseudo("form_setif", "parse_pseudo", setif))
  <2>1. \A name \in DOMAIN setif : setif[name] \in SetIfOps
    BY DEF SetIfOps
  <2> QED
    BY <2>1, PseudoSound DEF Handlers
<1>4. \A kind : /\ SoundTable(Pseudo("form_branchifz", "parse_bztype", kind))
                /\ SoundTable(Pseudo("form_branchifr", "parse_btype", kind))
                /\ SoundTable(Pseudo("form_jump", "parse_j", kind))
                /\ SoundTable(Pseudo("form_jump", "parse_jr", kind))
                /\ SoundTable(Pseudo("form_jump", "parse_none", kind))
  BY PseudoSound DEF PlainForms, Handlers
<1> QED
  BY <1>1, <1>2, <1>3, <1>4, EightSound, Zenon DEF rv32iPseudo

LEMMA BaseTable == SoundTable(rv32iBase)
<1>1. \A opcode, row :
        /\ SoundTable(Rows("form_itype", "parse_ftso", opcode, row))
        /\ SoundTable(Rows7("form_rtype", "parse_rtype", opcode, row))
        /\ SoundTable(Rows("form_itype", "parse_itype", opcode, row))
        /\ SoundTable(Rows("form_btype", "parse_btype", opcode, row))
        /\ SoundTable(Rows("form_jtype", "parse_jal", opcode, row))
        /\ SoundTable(Rows("form_itype", "parse_jalr", opcode, row))
        /\ SoundTable(Rows7("form_syscall", "parse_none", opcode, row))
        /\ SoundTable(Rows("form_itype", "parse_ltype", opcode, row))
        /\ SoundTable(Rows("form_stype", "parse_stype", opcode, row))
        /\ SoundTable(Rows("form_utype", "parse_utype", opcode, row))
        /\ SoundTable(Rows("form_itype", "parse_fence", opcode, row))
  BY RowsSound, Rows7Sound DEF PlainForms, Handlers
<1> QED
  BY <1>1, TwelveSound, ZenonT(120) DEF rv32iBase

LEMMA WideTable == SoundTable(rv64i)
<1> DEFINE math == [name \in {"negw", "sext.w"} |->
                    IF name = "negw" THEN "MATH_NEGW" ELSE "MATH_SEXTW"]
<1>1. \A opcode, row :
        /\ SoundTable(Rows7("form_rtype", "parse_rtype", opcode, row))
        /\ SoundTable(Rows("form_itype", "parse_itype", opcode, row))
        /\ SoundTable(Rows("form_itype2", "parse_itype", opcode, row))
        /\ SoundTable(Rows("form_stype", "parse_stype", opcode, row))
  BY RowsSound, Rows7Sound DEF PlainForms, Handlers
<1>2. SoundTable(Pseudo("form_math", "parse_pseudo", math))
  <2>1. \A name \in DOMAIN math : math[name] \in MathOps
    BY DEF MathOps
  <2> QED
    BY <2>1, PseudoSound DEF Handlers
<1> QED
  BY <1>1, <1>2, EightSound, Zenon DEF rv64i

LEMMA FormationsSound == SoundTable(Formations)
<1>1. SoundTable(zicsr) /\ SoundTable(zifencei)
  <2>1. \A opcode, row :
          /\ SoundTable(Rows("form_itype", "parse_csr", opcode, row))
          /\ SoundTable(Rows("form_itype", "parse_csri", opcode, row))
          /\ SoundTable(Rows("form_itype", "parse_none", opcode, row))
    BY RowsSound, Rows7Sound DEF PlainForms, Handlers
  <2> QED
    BY <2>1, TwoSound, Zenon DEF zicsr, zifencei
<1>2. SoundTable(rv32a) /\ SoundTable(rv64a)
  BY AmoSound, Zenon DEF rv32a, rv64a
<1> QED
  BY <1>1, <1>2, PseudoTable, BaseTable, WideTable, SevenSound, Zenon DEF Formations

-----------------------------------------------------------------------------
(* The words a form handler makes.                                         *)

\* The operators on words give words.
LEMMA WordParts ==
    /\ \A n : BitsOf(n) \in Word
    /\ \A w, k : ShiftLeft(w, k) \in Word
    /\ \A v, w \in Word : v \cup w \in Word
    /\ \A w \in Word, b \in Bit : w \cup {b} \in Word
<1>1. ASSUME NEW n PROVE BitsOf(n) \in Word
  <2> DEFINE low == {b \in 0 .. 30 : (n \div 2 ^ b) % 2 = 1}
             high == IF n < 0 THEN {31} ELSE {}
  <2>1. low \subseteq 0 .. 30
    BY Zenon
  <2>2. high \subseteq {31}
    BY Zenon
  <2> HIDE DEF low, high
  <2>3. low \cup high \subseteq 0 .. 31
    BY <2>1, <2>2
  <2> QED
    BY <2>3, Zenon DEF low, high, BitsOf, Word, Bit
<1>2. \A w, k : ShiftLeft(w, k) \in Word
  BY Zenon DEF ShiftLeft, Word
<1>3. /\ \A v, w \in Word : v \cup w \in Word
      /\ \A w \in Word, b \in Bit : w \cup {b} \in Word
  BY DEF Word
<1> QED
  BY <1>1, <1>2, <1>3

\* A format assembles one word, whatever its fields and operands.
LEMMA FormatsMakeOne ==
    ASSUME NEW i, NEW args
    PROVE  /\ \E w \in Word : form_rtype(i, args) = <<w>>
           /\ \E w \in Word : form_itype(i, args) = <<w>>
           /\ \E w \in Word : form_itype2(i, args) = <<w>>
           /\ \E w \in Word : form_stype(i, args) = <<w>>
           /\ \E w \in Word : form_btype(i, args) = <<w>>
           /\ \E w \in Word : form_utype(i, args) = <<w>>
           /\ \E w \in Word : form_jtype(i, args) = <<w>>
           /\ \E w \in Word : form_syscall(i, args) = <<w>>
<1>1. /\ Fields(i).opcode \in Word /\ Fields(i).funct3 \in Word /\ Fields(i).funct7 \in Word
  BY WordParts DEF Fields
<1>2. /\ \A n : BitsOf(n) \in Word
      /\ \A w, k : ShiftLeft(w, k) \in Word
      /\ \A v, w \in Word : v \cup w \in Word
  BY WordParts
<1>3. \E w \in Word : form_rtype(i, args) = <<w>>
  BY <1>1, <1>2, Zenon DEF form_rtype
<1>4. \E w \in Word : form_itype(i, args) = <<w>>
  BY <1>1, <1>2, Zenon DEF form_itype
<1>5. \E w \in Word : form_itype2(i, args) = <<w>>
  <2>1. PICK w \in Word : form_itype(i, args) = <<w>>
    BY <1>4
  <2>2. form_itype(i, args)[1] = w
    BY <2>1
  <2>3. w \cup {30} \in Word
    <3>1. 30 \in Bit
      BY DEF Bit
    <3> QED
      BY <3>1, WordParts, Zenon
  <2> QED
    BY <2>2, <2>3, Zenon DEF form_itype2
<1>6. \E w \in Word : form_stype(i, args) = <<w>>
  BY <1>1, <1>2, Zenon DEF form_stype
<1>7. \E w \in Word : form_btype(i, args) = <<w>>
  BY <1>1, <1>2, Zenon DEF form_btype
<1>8. \E w \in Word : form_utype(i, args) = <<w>>
  BY <1>1, <1>2, Zenon DEF form_utype
<1>9. \E w \in Word : form_jtype(i, args) = <<w>>
  BY <1>1, <1>2, Zenon DEF form_jtype
<1>10. \E w \in Word : form_syscall(i, args) = <<w>>
  BY <1>1, <1>2, Zenon DEF form_syscall
<1> QED
  BY <1>3, <1>4, <1>5, <1>6, <1>7, <1>8, <1>9, <1>10

OneWord(s) == \E w \in Word : s = <<w>>
TwoWords(s) == \E v, w \in Word : s = <<v>> \o <<w>>

\* The same, for a form that chooses its fields itself to cite.
LEMMA FormatWords ==
    \A i, args : /\ OneWord(form_rtype(i, args)) /\ OneWord(form_itype(i, args))
                /\ OneWord(form_itype2(i, args)) /\ OneWord(form_stype(i, args))
                /\ OneWord(form_btype(i, args)) /\ OneWord(form_utype(i, args))
                /\ OneWord(form_jtype(i, args)) /\ OneWord(form_syscall(i, args))
<1> SUFFICES ASSUME NEW i, NEW args
             PROVE  /\ OneWord(form_rtype(i, args)) /\ OneWord(form_itype(i, args))
                    /\ OneWord(form_itype2(i, args)) /\ OneWord(form_stype(i, args))
                    /\ OneWord(form_btype(i, args)) /\ OneWord(form_utype(i, args))
                    /\ OneWord(form_jtype(i, args)) /\ OneWord(form_syscall(i, args))
  BY Zenon
<1> QED
  BY FormatsMakeOne DEF OneWord

\* What a row makes is as long as it says.
LEMMA EmitFills ==
    ASSUME NEW f, NEW args, SoundForm(f)
    PROVE  Emit(f, args) \in Seq(Word) /\ 4 * Len(Emit(f, args)) = f.sz
<1>1. ASSUME f.form \in PlainForms PROVE OneWord(Emit(f, args))
  <2>1. CASE f.form = "form_rtype"
    BY <2>1, FormatWords DEF Emit
  <2>2. CASE f.form = "form_itype"
    BY <2>2, FormatWords DEF Emit
  <2>3. CASE f.form = "form_itype2"
    BY <2>3, FormatWords DEF Emit
  <2>4. CASE f.form = "form_stype"
    BY <2>4, FormatWords DEF Emit
  <2>5. CASE f.form = "form_btype"
    BY <2>5, FormatWords DEF Emit
  <2>6. CASE f.form = "form_utype"
    BY <2>6, FormatWords DEF Emit
  <2>7. CASE f.form = "form_jtype"
    BY <2>7, FormatWords DEF Emit
  <2>8. CASE f.form = "form_syscall"
    BY <2>8, FormatWords DEF Emit
  <2>9. CASE f.form = "form_nop"
    <3>1. Emit(f, args) = form_nop(f.idata, args)
      BY <2>9 DEF Emit
    <3> QED
      BY <3>1, FormatWords, Zenon DEF form_nop
  <2>10. CASE f.form = "form_branchifz"
    <3>1. Emit(f, args) = form_branchifz(f.idata, args)
      BY <2>10 DEF Emit
    <3> QED
      BY <3>1, FormatWords, Zenon DEF form_branchifz
  <2>11. CASE f.form = "form_branchifr"
    <3>1. Emit(f, args) = form_branchifr(f.idata, args)
      BY <2>11 DEF Emit
    <3> QED
      BY <3>1, FormatWords, Zenon DEF form_branchifr
  <2>12. CASE f.form = "form_jump"
    <3>1. Emit(f, args) = form_jump(f.idata, args)
      BY <2>12 DEF Emit
    <3> QED
      BY <3>1, FormatWords, Zenon DEF form_jump
  <2> QED
    BY <1>1, <2>1, <2>2, <2>3, <2>4, <2>5, <2>6, <2>7, <2>8, <2>9, <2>10, <2>11,
       <2>12 DEF PlainForms
<1>2. ASSUME f.form = "form_math", f.idata.opcode \in MathOps PROVE OneWord(Emit(f, args))
  <2>1. Emit(f, args) = form_math(f.idata, args)
    BY <1>2 DEF Emit
  <2>2. OneWord(form_math(f.idata, args))
    <3> DEFINE op == f.idata.opcode
    <3>1. \/ op = "MATH_MV" \/ op = "MATH_NOT" \/ op = "MATH_NEG" \/ op = "MATH_NEGW"
          \/ op = "MATH_SEXTW"
      BY <1>2 DEF MathOps
    <3> QED
      BY <3>1, FormatWords DEF form_math
  <2> QED
    BY <2>1, <2>2
<1>3. ASSUME f.form = "form_setif", f.idata.opcode \in SetIfOps
      PROVE  OneWord(Emit(f, args))
  <2>1. Emit(f, args) = form_setif(f.idata, args)
    BY <1>3 DEF Emit
  <2>2. OneWord(form_setif(f.idata, args))
    <3> DEFINE op == f.idata.opcode
    <3>1. \/ op = "SETIF_EQZ" \/ op = "SETIF_NEZ" \/ op = "SETIF_LTZ"
          \/ op = "SETIF_GTZ"
      BY <1>3 DEF SetIfOps
    <3> QED
      BY <3>1, FormatWords DEF form_setif
  <2> QED
    BY <2>1, <2>2
<1>4. ASSUME f.form = "form_load_pseudo" PROVE TwoWords(Emit(f, args))
  <2>1. Emit(f, args) = form_load_pseudo(f.idata, args)
    BY <1>4 DEF Emit
  <2>2. \A i, j, a, b : TwoWords(form_utype(i, a) \o form_itype(j, b))
    <3>1. \A s, t : OneWord(s) /\ OneWord(t) => TwoWords(s \o t)
      BY Zenon DEF OneWord, TwoWords
    <3> QED
      BY <3>1, FormatWords, Zenon
  <2> QED
    BY <2>1, <2>2, Zenon DEF form_load_pseudo
<1>5. \A s : OneWord(s) => s \in Seq(Word) /\ Len(s) = 1
  BY DEF OneWord
<1>6. \A s : TwoWords(s) => s \in Seq(Word) /\ Len(s) = 2
  BY DEF TwoWords
<1> DEFINE e == Emit(f, args)
<1> HIDE DEF e
<1>7. \/ f.sz = 4 /\ OneWord(e)
      \/ f.sz = 8 /\ TwoWords(e)
  BY <1>1, <1>2, <1>3, <1>4 DEF SoundForm, e
<1>8. e \in Seq(Word) /\ 4 * Len(e) = f.sz
  <2>1. CASE f.sz = 4 /\ OneWord(e)
    <3>1. e \in Seq(Word) /\ Len(e) = 1
      BY <1>5, <2>1, Zenon
    <3> QED
      BY <2>1, <3>1
  <2>2. CASE f.sz = 8 /\ TwoWords(e)
    <3>1. e \in Seq(Word) /\ Len(e) = 2
      BY <1>6, <2>2, Zenon
    <3> QED
      BY <2>2, <3>1
  <2> QED
    BY <1>7, <2>1, <2>2
<1> QED
  BY <1>8 DEF e

-----------------------------------------------------------------------------
(* The value of an escape.                                                 *)

\* The functions that add up the first k digits.
Adds(f, digits, base, k) ==
    /\ f \in [0 .. k -> Nat]
    /\ f[0] = 0
    /\ \A j \in 1 .. k : f[j] = f[j - 1] * base + digits[j]

\* There is one for any number of digits.
LEMMA AddsExist ==
    ASSUME NEW digits \in Seq(Nat), NEW base \in Nat, NEW n \in 0 .. Len(digits)
    PROVE  \E f : Adds(f, digits, base, n)
<1> DEFINE without == {k \in 0 .. n : ~ \E f : Adds(f, digits, base, k)}
<1>0. n \in Nat /\ \A j \in 1 .. n : digits[j] \in Nat
  OBVIOUS
<1>a. without \in SUBSET Nat
  BY <1>0
<1>b. n \in 0 .. n
  BY <1>0
<1>c. n \notin without => \E f : Adds(f, digits, base, n)
  BY <1>b, Zenon
<1>1. SUFFICES ASSUME without # {} PROVE FALSE
  BY <1>c, Zenon
<1>2. PICK k \in without : \A l \in without : k <= l
  <2> HIDE DEF without
  <2> QED
    BY <1>a, <1>1, HasLeast
<1>3. k \in 0 .. n /\ ~ \E f : Adds(f, digits, base, k)
  OBVIOUS
<1>4. k # 0
  <2> DEFINE f == [j \in 0 .. 0 |-> 0]
  <2>1. Adds(f, digits, base, 0)
    BY DEF Adds
  <2> QED
    BY <1>3, <2>1
<1>5. k - 1 \in 0 .. n /\ k - 1 \notin without /\ k \in 1 .. n
  BY <1>0, <1>2, <1>3, <1>4
<1>6. PICK f : Adds(f, digits, base, k - 1)
  BY <1>5
<1> HIDE DEF without
<1>7. /\ DOMAIN f = 0 .. k - 1 /\ f[0] = 0 /\ \A j \in 0 .. k - 1 : f[j] \in Nat
      /\ \A j \in 1 .. k - 1 : f[j] = f[j - 1] * base + digits[j]
  BY <1>6 DEF Adds
<1> DEFINE next == f[k - 1] * base + digits[k]
           g == [j \in 0 .. k |-> IF j = k THEN next ELSE f[j]]
<1>8. next \in Nat
  <2>1. f[k - 1] \in Nat /\ digits[k] \in Nat
    BY <1>0, <1>5, <1>7
  <2>2. \A a, b, c \in Nat : a * b + c \in Nat
    OBVIOUS
  <2> QED
    BY <2>1, <2>2
<1>9. g[k] = next /\ \A j \in 0 .. k - 1 : g[j] = f[j]
  <2> HIDE DEF next
  <2> QED
    BY <1>0, <1>5
<1> DEFINE product == f[k - 1] * base
<1>10. next = product + digits[k]
  OBVIOUS
<1>12. g[0] = 0
  <2> HIDE DEF g
  <2> QED
    BY <1>5, <1>7, <1>9
<1>13. ASSUME NEW j \in 0 .. k PROVE g[j] \in Nat
  <2> HIDE DEF g, next
  <2>1. CASE j = k
    BY <1>8, <1>9, <2>1
  <2>2. CASE j # k
    <3>1. j \in 0 .. k - 1
      BY <1>5, <2>2
    <3> QED
      BY <1>7, <1>9, <3>1
  <2> QED
    BY <2>1, <2>2
<1>14. ASSUME NEW j \in 1 .. k PROVE g[j] = g[j - 1] * base + digits[j]
  <2>0. j - 1 \in 0 .. k - 1
    BY <1>5
  <2>1. g[j - 1] = f[j - 1]
    <3> HIDE DEF g
    <3> QED
      BY <1>9, <2>0
  <2>2. CASE j = k
    <3>1. g[k] = f[k - 1] * base + digits[k]
      <4> HIDE DEF g
      <4> QED
        BY <1>9, Zenon DEF next
    <3> QED
      BY <2>1, <2>2, <3>1, Zenon
  <2>3. CASE j # k
    <3>1. j \in 1 .. k - 1 /\ j \in 0 .. k - 1
      BY <1>5, <2>3
    <3>2. g[j] = f[j]
      <4> HIDE DEF g
      <4> QED
        BY <1>9, <3>1
    <3>3. f[j] = f[j - 1] * base + digits[j]
      BY <1>7, <3>1
    <3> QED
      BY <2>1, <3>2, <3>3, Zenon
  <2> QED
    BY <2>2, <2>3
<1>11. g \in [0 .. k -> Nat]
  <2>1. g = [j \in 0 .. k |-> g[j]]
    <3> HIDE DEF next
    <3> QED
      OBVIOUS
  <2> HIDE DEF g
  <2> QED
    BY <1>13, <2>1
<1>15. Adds(g, digits, base, k)
  <2> HIDE DEF g
  <2> QED
    BY <1>11, <1>12, <1>14, Zenon DEF Adds
<1> QED
  BY <1>3, <1>15, Zenon

\* What DigitsValue says of the function it chooses.
Horner(f, digits, base, n) ==
    f = [k \in 0 .. n |-> IF k = 0 THEN 0 ELSE f[k - 1] * base + digits[k]]

\* The value of digits is a natural number.
LEMMA DigitsValueNatural ==
    ASSUME NEW digits \in Seq(Nat), NEW base \in Nat, NEW n \in 0 .. Len(digits)
    PROVE  DigitsValue(digits, base, n) \in Nat
<1>0. n \in Nat /\ \A j \in 1 .. n : digits[j] \in Nat
  OBVIOUS
<1> DEFINE H(f) == Horner(f, digits, base, n)
<1>1. \E f : H(f)
  <2>1. PICK f : Adds(f, digits, base, n)
    BY AddsExist
  <2>2. /\ f \in [0 .. n -> Nat] /\ f[0] = 0
        /\ \A j \in 1 .. n : f[j] = f[j - 1] * base + digits[j]
    BY <2>1, Zenon DEF Adds
  <2> DEFINE Sum(k) == f[k - 1] * base + digits[k]
             g == [k \in 0 .. n |-> IF k = 0 THEN 0 ELSE Sum(k)]
  <2>3. ASSUME NEW k \in 0 .. n PROVE f[k] = g[k]
    <3>1. k = 0 \/ k \in 1 .. n
      BY <1>0
    <3>2. g[k] = IF k = 0 THEN 0 ELSE Sum(k)
      BY Zenon
    <3>3. k \in 1 .. n => k # 0
      BY <1>0
    <3> QED
      BY <2>2, <3>1, <3>2, <3>3, Zenon
  <2>4. DOMAIN f = 0 .. n /\ f = [k \in 0 .. n |-> f[k]]
    BY <2>2, Zenon
  <2> HIDE DEF Sum
  <2>5. DOMAIN g = 0 .. n /\ g = [k \in 0 .. n |-> g[k]]
    BY Zenon
  <2>6. f = g
    <3> HIDE DEF g
    <3> QED
      BY <2>3, <2>4, <2>5
  <2> QED
    BY <2>6, Zenon DEF Horner, Sum
<1> DEFINE v == CHOOSE f : H(f)
<1>2. Horner(v, digits, base, n)
  BY <1>1, Zenon
<1>3. DigitsValue(digits, base, n) = v[n]
  BY Zenon DEF DigitsValue, Horner
<1> HIDE DEF v, H
<1> DEFINE odd == {k \in 0 .. n : v[k] \notin Nat}
<1>a. odd \in SUBSET Nat
  BY <1>0
<1>b. n \in 0 .. n
  BY <1>0
<1>4. SUFFICES ASSUME odd # {} PROVE FALSE
  BY <1>3, <1>b
<1>5. PICK k \in odd : \A l \in odd : k <= l
  <2> HIDE DEF odd
  <2> QED
    BY <1>a, <1>4, HasLeast
<1>6. k \in 0 .. n /\ v[k] \notin Nat
  BY <1>5
<1> DEFINE Sum(j) == v[j - 1] * base + digits[j]
<1>7. v[k] = IF k = 0 THEN 0 ELSE Sum(k)
  BY <1>2, <1>6, Zenon DEF Horner
<1>8. k # 0
  BY <1>6, <1>7
<1>9. k - 1 \in 0 .. n /\ k - 1 \notin odd /\ k \in 1 .. n
  BY <1>0, <1>5, <1>6, <1>8
<1>10. v[k - 1] \in Nat /\ digits[k] \in Nat
  BY <1>0, <1>9
<1>11. \A a, b, c \in Nat : a * b + c \in Nat
  OBVIOUS
<1> QED
  BY <1>6, <1>7, <1>8, <1>10, <1>11, Zenon

-----------------------------------------------------------------------------
(* The errors of the operands.                                             *)

\* What a handler of arguments gives reports nothing, or an error there is.
Reported(result) == result.error \in ErrorIds \cup {"no_error"}

\* Arguments that were read report nothing; these failures report an error.
LEMMA ResultsReported ==
    /\ \A args : Reported(Read(args))
    /\ Reported(Failed("error_instruction_other"))
    /\ Reported(Failed("error_invalid_instruction"))
BY DEF Reported, Read, Failed, ErrorIds

\* What Syntax can expect, and what reading it gives.
Kinds == {"rd", "rs1", "rs2", "imm", "csr", "offset", "sym", "uimm", "address"}

LEMMA ExpectReported ==
    ASSUME NEW kind \in Kinds, NEW arg
    PROVE  Reported(Expect(kind, arg))
<1>1. \A field : Reported(expect_reg(arg, field))
  BY ResultsReported, Zenon DEF expect_reg
<1>2. Reported(expect_imm(arg))
  BY ResultsReported, Zenon DEF expect_imm
<1>3. Reported(expect_csr(arg))
  BY ResultsReported, Zenon DEF expect_csr
<1>4. Reported(expect_offreg(arg))
  BY ResultsReported, Zenon DEF expect_offreg
<1>5. Reported(get_symbol(arg))
  BY ResultsReported, Zenon DEF get_symbol
<1>6. Reported(InRegister(expect_imm(arg)))
  BY <1>2, ResultsReported, Zenon DEF InRegister
<1>7. Reported(Unshifted(expect_offreg(arg)))
  BY <1>4, ResultsReported, Zenon DEF Unshifted
<1> QED
  BY <1>1, <1>2, <1>3, <1>4, <1>5, <1>6, <1>7 DEF Kinds, Expect

\* The handlers of which Syntax says what they expect.
Expecting == Handlers \ {"parse_none", "parse_ftso", "parse_fence"}

\* Syntax is a sequence of kinds.
LEMMA SyntaxKinds ==
    ASSUME NEW handler \in Expecting, NEW n
    PROVE  /\ \E m \in Nat : DOMAIN Syntax(handler, n) = 1 .. m
           /\ \A k \in DOMAIN Syntax(handler, n) : Syntax(handler, n)[k] \in Kinds
<1> DEFINE S == Seq(Kinds)
<1>1. /\ parse_rtype \in S /\ parse_itype \in S
      /\ parse_ltype \in S /\ parse_stype \in S
      /\ parse_utype \in S /\ parse_btype \in S
      /\ parse_bztype \in S /\ parse_pseudo \in S
      /\ parse_la \in S /\ parse_li \in S /\ parse_j \in S
  BY DEF parse_rtype, parse_itype, parse_ltype, parse_stype, parse_utype, parse_btype,
         parse_bztype, parse_pseudo, parse_la, parse_li, parse_j, Kinds
<1>2. /\ parse_jr \in S /\ parse_al \in S /\ parse_as \in S
      /\ parse_csr \in S /\ parse_csri \in S
  BY DEF parse_jr, parse_al, parse_as, parse_csr, parse_csri, Kinds
<1>3. parse_jal(n) \in S /\ parse_jalr(n) \in S
  <2>1. <<"sym">> \in S /\ <<"rd", "sym">> \in S /\ <<"rs1">> \in S
        /\ <<"rd", "rs1", "imm">> \in S
    BY DEF Kinds
  <2> QED
    BY <2>1, Zenon DEF parse_jal, parse_jalr
<1>4. Syntax(handler, n) \in S
  <2> HIDE DEF S
  <2> QED
    BY <1>1, <1>2, <1>3 DEF Expecting, Handlers, Syntax
<1> QED
  BY <1>4

\* Operands collected into arguments report the first error of theirs, or none.
LEMMA CollectedReported ==
    ASSUME NEW operands, NEW defaults, NEW n \in Nat, DOMAIN operands = 1 .. n,
           \A k \in 1 .. n : Reported(operands[k])
    PROVE  Reported(Collected(operands, defaults))
<1> DEFINE wrong == {k \in DOMAIN operands : IsError(operands[k])}
<1>1. wrong \in SUBSET Nat /\ wrong \subseteq 1 .. n
  OBVIOUS
<1> HIDE DEF wrong
<1>2. wrong # {} => Min(wrong) \in wrong
  <2>1. wrong # {} => \E x \in wrong : \A y \in wrong : x <= y
    BY <1>1, HasLeast
  <2> QED
    BY <2>1, Zenon DEF Min
<1>3. wrong # {} => Reported(operands[Min(wrong)])
  BY <1>1, <1>2
<1>4. CASE wrong # {}
  <2>1. Collected(operands, defaults) = operands[Min(wrong)]
    BY <1>4, Zenon DEF Collected, wrong
  <2> QED
    BY <1>3, <1>4, <2>1
<1>5. CASE wrong = {}
  <2>1. \E args : Collected(operands, defaults) = Read(args)
    BY <1>5, Zenon DEF Collected, wrong
  <2> QED
    BY <2>1, ResultsReported
<1> QED
  BY <1>4, <1>5

\* So each handler of arguments reports an error there is, or none.
LEMMA HandlersReport ==
    ASSUME NEW handler \in Handlers, NEW argstr
    PROVE  Reported(arg_handler(handler, argstr))
<1> DEFINE args == trim_args(argstr)
           defaults == IF Links(handler) /\ Len(args) = 1 THEN Linked ELSE empty_args
<1>1. Reported(parse_none(argstr))
  BY ResultsReported, Zenon DEF parse_none
<1>2. Reported(parse_ftso(argstr))
  BY <1>1, ResultsReported DEF parse_ftso
<1>3. Reported(parse_fence(args))
  BY ResultsReported, Zenon DEF parse_fence
<1>4. Reported(Read(empty_args)) /\ Reported(Failed("error_invalid_instruction"))
  BY ResultsReported
<1>5. ASSUME handler \in Expecting
      PROVE  Reported(ExpectAll(Syntax(handler, Len(args)), args, defaults))
  <2> DEFINE kinds == Syntax(handler, Len(args))
             operands == [k \in DOMAIN kinds |-> Expect(kinds[k], args[k])]
  <2>1. PICK n \in Nat : DOMAIN kinds = 1 .. n
    BY <1>5, SyntaxKinds
  <2>2. \A k \in DOMAIN kinds : kinds[k] \in Kinds
    BY <1>5, SyntaxKinds
  <2> HIDE DEF kinds, args, defaults
  <2>3. DOMAIN operands = 1 .. n /\ \A k \in 1 .. n : operands[k] = Expect(kinds[k], args[k])
    BY <2>1, Zenon
  <2>4. \A k \in 1 .. n : Reported(operands[k])
    BY <2>1, <2>2, <2>3, ExpectReported, Zenon
  <2>5. Reported(Collected(operands, defaults))
    <3> HIDE DEF operands
    <3> QED
      BY <2>3, <2>4, CollectedReported
  <2>6. Reported(ExpectAll(kinds, args, defaults))
    BY <2>5, ResultsReported, Zenon DEF ExpectAll
  <2> QED
    BY <2>6 DEF kinds
<1> DEFINE general == ExpectAll(Syntax(handler, Len(args)), args, defaults)
<1>6. arg_handler(handler, argstr) =
        CASE handler = "parse_none" -> parse_none(argstr)
          [] handler = "parse_ftso" -> parse_ftso(argstr)
          [] handler = "parse_fence" -> parse_fence(args)
          [] handler = "parse_jal" /\ args = <<>> -> Failed("error_invalid_instruction")
          [] handler = "parse_jalr" /\ args = <<>> -> Read(empty_args)
          [] OTHER -> general
  BY Zenon DEF arg_handler
<1> HIDE DEF args, general
<1>7. handler \in Expecting => Reported(general)
  BY <1>5 DEF general
<1>8. handler \notin Expecting =>
        handler = "parse_none" \/ handler = "parse_ftso" \/ handler = "parse_fence"
  BY DEF Expecting
<1> QED
  BY <1>1, <1>2, <1>3, <1>4, <1>6, <1>7, <1>8

-----------------------------------------------------------------------------
(* The invariant of the types.                                             *)

\* A string whose bytes are bytes.
Octets(string) ==
    /\ {"nullterm", "bytes"} \subseteq DOMAIN string
    /\ string.nullterm \in BOOLEAN
    /\ \A k \in DOMAIN string.bytes : string.bytes[k] \in 0 .. 255

\* What is copied once the reading has left the line.
Copyable == DOMAIN Ascii \cup {Quote, "\\"}

\* The words of an instruction, with those its row announces.
Filled(words, insn) ==
    words \in Seq(Word) /\ 4 * Len(words) = insn.formation.sz

\* The types, and what keeps them: the rows of the instructions are sound, their
\* words are made at the last step only, and a string read from behind the line is
\* made of characters there is a code for.
TypeInv ==
    /\ ProcessTypeOK
    /\ point \in Points
    /\ {"strings", "insns", "words"} \subseteq DOMAIN made
    /\ \A k \in DOMAIN made.strings : Octets(made.strings[k])
    /\ point \in {"line", "trimmed"} => made.insns = <<>>
    /\ \A k \in DOMAIN made.insns : SoundRow(made.insns[k].formation)
    /\ point # "written" => made.words = <<>>
    /\ \A k \in DOMAIN made.words : Filled(made.words[k], made.insns[k])
    /\ point = "string" /\ overread => text \in Seq(Copyable)

\* The invariant says more than the types and the sizes.
LEMMA TypesEnough == FitsInv /\ TypeInv => TypeOK /\ FillsItsSize
<1> SUFFICES ASSUME FitsInv, TypeInv PROVE TypeOK /\ FillsItsSize
  OBVIOUS
<1>1. overread \in BOOLEAN /\ room \in Int
  BY DEF FitsInv
<1> QED
  BY <1>1 DEF TypeInv, TypeOK, FillsItsSize, Octets, Filled

\* A line that has not been read makes nothing.
LEMMA TypesInit == Init => TypeInv
<1> SUFFICES ASSUME Init PROVE TypeInv
  OBVIOUS
<1>1. ProcessTypeOK
  BY DEF Init, ProcessInit, ProcessTypeOK
<1>2. point = "line" /\ made = Nothing
  BY DEF Init
<1>3. /\ made.strings = <<>> /\ made.insns = <<>> /\ made.words = <<>>
      /\ {"strings", "insns", "words"} \subseteq DOMAIN made
  BY <1>2 DEF Nothing
<1> QED
  BY <1>1, <1>2, <1>3 DEF TypeInv, Points

\* Diagnostics and faults.
LEMMA TypesLogged ==
    ASSUME ProcessTypeOK, NEW level \in Levels, NEW id \in ErrorIds, Logger(level, id)
    PROVE  ProcessTypeOK'
BY DEF ProcessTypeOK, Logger, Diagnostic

LEMMA TypesFault ==
    ASSUME ProcessTypeOK, Fault
    PROVE  ProcessTypeOK'
BY DEF ProcessTypeOK, Fault

\* A step that makes no string, no instruction and no word.
LEMMA TypesMoved ==
    ASSUME TypeInv, ProcessTypeOK', point' \in Points,
           DOMAIN made' = DOMAIN made, made'.strings = made.strings,
           made'.insns = made.insns, made'.words = made.words,
           point' \in {"line", "trimmed"} => point \in {"line", "trimmed"},
           point = "written" => point' = "written",
           point' = "string" /\ overread' => text' \in Seq(Copyable)
    PROVE  TypeInv'
BY DEF TypeInv

\* A step that changes nothing but the process, or not even that.
LEMMA TypesKept ==
    ASSUME TypeInv, ProcessTypeOK', UNCHANGED <<text, point, made>>,
           overread' = overread \/ point # "string"
    PROVE  TypeInv'
BY DEF TypeInv

\* A step that stores a byte.
LEMMA TypesStored ==
    ASSUME TypeInv, FitsInv, Copying, NEW byte \in 0 .. 255, Store(byte), point' = point,
           UNCHANGED processVars,
           overread' => text' \in Seq(Copyable)
    PROVE  TypeInv'
<1> DEFINE longer == Append(Bytes, byte)
<1>1. OneString /\ point = "string"
  BY DEF FitsInv, Copying
<1>2. /\ DOMAIN made' = DOMAIN made
      /\ made'.insns = made.insns /\ made'.words = made.words
      /\ DOMAIN made'.strings = {1}
      /\ DOMAIN made'.strings[1] = DOMAIN made.strings[1]
      /\ made'.strings[1].nullterm = made.strings[1].nullterm
      /\ made'.strings[1].bytes = longer
  BY <1>1 DEF OneString, Store, TypeInv, Octets, Bytes
<1>3. Octets(made.strings[1])
  BY <1>1 DEF OneString, TypeInv
<1>4. \A k \in DOMAIN longer : longer[k] \in 0 .. 255
  <2>1. Bytes \in Seq(ToSet(Bytes))
    BY <1>1 DEF OneString
  <2>2. \A k \in DOMAIN Bytes : Bytes[k] \in 0 .. 255
    BY <1>3 DEF Octets, Bytes
  <2> HIDE DEF Bytes
  <2>3. longer \in Seq(ToSet(Bytes) \cup {byte}) /\ Len(longer) = Len(Bytes) + 1
        /\ Len(Bytes) \in Nat
    BY <2>1
  <2>4. \A k \in 1 .. Len(longer) : longer[k] = IF k = Len(longer) THEN byte ELSE Bytes[k]
    <3> DEFINE n == Len(Bytes)
    <3>1. \A k \in 1 .. n : longer[k] = Bytes[k]
      BY <2>1
    <3>2. longer[n + 1] = byte
      BY <2>1
    <3> HIDE DEF longer, n
    <3>3. n \in Nat /\ Len(longer) = n + 1
      BY <2>3 DEF n
    <3> QED
      BY <3>1, <3>2, <3>3
  <2> HIDE DEF longer
  <2>5. DOMAIN longer = 1 .. Len(longer) /\ DOMAIN Bytes = 1 .. Len(Bytes)
    BY <2>1, <2>3
  <2> DEFINE n == Len(Bytes)
  <2> HIDE DEF n
  <2>6. n \in Nat /\ DOMAIN Bytes = 1 .. n /\ DOMAIN longer = 1 .. n + 1
        /\ \A k \in 1 .. n + 1 : longer[k] = IF k = n + 1 THEN byte ELSE Bytes[k]
    BY <2>3, <2>4, <2>5 DEF n
  <2> SUFFICES ASSUME NEW k \in 1 .. n + 1 PROVE longer[k] \in 0 .. 255
    BY <2>6
  <2>7. CASE k = n + 1
    BY <2>6, <2>7
  <2>8. CASE k # n + 1
    <3>1. k \in DOMAIN Bytes
      BY <2>6, <2>8
    <3>2. Bytes[k] \in 0 .. 255
      BY <2>2, <3>1
    <3> QED
      BY <2>6, <2>8, <3>2
  <2> QED
    BY <2>7, <2>8
<1> HIDE DEF longer
<1>5. Octets(made'.strings[1])
  BY <1>2, <1>3, <1>4 DEF Octets
<1>6. ProcessTypeOK'
  BY DEF TypeInv, ProcessTypeOK, processVars
<1> QED
  BY <1>1, <1>2, <1>5, <1>6 DEF TypeInv

\* A plain character of an open string is one there is a code for.
LEMMA PlainCoded ==
    ASSUME written \in Written, StringAt, text # <<>>, text[1] \notin {Quote, "\\"}
    PROVE  text[1] \in DOMAIN Ascii
<1> DEFINE s == Statement(written)
<1>1. s \in Seq(STRING)
  BY StatementText
<1>2. s = Statement(written)
  OBVIOUS
<1> HIDE DEF s
<1>a. PICK q, n : Copied(s, q, n) /\ Unread(s, n)
  BY <1>2, StringRest, Zenon
<1>3. /\ Copied(s, q, n)
      /\ n \in Nat /\ Len(s) \in Nat /\ n \in 1 .. Len(s) + 1
      /\ text \in Seq(STRING) /\ Len(text) = Len(s) - n + 1
      /\ \A k \in 1 .. Len(text) : text[k] = s[n + k - 1]
  BY <1>a, Zenon DEF Unread
<1>4. Len(text) \in Nat \ {0}
  BY <1>3
<1>5. 1 \in 1 .. Len(text) /\ n + 1 - 1 = n /\ n <= Len(s)
  BY <1>3, <1>4
<1>6. text[1] = s[n]
  <2>1. text[1] = s[n + 1 - 1]
    BY <1>3, <1>5
  <2> QED
    BY <1>5, <2>1
<1>7. /\ q \in Nat /\ 3 <= q /\ q < n /\ q <= Len(s) /\ OpensAt(s, q)
      /\ \A k \in q + 1 .. n - 1 : s[k] = Quote => BackslashesBefore(s, k) % 2 = 1
  BY <1>3, CopiedParts
<1>8. ASSUME NEW j \in q + 1 .. n, s[j] = Quote PROVE s[j - 1] = "\\"
  <2>1. j # n
    <3>1. s[n] # Quote
      BY <1>6
    <3> QED
      BY <1>8, <3>1
  <2>2. j \in q + 1 .. n - 1 /\ j - 1 \in 1 .. Len(s) /\ (j - 1) + 1 = j
    BY <1>3, <1>5, <1>7, <2>1
  <2>3. BackslashesBefore(s, j) % 2 = 1
    BY <1>7, <1>8, <2>2
  <2>4. BackslashesBefore(s, (j - 1) + 1) =
            IF s[j - 1] = "\\" THEN BackslashesBefore(s, j - 1) + 1 ELSE 0
    BY <1>1, <2>2, BackslashesNext
  <2>5. BackslashesBefore(s, j) # 0
    BY <2>3
  <2> QED
    BY <2>2, <2>4, <2>5
<1>9. q \in DOMAIN s /\ n \in DOMAIN s /\ q < n /\ q > 2
  BY <1>1, <1>3, <1>5, <1>7
<1>10. \A j \in q + 1 .. n : s[j] = Quote => s[j - 1] = "\\"
  BY <1>8
<1>11. s[n] \in DOMAIN Ascii \cup {Quote, "\\"}
  BY <1>2, <1>7, <1>9, <1>10, StringAssumption, Zenon
<1> QED
  BY <1>6, <1>11

\* What memory holds behind a line can be copied.
LEMMA LeftoverCopyable == \A rest \in Leftover : rest \in Seq(Copyable)
<1> SUFFICES ASSUME NEW rest \in Leftover PROVE rest \in Seq(Copyable)
  OBVIOUS
<1>1. rest \in Seq(STRING)
  BY LineAssumption
<1>2. \A k \in DOMAIN rest : rest[k] \in Copyable
  BY StringAssumption, Zenon DEF Copyable
<1> HIDE DEF Copyable
<1> QED
  BY <1>1, <1>2

\* The value of an escape is a natural number.
LEMMA EscapeValue ==
    ASSUME text \in Seq(STRING), Len(text) > 1, NEW base \in {8, 16}
    PROVE  NumericEscape(base).value \in Nat
<1> DEFINE t == Len(text)
           digits == [k \in 1 .. Len(text) - 2 |->
                        IF text[k + 2] \in DOMAIN HexDigit THEN HexDigit[text[k + 2]]
                        ELSE base]
           size == Taken(digits, base)
<1>1. \A k \in 1 .. Len(text) - 2 : digits[k] \in Nat
  BY HexDigits
<1>2. t \in Nat /\ t > 1 /\ digits \in Seq(Nat) /\ digits \in Seq(Int)
  BY <1>1
<1>3. NumericEscape(base).value = DigitsValue(digits, base, size)
  BY DEF NumericEscape
<1> HIDE DEF digits
<1>4. size \in 0 .. Len(digits)
  BY <1>2, TakenCounts
<1> HIDE DEF size
<1>5. DigitsValue(digits, base, size) \in Nat
  BY <1>2, <1>4, DigitsValueNatural
<1> QED
  BY <1>3, <1>5

\* An escape of one character is a byte.
LEMMA EscapedByte == \A c : Escaped(c) \in 0 .. 255
BY DEF Escaped

\* Every step keeps the types.
LEMMA TypesStep == FitsInv /\ OverInv /\ TypeInv /\ [Next]_vars => TypeInv'
<1> SUFFICES ASSUME FitsInv, OverInv, TypeInv, [Next]_vars PROVE TypeInv'
  OBVIOUS
<1>0. /\ ProcessTypeOK /\ point \in Points /\ text \in Seq(STRING) /\ written \in Written
      /\ (point = "string" /\ overread => text \in Seq(Copyable))
  BY DEF TypeInv, FitsInv, OverInv
<1>a. ASSUME NEW level \in Levels, NEW id \in ErrorIds, Logger(level, id) PROVE ProcessTypeOK'
  BY <1>0, <1>a, TypesLogged
<1>b. ASSUME Fault PROVE ProcessTypeOK'
  BY <1>0, <1>b, TypesFault
<1>c. ASSUME UNCHANGED processVars PROVE ProcessTypeOK'
  BY <1>0, <1>c DEF ProcessTypeOK, processVars
<1>d. /\ {"WARN", "ERROR", "CRITICAL"} \subseteq Levels
      /\ {"error_invalid_instruction", "error_invalid_syntax", "error_system"}
            \subseteq ErrorIds
  BY DEF Levels, ErrorIds
<1>1. ASSUME parse_line PROVE TypeInv'
  <2>1. /\ point = "line" /\ point' = "trimmed" /\ made' = made /\ UNCHANGED processVars
    BY <1>1 DEF parse_line
  <2> QED
    BY <1>c, <2>1, TypesMoved DEF Points
<1>2. ASSUME ParseBlank PROVE TypeInv'
  <2>1. /\ point = "trimmed" /\ point' = "parsed" /\ made' = made /\ UNCHANGED processVars
    BY <1>2 DEF ParseBlank, Reading, Succeed
  <2> QED
    BY <1>c, <2>1, TypesMoved DEF Points
<1>3. ASSUME parse_label PROVE TypeInv'
  <2>1. /\ point = "trimmed" /\ point' = "line" /\ UNCHANGED processVars
    BY <1>3 DEF parse_label, Reading
  <2>2. /\ DOMAIN made' = DOMAIN made /\ made'.strings = made.strings
        /\ made'.insns = made.insns /\ made'.words = made.words
    BY <1>3 DEF parse_label, TypeInv
  <2> QED
    BY <1>c, <2>1, <2>2, TypesMoved DEF Points
<1>4. ASSUME ScanFaults PROVE TypeInv'
  <2>1. Fault /\ point # "string" /\ UNCHANGED <<text, point, made>>
    BY <1>4 DEF ScanFaults, Reading
  <2> QED
    BY <1>b, <2>1, TypesKept
<1>5. ASSUME UnknownDirective PROVE TypeInv'
  <2>1. /\ Logger("ERROR", "error_invalid_instruction") /\ point # "string"
        /\ UNCHANGED <<text, point, made>>
    BY <1>5 DEF UnknownDirective, Reading
  <2> QED
    BY <1>a, <1>d, <2>1, TypesKept
<1>6. ASSUME NEW args, parse_section(args) PROVE TypeInv'
  <2>1. /\ point = "trimmed" /\ point' \in {"parsed", "refused"}
        /\ UNCHANGED processVars \/ Logger("WARN", "error_invalid_instruction")
    BY <1>6 DEF parse_section, ParseDirective, Reading
  <2>2. /\ DOMAIN made' = DOMAIN made /\ made'.strings = made.strings
        /\ made'.insns = made.insns /\ made'.words = made.words
    BY <1>6 DEF parse_section, TypeInv
  <2>3. ProcessTypeOK'
    BY <1>a, <1>c, <1>d, <2>1
  <2> QED
    BY <2>1, <2>2, <2>3, TypesMoved DEF Points
<1>7. ASSUME NEW args, parse_global(args) PROVE TypeInv'
  <2>1. /\ point = "trimmed" /\ point' = "parsed" /\ UNCHANGED processVars
    BY <1>7 DEF parse_global, ParseDirective, Reading
  <2>2. /\ DOMAIN made' = DOMAIN made /\ made'.strings = made.strings
        /\ made'.insns = made.insns /\ made'.words = made.words
    BY <1>7 DEF parse_global, TypeInv
  <2> QED
    BY <1>c, <2>1, <2>2, TypesMoved DEF Points
<1>8. ASSUME NEW args \in Seq(STRING), overread' => args \in Seq(Copyable),
             NEW name \in Strings, parse_ascii_generic(name, args)
      PROVE  TypeInv'
  <2>1. point = "trimmed" /\ made.strings = <<>>
    BY <1>8 DEF parse_ascii_generic, ParseDirective, Reading, FitsInv
  <2>2. CASE args # <<>> /\ args[1] = Quote
    <3> DEFINE string == [nullterm |-> name # ".ascii", bytes |-> <<>>]
    <3>1. /\ point' = "string" /\ text' = Tail(args) /\ UNCHANGED processVars
          /\ made' = [made EXCEPT !.strings = Append(@, string)]
      BY <1>8, <2>2 DEF parse_ascii_generic
    <3>2. /\ DOMAIN made' = DOMAIN made /\ made'.strings = <<string>>
          /\ made'.insns = made.insns /\ made'.words = made.words
      BY <2>1, <3>1 DEF TypeInv
    <3>3. Octets(string)
      BY DEF Octets
    <3>4. \A k \in DOMAIN made'.strings : Octets(made'.strings[k])
      <4> HIDE DEF string
      <4> QED
        BY <3>2, <3>3
    <3>5. overread' => text' \in Seq(Copyable)
      <4> HIDE DEF string
      <4> QED
        BY <1>8, <2>2, <3>1, TailText
    <3>6. ProcessTypeOK'
      BY <1>c, <3>1
    <3> HIDE DEF string
    <3> QED
      BY <2>1, <3>1, <3>2, <3>4, <3>5, <3>6 DEF TypeInv, Points
  <2>3. CASE args # <<>> /\ args[1] # Quote /\ name # ".ascii"
    <3>1. point' = "refused" /\ made' = made /\ UNCHANGED processVars
      BY <1>8, <2>3 DEF parse_ascii_generic
    <3> QED
      BY <1>c, <2>1, <3>1, TypesMoved DEF Points
  <2>4. CASE args = <<>> \/ (args[1] # Quote /\ name = ".ascii")
    <3>1. Logger("CRITICAL", "error_system") /\ UNCHANGED <<text, point, made>>
      BY <1>8, <2>4 DEF parse_ascii_generic
    <3> QED
      BY <1>a, <1>d, <2>1, <3>1, TypesKept
  <2> QED
    BY <2>2, <2>3, <2>4
<1>9. ASSUME CloseString PROVE TypeInv'
  <2>1. /\ point = "string" /\ point' = "parsed" /\ made' = made /\ UNCHANGED processVars
    BY <1>9 DEF CloseString, Copying, Succeed
  <2> QED
    BY <1>c, <2>1, TypesMoved DEF Points
<1>10. ASSUME UnclosedString PROVE TypeInv'
  <2>1. Logger("ERROR", "error_invalid_syntax") /\ UNCHANGED <<text, point, made, overread>>
    BY <1>10 DEF UnclosedString, Complain, lineVars
  <2> QED
    BY <1>a, <1>d, <2>1, TypesKept
<1>11. ASSUME PlainChar PROVE TypeInv'
  <2>1. /\ Copying /\ point = "string" /\ text # <<>> /\ text[1] \notin {Quote, "\\"}
        /\ Store(Ascii[text[1]]) /\ text' = Tail(text)
        /\ UNCHANGED <<point, overread, processVars>>
    BY <1>11 DEF PlainChar, Copying
  <2>2. text[1] \in DOMAIN Ascii
    <3>1. CASE overread
      <4>1. text[1] \in Copyable
        BY <1>0, <2>1, <3>1
      <4> QED
        BY <2>1, <4>1 DEF Copyable
    <3>2. CASE ~overread
      <4>1. StringAt
        BY <2>1, <3>2 DEF OverInv
      <4> QED
        BY <1>0, <2>1, <4>1, PlainCoded
    <3> QED
      BY <3>1, <3>2
  <2>3. Ascii[text[1]] \in 0 .. 255
    BY <2>2, StringAssumption, Zenon DEF Codes
  <2>4. overread' => text' \in Seq(Copyable)
    BY <1>0, <2>1, TailText
  <2> QED
    BY <2>1, <2>3, <2>4, TypesStored
<1>12. ASSUME get_escapedchar PROVE TypeInv'
  <2>1. Copying /\ point = "string" /\ Len(text) > 1 /\ text[1] = "\\"
    BY <1>12 DEF get_escapedchar, Copying
  <2>2. ASSUME NEW byte \in 0 .. 255, NEW size \in Nat, Store(byte),
               text' = SubSeq(text, 3 + size, Len(text)),
               UNCHANGED <<written, point, room, overread, processVars>>
        PROVE  TypeInv'
    <3>1. 3 + size \in Nat \ {0} /\ Len(text) \in 0 .. Len(text)
      BY <1>0
    <3>2. overread' => text' \in Seq(Copyable)
      BY <1>0, <2>1, <2>2, <3>1, PartOfText
    <3> QED
      BY <2>1, <2>2, <3>2, TypesStored
  <2>3. CASE text[2] \in {"x", "u"}
    <3> DEFINE escape == NumericEscape(NumericBase)
    <3>1. \/ Complain("error_invalid_instruction")
          \/ /\ ~(escape.value >= 256) /\ Store(escape.value)
             /\ text' = SubSeq(text, 3 + escape.size, Len(text))
             /\ UNCHANGED <<written, point, room, overread, processVars>>
      BY <1>12, <2>3 DEF get_escapedchar
    <3>2. escape.value \in Nat /\ escape.size \in Nat
      BY <1>0, <2>1, EscapeValue, EscapeSize DEF NumericBase
    <3> HIDE DEF escape
    <3>3. CASE Complain("error_invalid_instruction")
      <4>1. /\ Logger("ERROR", "error_invalid_instruction")
            /\ UNCHANGED <<text, point, made, overread>>
        BY <3>3 DEF Complain, lineVars
      <4> QED
        BY <1>a, <1>d, <4>1, TypesKept
    <3>4. ~(escape.value >= 256) => escape.value \in 0 .. 255
      BY <3>2
    <3> QED
      BY <2>2, <3>1, <3>2, <3>3, <3>4
  <2>4. CASE text[2] \notin {"x", "u"}
    <3>1. /\ Store(Escaped(text[2])) /\ text' = SubSeq(text, 3 + 0, Len(text))
          /\ UNCHANGED <<written, point, room, overread, processVars>>
      BY <1>12, <2>4 DEF get_escapedchar
    <3>2. Escaped(text[2]) \in 0 .. 255 /\ 0 \in Nat
      BY EscapedByte
    <3> QED
      BY <2>2, <3>1, <3>2
  <2> QED
    BY <2>3, <2>4
<1>13. ASSUME EscapedEnd PROVE TypeInv'
  <2>1. Copying /\ Store(0) /\ text' \in Seq(Copyable) /\ UNCHANGED <<point, processVars>>
    BY <1>13, LeftoverCopyable DEF EscapedEnd
  <2>2. 0 \in 0 .. 255
    OBVIOUS
  <2> QED
    BY <2>1, <2>2, TypesStored
<1>14. ASSUME EscapedEndFaults PROVE TypeInv'
  <2>1. Fault /\ UNCHANGED <<text, point, made, overread>>
    BY <1>14 DEF EscapedEndFaults, lineVars
  <2> QED
    BY <1>b, <2>1, TypesKept
<1>15. ASSUME UnknownInstruction PROVE TypeInv'
  <2>1. /\ Logger("ERROR", "error_invalid_instruction")
        /\ UNCHANGED <<text, point, made, overread>>
    BY <1>15 DEF UnknownInstruction, Complain, lineVars
  <2> QED
    BY <1>a, <1>d, <2>1, TypesKept
<1>16. ASSUME parse_asm PROVE TypeInv'
  <2> DEFINE formation == Formations[Mnemonic[1]]
             result == arg_handler(formation.arg, ArgString)
             insn == [formation |-> formation, args |-> result.args]
  <2>1. point = "trimmed" /\ Mnemonic[1] \in DOMAIN Formations
    BY <1>16 DEF parse_asm, Reading, Known, Mnemonics
  <2>2. SoundRow(formation)
    BY <2>1, FormationsSound, Zenon DEF SoundTable
  <2>3. IF IsError(result) THEN Complain(result.error)
        ELSE Succeed([made EXCEPT !.insns = Append(@, insn)])
    BY <1>16, Zenon DEF parse_asm
  <2>4. formation.arg \in Handlers
    BY <2>2, Zenon DEF SoundRow
  <2> HIDE DEF formation
  <2>5. Reported(result)
    BY <2>4, HandlersReport, Zenon
  <2> HIDE DEF result
  <2>6. CASE IsError(result)
    <3>1. result.error \in ErrorIds
      BY <2>5, <2>6 DEF Reported, IsError
    <3>2. Logger("ERROR", result.error) /\ UNCHANGED <<text, point, made, overread>>
      BY <2>3, <2>6 DEF Complain, lineVars
    <3> QED
      BY <1>a, <1>d, <3>1, <3>2, TypesKept
  <2>7. CASE ~IsError(result)
    <3>1. /\ made' = [made EXCEPT !.insns = Append(@, insn)] /\ point' = "parsed"
          /\ UNCHANGED processVars
      BY <2>3, <2>7 DEF Succeed
    <3>2. insn.formation = formation
      OBVIOUS
    <3> HIDE DEF insn
    <3>3. /\ DOMAIN made' = DOMAIN made /\ made'.strings = made.strings
          /\ made'.words = made.words /\ made'.insns = <<insn>>
      <4>1. made.insns = <<>> /\ {"strings", "insns", "words"} \subseteq DOMAIN made
        BY <2>1 DEF TypeInv
      <4>2. made' = [made EXCEPT !.insns = Append(made.insns, insn)]
        BY <3>1
      <4>3. made' = [made EXCEPT !.insns = Append(<<>>, insn)]
        BY <4>1, <4>2, Zenon
      <4>4. Append(<<>>, insn) = <<insn>>
        OBVIOUS
      <4>5. made' = [made EXCEPT !.insns = <<insn>>]
        BY <4>3, <4>4, Zenon
      <4> QED
        BY <4>1, <4>5
    <3>4. \A k \in DOMAIN made'.insns : SoundRow(made'.insns[k].formation)
      BY <2>2, <3>2, <3>3
    <3>5. made.words = <<>> /\ ProcessTypeOK'
      BY <1>c, <2>1, <3>1 DEF TypeInv
    <3> QED
      BY <2>1, <3>1, <3>3, <3>4, <3>5 DEF TypeInv, Points
  <2> QED
    BY <2>6, <2>7
<1>17. ASSUME write_all_instructions PROVE TypeInv'
  <2> DEFINE Emitted(k) == Emit(made.insns[k].formation,
                             made.insns[k].args @@ [distance |-> written.distance])
  <2>1. /\ point = "parsed" /\ point' = "written" /\ UNCHANGED processVars
        /\ made' = [made EXCEPT !.words = [k \in DOMAIN made.insns |-> Emitted(k)]]
    BY <1>17 DEF write_all_instructions
  <2>2. \A k \in DOMAIN made.insns : Filled(Emitted(k), made.insns[k])
    BY EmitFills, Zenon DEF TypeInv, SoundRow, Filled
  <2> HIDE DEF Emitted
  <2>3. /\ DOMAIN made' = DOMAIN made /\ made'.strings = made.strings
        /\ made'.insns = made.insns
        /\ made'.words = [k \in DOMAIN made.insns |-> Emitted(k)]
    BY <2>1 DEF TypeInv
  <2>4. \A k \in DOMAIN made'.words : Filled(made'.words[k], made'.insns[k])
    BY <2>2, <2>3
  <2> QED
    BY <1>c, <2>1, <2>3, <2>4 DEF TypeInv, Points
<1>18. ASSUME UNCHANGED vars PROVE TypeInv'
  <2>1. UNCHANGED <<text, point, made, overread>> /\ UNCHANGED processVars
    BY <1>18 DEF vars, lineVars
  <2> QED
    BY <1>c, <2>1, TypesKept
<1>19. ASSUME NEW args \in {trim_whitespace(rest) : rest \in ScanEnds},
              \/ parse_section(args)
              \/ parse_global(args)
              \/ \E name \in Strings : parse_ascii_generic(name, args)
       PROVE  TypeInv'
  <2>1. args \in Seq(STRING)
    BY ScanEndsTexts
  <2>2. ASSUME NEW name \in Strings, parse_ascii_generic(name, args), overread'
        PROVE  args \in Seq(Copyable)
    <3>1. Reading /\ Scanned /\ ~overread
      BY <2>2 DEF parse_ascii_generic, ParseDirective, Reading, OverInv
    <3>2. ~EndsInLine
      BY <2>2, <3>1 DEF Scanned
    <3>3. \E rest \in Leftover : args = trim_whitespace(rest)
      BY <3>2 DEF ScanEnds
    <3> QED
      BY <3>3, LeftoverCopyable, TrimmedText
  <2> QED
    BY <1>6, <1>7, <1>8, <1>19, <2>1, <2>2
<1> QED
  BY <1>1, <1>2, <1>3, <1>4, <1>5, <1>9, <1>10, <1>11, <1>12, <1>13, <1>14, <1>15,
     <1>16, <1>17, <1>18, <1>19 DEF Next

-----------------------------------------------------------------------------

\* FitsInv, OverInv and TypeInv together are inductive.
LEMMA TypesAlways == Spec => [](FitsInv /\ TypeInv)
<1>1. Init => FitsInv /\ OverInv /\ TypeInv
  BY FitsInit, OverInit, TypesInit
<1>2. FitsInv /\ OverInv /\ TypeInv /\ [Next]_vars => (FitsInv /\ OverInv /\ TypeInv)'
  BY FitsStep, OverStep, TypesStep
<1> QED
  BY <1>1, <1>2, PTL DEF Spec

\* What a line makes has the types the rest of the program takes for granted: the
\* bytes of a string are below 256, those of numeric escapes of any length included
\* (directives.c:62 to :72), a word has 32 bits, and every diagnostic is an error
\* the code names.
THEOREM LineTypesKept == Spec => []TypeOK
<1>1. FitsInv /\ TypeInv => TypeOK
  BY TypesEnough
<1> QED
  BY <1>1, TypesAlways, PTL

\* The words of an instruction take exactly the bytes its row announces.  The
\* position of every later label is counted with the announced size (parse.c:186),
\* the section filled with the words made (form/base.c:220), by other code: were
\* they to differ for one mnemonic, every branch over it would miss its label.
THEOREM FillsItsSizeAlways == Spec => []FillsItsSize
<1>1. FitsInv /\ TypeInv => FillsItsSize
  BY TypesEnough
<1> QED
  BY <1>1, TypesAlways, PTL
=============================================================================
