------------------------------- MODULE MCLine -------------------------------
(***************************************************************************)
(* Lines for TLC: every mnemonic with operands of the right kinds, at the  *)
(* bounds of their ranges and beyond, every register, every csr, malformed *)
(* instructions, strings, directives, labels, and what may stand before    *)
(* and behind a line.                                                      *)
(***************************************************************************)
EXTENDS Line

Number(neg, prefix, digits) == [neg |-> neg, prefix |-> prefix, digits |-> digits]
MCLiteral ==
    ("0"     :> Number(FALSE, "", <<0>>))
 @@ ("1"     :> Number(FALSE, "", <<1>>))
 @@ ("-1"    :> Number(TRUE, "", <<1>>))
 @@ ("-4"    :> Number(TRUE, "", <<4>>))
 @@ ("31"    :> Number(FALSE, "", <<3, 1>>))
 @@ ("32"    :> Number(FALSE, "", <<3, 2>>))
 @@ ("63"    :> Number(FALSE, "", <<6, 3>>))
 @@ ("64"    :> Number(FALSE, "", <<6, 4>>))
 @@ ("2047"  :> Number(FALSE, "", <<2, 0, 4, 7>>))
 @@ ("2048"  :> Number(FALSE, "", <<2, 0, 4, 8>>))
 @@ ("-2048" :> Number(TRUE, "", <<2, 0, 4, 8>>))
 @@ ("-2049" :> Number(TRUE, "", <<2, 0, 4, 9>>))
 @@ ("0x7FF" :> Number(FALSE, "0x", <<7, 15, 15>>))
 @@ ("0x12345678" :> Number(FALSE, "0x", <<1, 2, 3, 4, 5, 6, 7, 8>>))
 @@ ("0x12345800" :> Number(FALSE, "0x", <<1, 2, 3, 4, 5, 8, 0, 0>>))
 @@ ("0x7FFFF000" :> Number(FALSE, "0x", <<7, 15, 15, 15, 15, 0, 0, 0>>))
 @@ ("0b101" :> Number(FALSE, "0b", <<1, 0, 1>>))
 @@ ("-0b101" :> Number(TRUE, "0b", <<1, 0, 1>>))
 @@ ("0o17"  :> Number(FALSE, "0o", <<1, 7>>))
 @@ ("-0o17" :> Number(TRUE, "0o", <<1, 7>>))
 @@ ("0b2"   :> Number(FALSE, "0b", <<2>>))
 @@ ("010"   :> Number(FALSE, "", <<0, 1, 0>>))
 @@ ("08"    :> Number(FALSE, "", <<0, 8>>))
 @@ ("12ab"  :> Number(FALSE, "", <<1, 2, 10, 11>>))
 @@ ("0x300" :> Number(FALSE, "0x", <<3, 0, 0>>))
 @@ ("4096"  :> Number(FALSE, "", <<4, 0, 9, 6>>))

MCXValue ==
    [x \in {"x" \o ToString(k) : k \in 0 .. 33} |->
        CHOOSE k \in 0 .. 33 : x = "x" \o ToString(k)]
    @@ ("xyz" :> 0) @@ ("xcounter" :> 0) @@ ("x3000" :> 3000)

MCDotted == {".string", ".asciz", ".ascii", ".section", ".globl", ".text", ".data",
             ".bss", "[section"}
MCHexDigit == ("4" :> 4) @@ ("1" :> 1) @@ ("7" :> 7) @@ ("f" :> 15) @@ ("0" :> 0)
              @@ ("a" :> 10)
MCAscii == ("A" :> 65) @@ ("4" :> 52) @@ ("f" :> 102) @@ (" " :> 32) @@ ("/" :> 47)
           @@ (":" :> 58) @@ ("//" :> 47) @@ ("n" :> 110) @@ ("x" :> 120)
           @@ ("u" :> 117) @@ ("0" :> 48) @@ ("1" :> 49) @@ ("7" :> 55)
MCLeftover == {<<>>, <<"\"">>, <<"A", "\"">>, <<"A">>}

-----------------------------------------------------------------------------

At(body, distance) ==
    [labels |-> <<>>, lead |-> <<>>, trail |-> <<>>, body |-> body,
     distance |-> distance]
Trailing(body, trail) == [At(body, 8) EXCEPT !.trail = trail]

Seqs(choices) == {s \in [DOMAIN choices -> UNION {choices[k] : k \in DOMAIN choices}] :
                    \A k \in DOMAIN choices : s[k] \in choices[k]}

\* Operands of each kind, where the registers of an instruction are different.
Operands(kind, place) ==
    CASE kind = "reg" /\ place = 1 -> {<<"t0">>, <<"x31">>}
      [] kind = "reg" /\ place = 2 -> {<<"s11">>}
      [] kind = "reg" /\ place = 3 -> {<<"a6">>}
      [] kind = "num" -> {<<n>> : n \in DOMAIN Literal \ {"0b2", "08", "12ab"}}
      [] kind = "addr" -> {<<"(", "a0", ")">>, <<"-2048", "(", "sp", ")">>,
                           <<"2047", "(", "x5", ")">>, <<"2048", "(", "fp", ")">>,
                           <<"0b101", "(", "s3", ")">>}
      [] kind = "zaddr" -> {<<"(", "a0", ")">>, <<"0", "(", "t6", ")">>}
      [] kind = "sym" -> {<<"loop">>, <<"a1">>}
      [] kind = "csr" -> {<<"mtvec">>, <<"0x300">>, <<"0b101">>}
      [] kind = "set" -> {<<s>> : s \in DOMAIN FenceSet}

Distances(name) ==
    CASE name = "la" -> {0, 2047, 2048, -2048, -2049, 1193046, 2147479552}
      [] name \in {"j", "jal"} -> {-4, 1048574, 1048576, -1048576, 3, 349526}
      [] OTHER -> {-4, 4094, 4096, -4096, -4098, 7, 1364}

\* Every mnemonic with every choice of the operands above.
WellFormedLines ==
    UNION {UNION {
        {At(InsnBody(name, o), d) :
            o \in Seqs([k \in DOMAIN kinds |-> Operands(kinds[k], k)]),
            d \in IF kinds # <<>> /\ kinds[Len(kinds)] = "sym" THEN Distances(name)
                  ELSE {0}} :
        kinds \in Signatures(name)} : name \in Mnemonics}

\* Every register in every place, and every csr.
RegisterLines ==
    {At(InsnBody("add", [k \in 1 .. 3 |-> IF k = place THEN <<r>> ELSE <<"x1">>]), 0) :
        r \in DOMAIN RegisterNumber, place \in 1 .. 3}
CsrLines ==
    {At(InsnBody("csrrw", <<<<"t1">>, <<csr>>, <<"t2">>>>), 0) : csr \in DOMAIN CsrMap}

\* For each mnemonic an operand too many, one too few, and one of another kind.
Sample(kind, place) == CHOOSE o \in Operands(kind, place) :
                            kind = "addr" => o[1] = "("
SampleOf(kinds) == [k \in DOMAIN kinds |-> Sample(kinds[k], k)]
Wrong == {<<"loop">>, <<"x32">>, <<"xyz">>, <<"xcounter">>, <<"x3000">>, <<"12ab">>,
          <<"08">>, <<"0b2">>, <<"a0">>, <<>>, <<"4096", "(", "a0", ")">>,
          <<"0", "(", "a0">>, <<"(", "loop", ")">>, <<"wr">>}
MalformedLines ==
    UNION {UNION {
        LET o == SampleOf(kinds)
        IN  {At(InsnBody(name, p), 0) :
                p \in {Append(o, <<"a0">>), Append(Append(o, <<"a0">>), <<"a1">>)}
                      \cup (IF o = <<>> THEN {} ELSE {Front(o)})
                      \cup {[o EXCEPT ![k] = w] : k \in DOMAIN o, w \in Wrong}
                      \cup {SubSeq(o, 1, k) \o <<<<>>>> \o SubSeq(o, k + 1, Len(o)) :
                                k \in DOMAIN o}} :
        kinds \in Signatures(name)} :
        name \in {"add", "addi", "lw", "sw", "lui", "beq", "beqz", "mv", "li", "la", "j",
                  "jr", "jal", "jalr", "fence", "fence.tso", "nop", "ret", "lr.w",
                  "sc.d", "csrrw", "csrrsi"}}
    \cup {At(RawBody(<<"unknown", " ", "a0">>), 0), At(RawBody(<<"ret", "\r">>), 0),
          At(RawBody(<<"j", " ", ".text">>), 0)}

\* Strings: all of two characters or fewer, and some beyond their end.
Chars == {Char(65, <<"A">>), Char(52, <<"4">>), Char(102, <<"f">>), Char(58, <<":">>),
          Char(47, <<"//">>), Char(59, <<";">>), Char(10, <<"\\", "n">>),
          Char(92, <<"\\", "\\">>), Char(34, <<"\\", "\"">>), Char(0, <<"\\", "0">>),
          Char(65, <<"\\", "x", "4", "1">>), Char(255, <<"\\", "x", "f", "f">>),
          Char(57, <<"\\", "u", "7", "1">>)}
StringLines ==
    {At(StringBody(d, c), 0) :
        d \in {".string", ".asciz", ".ascii"},
        c \in {<<>>} \cup {<<a>> : a \in Chars} \cup {<<a, b>> : a \in Chars, b \in Chars}}

\* Directives that are none, or not complete.
RawLines ==
    {At(RawBody(<<d>> \o r), 0) :
        d \in {".string", ".asciz", ".ascii"},
        r \in {<<>>, <<" ">>, <<" ", "A">>, <<" ", "\"">>, <<" ", "\"", "A">>,
               <<" ", "\"", "A", "\\">>, <<" ", "\"", "\\", "\\">>, <<"\"", "A", "\"">>,
               <<" ", "\"", "A", "\\", "\"">>, <<" ", "\"", "A", "\"", "\\">>,
               <<" ", "\"", "A", "\\", ";", "\"">>,
               <<" ", "\t", "\"", "A", "\\">>, <<" ", "A", "\"", "\\">>,
               <<" ", "\"", "\\", "x", "f", "f", "f", "\\">>,
               <<" ", "\"", "\\", "x", "f", "f", "\\">>}}
    \cup {At(RawBody(<<d>>), 0) : d \in {".section", ".globl", ".text", "[section"}}
    \cup {At(RawBody(<<d, " ", "loop">>), 0) : d \in {".section", ".text", "[section"}}

\* What may stand before and behind.
Trails == {<<>>, <<" ">>, <<"\r">>, <<";">>, <<";", " ", "comment", ":", "x1">>,
           <<" ", ";", "comment">>, <<" ", "//", " ", "comment">>,
           <<"//", "comment">>, <<" ", "//", "comment", ":", " ", "xcounter">>,
           <<" ", "//", "comment", ":">>,
           <<" ", "//", "comment", ",", " ", "too">>}
Bodies == {NoBody, SelectBody(".text"), SelectBody(".data"), SelectBody(".bss"),
           GlobalBody("loop"), StringBody(".asciz", <<Char(65, <<"A">>)>>)}
          \cup {InsnBody(name, SampleOf(kinds)) : <<name, kinds>> \in
                UNION {{name} \X Signatures(name) : name \in
                    {"add", "addi", "lw", "sw", "beq", "li", "la", "j", "jr", "jal",
                     "jalr", "fence", "nop", "ret", "sc.d", "csrrwi"}}}
          \cup {InsnBody("add", <<<<"x1">>, <<"x2">>, <<"x3">>>>),
                InsnBody("mv", <<<<"a0">>, <<"x31">>>>)}
DecoratedLines ==
    {[labels |-> l, lead |-> s, trail |-> t, body |-> b, distance |-> 8] :
        l \in {<<>>, <<"loop">>, <<"one", "two">>}, s \in {<<>>, <<" ", "\t">>},
        t \in Trails, b \in Bodies}

LoadLines == {w \in WellFormedLines : w.body.name \in {"li", "la"}}

MCWritten == UNION {WellFormedLines, RegisterLines, CsrLines, MalformedLines,
                    StringLines, RawLines, DecoratedLines}
=============================================================================
