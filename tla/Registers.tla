------------------------------ MODULE Registers ------------------------------
(***************************************************************************)
(* registers.c: the names of registers and of control and status           *)
(* registers, and the reading of numbers.                                  *)
(***************************************************************************)
EXTENDS Lexemes, TLC

\* (size_t)-1 and 0xFFFF, which say that there is no such thing.
NoRegister == -1
NoCsr == \hFFFF

-----------------------------------------------------------------------------
(* Numbers.                                                                *)

\* Horner's rule over the first n digits.
DigitsValue(digits, base, n) ==
    LET value[k \in 0 .. n] ==
            IF k = 0 THEN 0 ELSE value[k - 1] * base + digits[k]
    IN  value[n]

\* The digits strtol takes: those before the first that is not of the base.
Taken(digits, base) ==
    CHOOSE n \in 0 .. Len(digits) :
        /\ \A k \in 1 .. n : digits[k] < base
        /\ n < Len(digits) => digits[n + 1] >= base

\* strtol with base 0: a prefix 0x, or a leading zero, gives the base; of a
\* number with another prefix it takes the zero.
StrtolBaseZero(lit) ==
    LET base == CASE lit.prefix = "0x" -> 16
                  [] lit.prefix = "" /\ lit.digits[1] = 0 -> 8
                  [] OTHER -> 10
        magnitude == IF lit.prefix \in {"0b", "0o"} THEN 0
                     ELSE DigitsValue(lit.digits, base, Taken(lit.digits, base))
    IN  IF lit.neg THEN -magnitude ELSE magnitude

\* Whether strtol, with base 0, takes all of the lexeme.
StrtolTakesAll(lit) ==
    /\ lit.prefix \notin {"0b", "0o"}
    /\ LET base == CASE lit.prefix = "0x" -> 16
                     [] lit.prefix = "" /\ lit.digits[1] = 0 -> 8
                     [] OTHER -> 10
       IN  Taken(lit.digits, base) = Len(lit.digits)

PrefixBase == ("0b" :> 2) @@ ("0o" :> 8) @@ ("0x" :> 16)

\* The prefix is recognised at the start only, so not behind a sign; what
\* follows the number is not looked at.
GetImmediate(text) ==
    IF text = <<>> \/ text[1] \notin DOMAIN Literal THEN [ok |-> FALSE]
    ELSE LET lit == Literal[text[1]]
             base == PrefixBase[lit.prefix]
         IN  IF lit.neg \/ lit.prefix = ""
             THEN [ok |-> TRUE, value |-> StrtolBaseZero(lit)]
             ELSE [ok |-> Taken(lit.digits, base) > 0,
                   value |-> DigitsValue(lit.digits, base,
                                         Taken(lit.digits, base))]

-----------------------------------------------------------------------------
(* Registers.                                                              *)

RegAbiMap ==
    <<"zero", "ra", "sp", "gp", "tp", "t0", "t1", "t2", "s0", "s1",
      "a0", "a1", "a2", "a3", "a4", "a5", "a6", "a7",
      "s2", "s3", "s4", "s5", "s6", "s7", "s8", "s9", "s10", "s11",
      "t3", "t4", "t5", "t6">>

\* The number of characters before the first space.
Characters(text) ==
    LET before[k \in 0 .. Len(text)] ==
            IF k = 0 \/ text[k] = " " THEN 0 ELSE before[k - 1] + Len(text[k])
        spaces == {k \in DOMAIN text : text[k] = " "}
    IN  IF spaces = {} THEN before[Len(text)]
        ELSE before[(CHOOSE k \in spaces : \A j \in spaces : k <= j) - 1]

\* Of a name that begins with an x atol takes what it can; every other name
\* has to be the whole text.
GetRegisterId(text) ==
    IF text = <<>> \/ Characters(text) > 4 THEN NoRegister
    ELSE IF text[1] \in DOMAIN XValue
    THEN IF XValue[text[1]] \in 0 .. 31 THEN XValue[text[1]] ELSE NoRegister
    ELSE CASE \E r \in 1 .. 32 : text = <<RegAbiMap[r]>> ->
                (CHOOSE r \in 1 .. 32 : text = <<RegAbiMap[r]>>) - 1
           [] text = <<"fp">> -> 8
           [] OTHER -> NoRegister

-----------------------------------------------------------------------------
(* Control and status registers: csr_map, a bank of numbered registers at a *)
(* time.                                                                   *)

\* Mutant: the first register of a bank comes behind its base.
BankBehind(prefix, first, last, suffix, base) ==
    [name \in {prefix \o ToString(k) \o suffix : k \in first .. last} |->
        base + (CHOOSE k \in first .. last :
                    prefix \o ToString(k) \o suffix = name) - first + 1]

Bank(prefix, first, last, suffix, base) ==
    [name \in {prefix \o ToString(k) \o suffix : k \in first .. last} |->
        base + (CHOOSE k \in first .. last :
                    prefix \o ToString(k) \o suffix = name) - first]

UserCsrs ==
    [fflags |-> 1, frm |-> 2, fcsr |-> 3, cycle |-> \hC00, time |-> \hC01,
     instret |-> \hC02, cycleh |-> \hC80, timeh |-> \hC81, instreth |-> \hC82]
    @@ Bank("hpmcounter", 3, 31, "", \hC03) @@ Bank("hpmcounter", 3, 31, "h", \hC83)

SupervisorCsrs ==
    [sstatus |-> \h100, sie |-> \h104, stvec |-> \h105, scounteren |-> \h106,
     senvcfg |-> \h10A, scountinhibit |-> \h120, sscratch |-> \h140,
     sepc |-> \h141, scause |-> \h142, stval |-> \h143, sip |-> \h144,
     scountovf |-> \hDA0, satp |-> \h180, scontext |-> \h5A8]
    @@ Bank("sstateen", 0, 3, "", \h10C)

HypervisorCsrs ==
    [hstatus |-> \h600, hedeleg |-> \h602, hideleg |-> \h603, hie |-> \h604,
     hcounteren |-> \h606, hgeie |-> \h607, hedelegh |-> \h612, htval |-> \h643,
     hip |-> \h644, hvip |-> \h645, htinst |-> \h64A, hgeip |-> \hE12,
     henvcfg |-> \h60A, henvcfgh |-> \h61A, hgatp |-> \h680, hcontext |-> \h6A8,
     htimedelta |-> \h605, htimedeltah |-> \h615, vsstatus |-> \h200,
     vsie |-> \h204, vstvec |-> \h205, vsscratch |-> \h240, vsepc |-> \h241,
     vscause |-> \h242, vstval |-> \h243, vsip |-> \h244, vsatp |-> \h280]
    @@ Bank("hstateen", 0, 3, "", \h60C) @@ Bank("hstateen", 0, 3, "h", \h61C)

MachineCsrs ==
    [mvendorid |-> \hF11, marchid |-> \hF12, mimpid |-> \hF13, mhartid |-> \hF14,
     mconfigptr |-> \hF15, mstatus |-> \h300, misa |-> \h301, medeleg |-> \h302,
     mideleg |-> \h303, mie |-> \h304, mtvec |-> \h305, mcounteren |-> \h306,
     mstatush |-> \h310, medelegh |-> \h312, mscratch |-> \h340, mepc |-> \h341,
     mcause |-> \h342, mtval |-> \h343, mip |-> \h344, mtinst |-> \h34A,
     mtval2 |-> \h34B, menvcfg |-> \h30A, menvcfgh |-> \h31A, mseccfg |-> \h747,
     mseccfgh |-> \h757]

ProtectionCsrs ==
    Bank("pmpcfg", 0, 15, "", \h3A0) @@ Bank("pmpaddr", 0, 63, "", \h3B0)
    @@ Bank("mstateen", 0, 3, "", \h30C) @@ Bank("mstateen", 0, 3, "h", \h31C)
    @@ [mnscratch |-> \h740, mnepc |-> \h741, mncause |-> \h742, mnstatus |-> \h744]

CounterCsrs ==
    [mcycle |-> \hB00, minstret |-> \hB02, mcycleh |-> \hB80, minstreth |-> \hB82,
     mcountinhibit |-> \h320]
    @@ Bank("mhpmcounter", 3, 31, "", \hB03) @@ Bank("mhpmcounter", 3, 31, "h", \hB83)
    @@ Bank("mhpmevent", 3, 31, "", \h323) @@ Bank("mhpmevent", 3, 31, "h", \h723)

DebugCsrs ==
    [tselect |-> \h7A0, tdata1 |-> \h7A1, tdata2 |-> \h7A2, tdata3 |-> \h7A3,
     mcontext |-> \h7A8, dcsr |-> \h7B0, dpc |-> \h7B1, dscratch0 |-> \h7B2,
     dscratch1 |-> \h7B3]

CsrMap == UserCsrs @@ SupervisorCsrs @@ HypervisorCsrs @@ MachineCsrs
          @@ ProtectionCsrs @@ CounterCsrs @@ DebugCsrs

\* A number has to be the whole text; it is cut to a uint16_t.
GetCsr(text) ==
    IF Len(text) # 1 THEN NoCsr
    ELSE CASE text[1] \in DOMAIN Literal ->
                IF StrtolTakesAll(Literal[text[1]])
                THEN StrtolBaseZero(Literal[text[1]]) % 2 ^ 16 ELSE NoCsr
           [] text[1] \in DOMAIN CsrMap -> CsrMap[text[1]]
           [] OTHER -> NoCsr
=============================================================================
