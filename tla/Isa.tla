-------------------------------- MODULE Isa --------------------------------
(***************************************************************************)
(* The instruction set an assembled program is written for, said about     *)
(* machine words and about source operands, and not about the tables and   *)
(* handlers of wrasm: what a word does, and what an instruction of the     *)
(* source is meant to do.                                                  *)
(*                                                                         *)
(* A machine instruction is a name with its registers and its immediate,   *)
(* where those it does not have are 0.                                     *)
(***************************************************************************)
EXTENDS Words, Registers

Insn(name, rd, rs1, rs2, imm) ==
    [name |-> name, rd |-> rd, rs1 |-> rs1, rs2 |-> rs2, imm |-> imm]

-----------------------------------------------------------------------------
(* The operations, in the order of their funct3.                           *)

OpNames     == <<"add", "sll", "slt", "sltu", "xor", "srl", "or", "and">>
OpImmNames  == <<"addi", "slli", "slti", "sltiu", "xori", "srli", "ori", "andi">>
LoadNames   == <<"lb", "lh", "lw", "ld", "lbu", "lhu", "lwu", "-">>
StoreNames  == <<"sb", "sh", "sw", "sd", "-", "-", "-", "-">>
BranchNames == <<"beq", "bne", "-", "-", "blt", "bge", "bltu", "bgeu">>
CsrNames    == <<"-", "csrrw", "csrrs", "csrrc", "-", "csrrwi", "csrrsi", "csrrci">>

\* By the upper five bits of funct7; the lower two are the ordering.
AmoNames ==
    (0 :> "amoadd") @@ (1 :> "amoswap") @@ (2 :> "lr") @@ (3 :> "sc")
    @@ (4 :> "amoxor") @@ (8 :> "amoor") @@ (12 :> "amoand") @@ (16 :> "amomin")
    @@ (20 :> "amomax") @@ (24 :> "amominu") @@ (28 :> "amomaxu")
AmoOrders == <<"", ".rl", ".aq", ".aqrl">>

NamesOf(table) == {table[k] : k \in DOMAIN table} \ {"-"}

RegImm   == NamesOf(OpImmNames) \cup {"addiw", "slliw", "srliw", "srai", "sraiw"}
RegReg   == NamesOf(OpNames) \cup {"sub", "sra", "addw", "subw", "sllw", "srlw", "sraw"}
Shifts   == {"slli", "srli", "srai"}
ShiftsW  == {"slliw", "srliw", "sraiw"}
Loads    == NamesOf(LoadNames)
Stores   == NamesOf(StoreNames)
Branches == NamesOf(BranchNames)
Amos     == {AmoNames[k] \o w \o AmoOrders[o] :
                k \in DOMAIN AmoNames, w \in {".w", ".d"}, o \in 1 .. 4}
AmosOf(name) == {AmoNames[k] \o w \o AmoOrders[o] :
                k \in {j \in DOMAIN AmoNames : AmoNames[j] = name},
                w \in {".w", ".d"}, o \in 1 .. 4}

-----------------------------------------------------------------------------
(* What a machine word does.                                               *)

DecodeShift(w, rd, rs1, left, logical, arithmetic, bits) ==
    LET high == Extract(w, 20 + bits, 12 - bits)
        name == CASE Extract(w, 12, 3) = {0} /\ high = {} -> left
                  [] Extract(w, 12, 3) = {0, 2} /\ high = {} -> logical
                  [] Extract(w, 12, 3) = {0, 2} /\ high = {10 - bits} -> arithmetic
                  [] OTHER -> "illegal"
    IN  Insn(name, rd, rs1, 0, ValueOf(Extract(w, 20, bits)))

DecodeSystem(w, f3, rd, rs1) ==
    LET csr == ValueOf(Extract(w, 20, 12))
    IN  IF f3 # 0 THEN Insn(CsrNames[f3 + 1], rd, rs1, 0, csr)
        ELSE IF rd # 0 \/ rs1 # 0 \/ csr > 1 THEN Insn("illegal", 0, 0, 0, 0)
        ELSE Insn(IF csr = 0 THEN "ecall" ELSE "ebreak", 0, 0, 0, 0)

DecodeFence(w, f3, rd, rs1) ==
    LET imm == ValueOf(Extract(w, 20, 12))
        name == CASE f3 = 0 /\ rd = 0 /\ rs1 = 0 /\ imm < 256 -> "fence"
                  [] f3 = 0 /\ rd = 0 /\ rs1 = 0 /\ imm = \h833 -> "fence.tso"
                  [] f3 = 1 /\ rd = 0 /\ rs1 = 0 /\ imm = 0 -> "fence.i"
                  [] OTHER -> "illegal"
    IN  Insn(name, 0, 0, 0, IF name = "fence" THEN imm ELSE 0)

DecodeAmo(w, f3, rd, rs1, rs2) ==
    LET op == ValueOf(Extract(w, 27, 5))
        order == AmoOrders[ValueOf(Extract(w, 25, 2)) + 1]
        width == IF f3 = 2 THEN ".w" ELSE ".d"
    IN  IF op \notin DOMAIN AmoNames \/ f3 \notin {2, 3}
        THEN Insn("illegal", 0, 0, 0, 0)
        ELSE Insn(AmoNames[op] \o width \o order, rd, rs1, rs2, 0)

Decode(w) ==
    LET rd == ValueOf(Extract(w, 7, 5))
        f3 == ValueOf(Extract(w, 12, 3))
        rs1 == ValueOf(Extract(w, 15, 5))
        rs2 == ValueOf(Extract(w, 20, 5))
        f7 == ValueOf(Extract(w, 25, 7))
        immI == SignedValueOf(Extract(w, 20, 12), 12)
        immS == SignedValueOf(Extract(w, 7, 5) \cup ShiftLeft(Extract(w, 25, 7), 5), 12)
        immB == SignedValueOf(
                    ShiftLeft(Extract(w, 8, 4), 1) \cup ShiftLeft(Extract(w, 25, 6), 5)
                    \cup ShiftLeft(Extract(w, 7, 1), 11)
                    \cup ShiftLeft(Extract(w, 31, 1), 12), 13)
        immU == SignedValueOf(Extract(w, 12, 20), 20) * 2 ^ 12
        immJ == SignedValueOf(
                    ShiftLeft(Extract(w, 21, 10), 1) \cup ShiftLeft(Extract(w, 20, 1), 11)
                    \cup ShiftLeft(Extract(w, 12, 8), 12)
                    \cup ShiftLeft(Extract(w, 31, 1), 20), 21)
        opcode == ValueOf(Extract(w, 0, 7))
    IN  CASE opcode = \h33 /\ f7 = 0 -> Insn(OpNames[f3 + 1], rd, rs1, rs2, 0)
          [] opcode = \h33 /\ f7 = 32 /\ f3 \in {0, 5} ->
                Insn(IF f3 = 0 THEN "sub" ELSE "sra", rd, rs1, rs2, 0)
          [] opcode = \h3B /\ f7 = 0 /\ f3 \in {0, 1, 5} ->
                Insn(OpNames[f3 + 1] \o "w", rd, rs1, rs2, 0)
          [] opcode = \h3B /\ f7 = 32 /\ f3 \in {0, 5} ->
                Insn(IF f3 = 0 THEN "subw" ELSE "sraw", rd, rs1, rs2, 0)
          [] opcode = \h13 /\ f3 \in {1, 5} ->
                DecodeShift(w, rd, rs1, "slli", "srli", "srai", 6)
          [] opcode = \h13 /\ f3 \notin {1, 5} -> Insn(OpImmNames[f3 + 1], rd, rs1, 0, immI)
          [] opcode = \h1B /\ f3 = 0 -> Insn("addiw", rd, rs1, 0, immI)
          [] opcode = \h1B /\ f3 # 0 -> DecodeShift(w, rd, rs1, "slliw", "srliw", "sraiw", 5)
          [] opcode = \h03 -> Insn(LoadNames[f3 + 1], rd, rs1, 0, immI)
          [] opcode = \h23 -> Insn(StoreNames[f3 + 1], 0, rs1, rs2, immS)
          [] opcode = \h63 -> Insn(BranchNames[f3 + 1], 0, rs1, rs2, immB)
          [] opcode = \h6F -> Insn("jal", rd, 0, 0, immJ)
          [] opcode = \h67 /\ f3 = 0 -> Insn("jalr", rd, rs1, 0, immI)
          [] opcode = \h37 -> Insn("lui", rd, 0, 0, immU)
          [] opcode = \h17 -> Insn("auipc", rd, 0, 0, immU)
          [] opcode = \h0F -> DecodeFence(w, f3, rd, rs1)
          [] opcode = \h73 -> DecodeSystem(w, f3, rd, rs1)
          [] opcode = \h2F -> DecodeAmo(w, f3, rd, rs1, rs2)
          [] OTHER -> Insn("illegal", 0, 0, 0, 0)

\* What lui, or auipc from address 0, and the addi behind it leave in rd.
Loaded(words) ==
    LET upper == Decode(words[1])
        lower == Decode(words[2])
    IN  [rd |-> lower.rd, value |-> upper.imm + lower.imm,
         paired |-> /\ upper.rd = lower.rd /\ lower.rs1 = lower.rd
                    /\ lower.name = "addi"
                    /\ upper.name \in {"lui", "auipc"}]

-----------------------------------------------------------------------------
(* Operands of the source: a sequence of lexemes for each of them.  Of the *)
(* names, only those of the csrs are taken from the program's table.       *)

RegisterRange(prefix, first, last, number) ==
    [name \in {prefix \o ToString(k) : k \in first .. last} |->
        number + (CHOOSE k \in first .. last : prefix \o ToString(k) = name) - first]

RegisterNumber ==
    [zero |-> 0, ra |-> 1, sp |-> 2, gp |-> 3, tp |-> 4, fp |-> 8]
    @@ RegisterRange("x", 0, 31, 0) @@ RegisterRange("t", 0, 2, 5)
    @@ RegisterRange("t", 3, 6, 28) @@ RegisterRange("s", 0, 1, 8)
    @@ RegisterRange("s", 2, 11, 18) @@ RegisterRange("a", 0, 7, 10)

IsRegister(o) == Len(o) = 1 /\ o[1] \in DOMAIN RegisterNumber
Reg(o) == RegisterNumber[o[1]]

\* As in C, with the prefix 0o besides.
LiteralBase(lit) ==
    CASE lit.prefix = "0b" -> 2
      [] lit.prefix = "0x" -> 16
      [] lit.prefix = "0o" \/ (lit.prefix = "" /\ lit.digits[1] = 0) -> 8
      [] lit.prefix = "" /\ lit.digits[1] # 0 -> 10
IsNumber(o) ==
    /\ Len(o) = 1 /\ o[1] \in DOMAIN Literal
    /\ \A k \in DOMAIN Literal[o[1]].digits :
            Literal[o[1]].digits[k] < LiteralBase(Literal[o[1]])
NumberOf(n) ==
    LET lit == Literal[n]
        size == Len(lit.digits)
        magnitude == MapThenSumSet(
            LAMBDA k : lit.digits[k] * LiteralBase(lit) ^ (size - k), 1 .. size)
    IN  IF lit.neg THEN -magnitude ELSE magnitude
Num(o) == NumberOf(o[1])

\* offset(register), where the offset may be left out.
IsAddress(o) ==
    /\ Len(o) \in {3, 4} /\ o[Len(o) - 2] = "(" /\ o[Len(o)] = ")"
    /\ IsRegister(<<o[Len(o) - 1]>>)
    /\ Len(o) = 4 => IsNumber(<<o[1]>>)
Base(o) == RegisterNumber[o[Len(o) - 1]]
Offset(o) == IF o[1] = "(" THEN 0 ELSE NumberOf(o[1])

\* A set of fence operands, its letters in the order i, o, r, w.
FenceSet ==
    [i |-> 8, o |-> 4, r |-> 2, w |-> 1, io |-> 12, ir |-> 10, iw |-> 9, or |-> 6,
     ow |-> 5, rw |-> 3, ior |-> 14, iow |-> 13, irw |-> 11, orw |-> 7, iorw |-> 15]

\* Whether an operand is of a kind.  A label may have any name.
IsOfKind(kind, o) ==
    CASE kind = "reg" -> IsRegister(o)
      [] kind = "num" -> IsNumber(o)
      [] kind = "addr" -> IsAddress(o)
      [] kind = "zaddr" -> IsAddress(o) /\ Offset(o) = 0
      [] kind = "set" -> Len(o) = 1 /\ o[1] \in DOMAIN FenceSet
      [] kind = "csr" -> IsNumber(o) \/ (Len(o) = 1 /\ o[1] \in DOMAIN CsrMap)
      [] kind = "sym" -> Len(o) = 1

-----------------------------------------------------------------------------
(* What an instruction of the source is meant to do: its name, its operands *)
(* and, for the operand that is a label, the distance to it.  The           *)
(* pseudo-instructions are those of the comments in form/base.c.           *)

IfZero == [beqz |-> "beq", bnez |-> "bne", bgez |-> "bge", bltz |-> "blt"]
IfZeroSwapped == [blez |-> "bge", bgtz |-> "blt"]
IfSwapped == [bgt |-> "blt", ble |-> "bge", bgtu |-> "bltu", bleu |-> "bgeu"]

Meaning(name, o, distance, csrnumber) ==
    CASE name \in RegReg \cup (Amos \ (AmosOf("lr") \cup AmosOf("sc"))) ->
            Insn(name, Reg(o[1]), Reg(o[2]), Reg(o[3]), 0)
      [] name \in AmosOf("lr") -> Insn(name, Reg(o[1]), Base(o[2]), 0, 0)
      [] name \in AmosOf("sc") -> Insn(name, Reg(o[1]), Base(o[3]), Reg(o[2]), 0)
      [] name \in RegImm -> Insn(name, Reg(o[1]), Reg(o[2]), 0, Num(o[3]))
      [] name \in Loads /\ Len(o) = 2 ->
            Insn(name, Reg(o[1]), Base(o[2]), 0, Offset(o[2]))
      [] name \in Loads /\ Len(o) = 3 -> Insn(name, Reg(o[1]), Reg(o[2]), 0, Num(o[3]))
      [] name \in Stores -> Insn(name, 0, Base(o[1]), Reg(o[2]), Offset(o[1]))
      [] name \in Branches -> Insn(name, 0, Reg(o[1]), Reg(o[2]), distance)
      [] name \in {"lui", "auipc"} -> Insn(name, Reg(o[1]), 0, 0, Num(o[2]))
      [] name \in DOMAIN IfZero -> Insn(IfZero[name], 0, Reg(o[1]), 0, distance)
      [] name \in DOMAIN IfZeroSwapped ->
            Insn(IfZeroSwapped[name], 0, 0, Reg(o[1]), distance)
      [] name \in DOMAIN IfSwapped ->
            Insn(IfSwapped[name], 0, Reg(o[2]), Reg(o[1]), distance)
      [] name \in {"csrrw", "csrrs", "csrrc"} ->
            Insn(name, Reg(o[1]), Reg(o[3]), 0, csrnumber)
      [] name \in {"csrrwi", "csrrsi", "csrrci"} ->
            Insn(name, Reg(o[1]), Num(o[3]), 0, csrnumber)
      [] name = "jal" -> Insn(name, IF Len(o) = 1 THEN 1 ELSE Reg(o[1]), 0, 0, distance)
      [] name = "jalr" -> IF Len(o) = 1 THEN Insn(name, 1, Reg(o[1]), 0, 0)
                          ELSE Insn(name, Reg(o[1]), Reg(o[2]), 0, Num(o[3]))
      [] name = "fence" -> Insn(name, 0, 0, 0,
            IF o = <<>> THEN 255 ELSE 16 * FenceSet[o[1][1]] + FenceSet[o[2][1]])
      [] name \in {"ecall", "ebreak", "fence.i", "fence.tso"} -> Insn(name, 0, 0, 0, 0)
      [] name = "nop" -> Insn("addi", 0, 0, 0, 0)
      [] name = "mv" -> Insn("addi", Reg(o[1]), Reg(o[2]), 0, 0)
      [] name = "not" -> Insn("xori", Reg(o[1]), Reg(o[2]), 0, -1)
      [] name = "neg" -> Insn("sub", Reg(o[1]), 0, Reg(o[2]), 0)
      [] name = "negw" -> Insn("subw", Reg(o[1]), 0, Reg(o[2]), 0)
      [] name = "sext.w" -> Insn("addiw", Reg(o[1]), Reg(o[2]), 0, 0)
      [] name = "seqz" -> Insn("sltiu", Reg(o[1]), Reg(o[2]), 0, 1)
      [] name = "snez" -> Insn("sltu", Reg(o[1]), 0, Reg(o[2]), 0)
      [] name = "sltz" -> Insn("slt", Reg(o[1]), Reg(o[2]), 0, 0)
      [] name = "sgtz" -> Insn("slt", Reg(o[1]), 0, Reg(o[2]), 0)
      [] name = "j" -> Insn("jal", 0, 0, 0, distance)
      [] name = "jr" -> Insn("jalr", 0, Reg(o[1]), 0, 0)
      [] name = "ret" -> Insn("jalr", 0, 1, 0, 0)

\* The kinds of the operands an instruction may have.  Two loads of rv64i are
\* written unlike all the others, with the address as a register and a number.
RegisterLoads == {"lwu", "ld"}
Signatures(name) ==
    CASE name \in RegReg \cup (Amos \ (AmosOf("lr") \cup AmosOf("sc"))) ->
            {<<"reg", "reg", "reg">>}
      [] name \in AmosOf("lr") -> {<<"reg", "zaddr">>}
      [] name \in AmosOf("sc") -> {<<"reg", "reg", "zaddr">>}
      [] name \in RegImm -> {<<"reg", "reg", "num">>}
      [] name \in Loads \ RegisterLoads -> {<<"reg", "addr">>}
      [] name \in RegisterLoads -> {<<"reg", "reg", "num">>}
      [] name \in Stores -> {<<"addr", "reg">>}
      [] name \in Branches \cup DOMAIN IfSwapped -> {<<"reg", "reg", "sym">>}
      [] name \in {"lui", "auipc", "li"} -> {<<"reg", "num">>}
      [] name \in DOMAIN IfZero \cup DOMAIN IfZeroSwapped \cup {"la"} ->
            {<<"reg", "sym">>}
      [] name \in {"csrrw", "csrrs", "csrrc"} -> {<<"reg", "csr", "reg">>}
      [] name \in {"csrrwi", "csrrsi", "csrrci"} -> {<<"reg", "csr", "num">>}
      [] name = "jal" -> {<<"sym">>, <<"reg", "sym">>}
      [] name = "jalr" -> {<<"reg">>, <<"reg", "reg", "num">>}
      [] name = "fence" -> {<<>>, <<"set", "set">>}
      [] name \in {"nop", "ret", "ecall", "ebreak", "fence.i", "fence.tso"} -> {<<>>}
      [] name \in {"mv", "not", "neg", "negw", "sext.w", "seqz", "snez", "sltz",
                   "sgtz"} -> {<<"reg", "reg">>}
      [] name = "j" -> {<<"sym">>}
      [] name = "jr" -> {<<"reg">>}

WellFormed(name, o) ==
    \E kinds \in Signatures(name) :
        Len(kinds) = Len(o) /\ \A k \in DOMAIN o : IsOfKind(kinds[k], o[k])

\* Whether the machine instruction has room for the immediate.
InRange(i) ==
    CASE i.name \in Shifts -> i.imm \in 0 .. 63
      [] i.name \in ShiftsW -> i.imm \in 0 .. 31
      [] i.name \in Branches -> i.imm \in -4096 .. 4094 /\ i.imm % 2 = 0
      [] i.name = "jal" -> i.imm \in -1048576 .. 1048574 /\ i.imm % 2 = 0
      [] i.name \in {"lui", "auipc"} -> i.imm % 4096 = 0
      [] i.name \in {"csrrwi", "csrrsi", "csrrci"} ->
            i.rs1 \in 0 .. 31 /\ i.imm \in 0 .. 4095
      [] i.name \in {"csrrw", "csrrs", "csrrc"} -> i.imm \in 0 .. 4095
      [] i.name = "fence" -> i.imm \in 0 .. 255
      [] OTHER -> i.imm \in -2048 .. 2047
=============================================================================
