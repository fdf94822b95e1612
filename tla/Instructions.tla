---------------------------- MODULE Instructions ----------------------------
(***************************************************************************)
(* The tables of mnemonics of form/base.c, form/atomic.c, form/csr.c and   *)
(* form/fencei.c, and parse_form of form/instructions.c.  Rows that share  *)
(* their two handlers and their opcode are given together.                 *)
(***************************************************************************)
EXTENDS Encoding

Formation(form, arg, sz, opcode, funct3, funct7) ==
    [form |-> form, arg |-> arg, sz |-> sz,
     idata |-> Idata(opcode, funct3, funct7)]

\* row[name] is funct3, or funct3 and funct7.
Rows(form, arg, opcode, row) ==
    [name \in DOMAIN row |-> Formation(form, arg, 4, opcode, row[name], 0)]
Rows7(form, arg, opcode, row) ==
    [name \in DOMAIN row |->
        Formation(form, arg, 4, opcode, row[name][1], row[name][2])]

\* Pseudo-instructions carry the value of an enumeration for an opcode.
Pseudo(form, arg, kind) ==
    [name \in DOMAIN kind |-> Formation(form, arg, 4, kind[name], 0, 0)]

\* Tables that are searched in this order.
Searched(tables) ==
    [name \in UNION {DOMAIN tables[k] : k \in DOMAIN tables} |->
        tables[Min({k \in DOMAIN tables : name \in DOMAIN tables[k]})][name]]

rv32iPseudo == Searched(<<
    [nop |-> Formation("form_nop", "parse_none", 4, OP_OPI, 0, 0),
     li  |-> Formation("form_load_pseudo", "parse_li", 8, "LOAD_IMM", 0, 0),
     la  |-> Formation("form_load_pseudo", "parse_la", 8, "LOAD_ADDR", 0, 0)],
    Pseudo("form_math", "parse_pseudo",
        [mv |-> "MATH_MV", not |-> "MATH_NOT", neg |-> "MATH_NEG"]),
    Pseudo("form_setif", "parse_pseudo",
        [seqz |-> "SETIF_EQZ", snez |-> "SETIF_NEZ", sltz |-> "SETIF_LTZ",
         sgtz |-> "SETIF_GTZ"]),
    Pseudo("form_branchifz", "parse_bztype",
        [beqz |-> "BRANCHIFZ_EQZ", bnez |-> "BRANCHIFZ_NEZ",
         blez |-> "BRANCHIFZ_LEZ", bgez |-> "BRANCHIFZ_GEZ",
         bltz |-> "BRANCHIFZ_LTZ", bgtz |-> "BRANCHIFZ_GTZ"]),
    Pseudo("form_branchifr", "parse_btype",
        [bgt |-> 4, ble |-> 5, bgtu |-> 6, bleu |-> 7]),
    Pseudo("form_jump", "parse_j", [j |-> "JUMP_J"]),
    Pseudo("form_jump", "parse_jr", [jr |-> "JUMP_JR"]),
    Pseudo("form_jump", "parse_none", [ret |-> "JUMP_RET"])>>)

rv32iBase == Searched(<<
    Rows("form_itype", "parse_ftso", OP_MISC_MEM, ("fence.tso" :> 0)),
    Rows7("form_rtype", "parse_rtype", OP_OP,
        [add |-> <<0, 0>>, sub |-> <<0, \h20>>, and |-> <<7, 0>>, or |-> <<6, 0>>,
         xor |-> <<4, 0>>, sll |-> <<1, 0>>, srl |-> <<5, 0>>, sra |-> <<5, \h20>>,
         slt |-> <<2, 0>>, sltu |-> <<3, 0>>]),
    Rows("form_itype", "parse_itype", OP_OPI,
        [addi |-> 0, andi |-> 7, ori |-> 6, xori |-> 4, slti |-> 2, sltiu |-> 3]),
    Rows("form_btype", "parse_btype", OP_BRANCH,
        [beq |-> 0, bne |-> 1, bge |-> 5, bgeu |-> 7, blt |-> 4, bltu |-> 6]),
    Rows("form_jtype", "parse_jal", OP_JAL, [jal |-> 0]),
    Rows("form_itype", "parse_jalr", OP_JALR, [jalr |-> 0]),
    Rows7("form_syscall", "parse_none", OP_SYSTEM,
        [ecall |-> <<0, 0>>, ebreak |-> <<0, 1>>]),
    Rows("form_itype", "parse_ltype", OP_LOAD,
        [lb |-> 0, lh |-> 1, lw |-> 2, lbu |-> 4, lhu |-> 5]),
    Rows("form_stype", "parse_stype", OP_STORE, [sb |-> 0, sh |-> 1, sw |-> 2]),
    Rows("form_utype", "parse_utype", OP_LUI, [lui |-> 0]),
    Rows("form_utype", "parse_utype", OP_AUIPC, [auipc |-> 0]),
    Rows("form_itype", "parse_fence", OP_MISC_MEM, [fence |-> 0])>>)

rv64i == Searched(<<
    Pseudo("form_math", "parse_pseudo",
        [name \in {"negw", "sext.w"} |->
            IF name = "negw" THEN "MATH_NEGW" ELSE "MATH_SEXTW"]),
    Rows7("form_rtype", "parse_rtype", OP_OP32,
        [addw |-> <<0, 0>>, subw |-> <<0, \h20>>, sllw |-> <<1, 0>>,
         srlw |-> <<5, 0>>, sraw |-> <<5, \h20>>]),
    Rows("form_itype", "parse_itype", OP_OPI32,
        [addiw |-> 0, slliw |-> 0, srliw |-> 5]),
    Rows("form_itype", "parse_itype", OP_OPI, [slli |-> 1, srli |-> 5]),
    Rows("form_itype2", "parse_itype", OP_OPI, [srai |-> 5]),
    Rows("form_itype2", "parse_itype", OP_OPI32, [sraiw |-> 5]),
    Rows("form_itype", "parse_itype", OP_LOAD, [lwu |-> 6, ld |-> 3]),
    Rows("form_stype", "parse_stype", OP_STORE, [sd |-> 3])>>)

-----------------------------------------------------------------------------
(* Atomic memory operations: an operation, a width and an ordering.        *)

Orderings == {"", ".rl", ".aq", ".aqrl"}

\* What an ordering adds to funct7; amoxor has two of them exchanged.
OrderingBits(op, ordering) ==
    LET exchanged == op = "amoxor"
    IN  CASE ordering = "" -> 0
          [] ordering = ".rl" -> IF exchanged THEN 2 ELSE 1
          [] ordering = ".aq" -> IF exchanged THEN 1 ELSE 2
          [] ordering = ".aqrl" -> 3

AmoFunct7 ==
    [lr |-> \h08, sc |-> \h0C, amoswap |-> \h04, amoadd |-> \h00, amoxor |-> \h10,
     amoor |-> \h20, amoand |-> \h30, amomin |-> \h40, amomax |-> \h50,
     amominu |-> \h60, amomaxu |-> \h70]

AmoArg(op) == CASE op = "lr" -> "parse_al" [] op = "sc" -> "parse_as"
                [] OTHER -> "parse_rtype"

AmoName(op, width, ordering) == op \o width \o ordering

AmoRows(width, funct3) ==
    [name \in {AmoName(op, width, o) : op \in DOMAIN AmoFunct7, o \in Orderings} |->
        LET op == CHOOSE p \in DOMAIN AmoFunct7 :
                    \E o \in Orderings : AmoName(p, width, o) = name
            o == CHOOSE q \in Orderings : AmoName(op, width, q) = name
        IN  Formation("form_rtype", AmoArg(op), 4, OP_AMO, funct3,
                      AmoFunct7[op] + OrderingBits(op, o))]

rv32a == AmoRows(".w", 2)
rv64a == AmoRows(".d", 3)

-----------------------------------------------------------------------------

zicsr == Searched(<<
    Rows("form_itype", "parse_csr", OP_SYSTEM,
        [csrrw |-> 1, csrrs |-> 2, csrrc |-> 3]),
    Rows("form_itype", "parse_csri", OP_SYSTEM,
        [csrrwi |-> 5, csrrsi |-> 6, csrrci |-> 7])>>)

zifencei == Rows("form_itype", "parse_none", OP_MISC_MEM, ("fence.i" :> 1))

\* parse_form searches the tables in this order.
Formations ==
    Searched(<<rv32iPseudo, rv32iBase, rv64i, rv32a, rv64a, zicsr, zifencei>>)
Mnemonics == DOMAIN Formations
=============================================================================
