------------------------------ MODULE Encoding ------------------------------
(***************************************************************************)
(* form/*.c: the tables of mnemonics, and the form handlers that make      *)
(* machine words of the arguments of an instruction.                       *)
(*                                                                         *)
(* args is a record with the registers as numbers, the immediate as the    *)
(* word it is kept in, and, where the instruction refers to a label, the   *)
(* distance to it, which calc_symbol_offset computes.  A handler gives the *)
(* sequence of the words it emits.                                         *)
(***************************************************************************)
EXTENDS Words, Sequences, TLC

OP_LOAD == \h03
OP_STORE == \h23
OP_BRANCH == \h63
OP_JAL == \h6F
OP_JALR == \h67
OP_MISC_MEM == \h0F
OP_OP == \h33
OP_OPI == \h13
OP_OP32 == \h3B
OP_OPI32 == \h1B
OP_SYSTEM == \h73
OP_LUI == \h37
OP_AUIPC == \h17
OP_AMO == \h2F

-----------------------------------------------------------------------------
(* The formats of machine words: form/generic.c.                           *)

Fields(i) == [opcode |-> BitsOf(i.opcode), funct3 |-> BitsOf(i.funct3),
              funct7 |-> BitsOf(i.funct7)]

form_rtype(i, args) ==
    <<Fields(i).opcode \cup ShiftLeft(BitsOf(args.rd), 7)
      \cup ShiftLeft(Fields(i).funct3, 12) \cup ShiftLeft(BitsOf(args.rs1), 15)
      \cup ShiftLeft(BitsOf(args.rs2), 20) \cup ShiftLeft(Fields(i).funct7, 25)>>

form_itype(i, args) ==
    <<Fields(i).opcode \cup ShiftLeft(BitsOf(args.rd), 7)
      \cup ShiftLeft(Fields(i).funct3, 12) \cup ShiftLeft(BitsOf(args.rs1), 15)
      \cup ShiftLeft(Extract(args.imm, 0, 12), 20)>>

\* The bit that tells the arithmetic right shifts from the logical ones.
form_itype2(i, args) == <<form_itype(i, args)[1] \cup {30}>>

form_stype(i, args) ==
    <<Fields(i).opcode \cup ShiftLeft(Extract(args.imm, 0, 5), 7)
      \cup ShiftLeft(Fields(i).funct3, 12) \cup ShiftLeft(BitsOf(args.rs1), 15)
      \cup ShiftLeft(BitsOf(args.rs2), 20)
      \cup ShiftLeft(Extract(args.imm, 5, 7), 25)>>

\* Mutant: bits 11 and 12 of the distance change places.
form_btypeCrossed(i, args) ==
    LET offset == BitsOf(args.distance)
    IN  <<Fields(i).opcode \cup ShiftLeft(Extract(offset, 12, 1), 7)
          \cup ShiftLeft(Extract(offset, 1, 4), 8)
          \cup ShiftLeft(Fields(i).funct3, 12)
          \cup ShiftLeft(BitsOf(args.rs1), 15) \cup ShiftLeft(BitsOf(args.rs2), 20)
          \cup ShiftLeft(Extract(offset, 5, 6), 25)
          \cup ShiftLeft(Extract(offset, 11, 1), 31)>>

form_btype(i, args) ==
    LET offset == BitsOf(args.distance)
    IN  <<Fields(i).opcode \cup ShiftLeft(Extract(offset, 11, 1), 7)
          \cup ShiftLeft(Extract(offset, 1, 4), 8)
          \cup ShiftLeft(Fields(i).funct3, 12)
          \cup ShiftLeft(BitsOf(args.rs1), 15) \cup ShiftLeft(BitsOf(args.rs2), 20)
          \cup ShiftLeft(Extract(offset, 5, 6), 25)
          \cup ShiftLeft(Extract(offset, 12, 1), 31)>>

form_utype(i, args) ==
    <<Fields(i).opcode \cup ShiftLeft(Extract(BitsOf(args.rd), 0, 5), 7)
      \cup ShiftLeft(Extract(args.imm, 12, 20), 12)>>

form_jtype(i, args) ==
    LET offset == BitsOf(args.distance)
    IN  <<Fields(i).opcode \cup ShiftLeft(Extract(BitsOf(args.rd), 0, 5), 7)
          \cup ShiftLeft(Extract(offset, 12, 8), 12)
          \cup ShiftLeft(Extract(offset, 11, 1), 20)
          \cup ShiftLeft(Extract(offset, 1, 10), 21)
          \cup ShiftLeft(Extract(offset, 20, 1), 31)>>

-----------------------------------------------------------------------------
(* Pseudo-instructions and system calls: form/base.c.                      *)

Idata(opcode, funct3, funct7) ==
    [opcode |-> opcode, funct3 |-> funct3, funct7 |-> funct7]

With(args, changes) == changes @@ args

form_syscall(i, args) ==
    <<Fields(i).opcode \cup ShiftLeft(Fields(i).funct3, 12)
      \cup ShiftLeft(Fields(i).funct7, 20)>>

form_nop(i, args) == form_itype(i, [rd |-> 0, rs1 |-> 0, imm |-> {}])

\* Mutant: the value of li is shifted into place twice.
form_load_pseudoShifted(i, args) ==
    LET value == IF i.opcode = "LOAD_IMM" THEN args.imm ELSE BitsOf(args.distance)
        opcode == IF i.opcode = "LOAD_IMM" THEN OP_LUI ELSE OP_AUIPC
    IN  form_utype(Idata(opcode, 0, 0), With(args, [imm |-> ShiftLeft(value, 12)]))
        \o form_itype(Idata(OP_OPI, 0, 0),
                      With(args, [rs1 |-> args.rd, imm |-> value \cap (0 .. 11)]))

\* Mutant: a value of 11 bits is loaded by the addi alone.
form_load_pseudoShort(i, args) ==
    LET value == IF i.opcode = "LOAD_IMM" THEN args.imm ELSE BitsOf(args.distance)
        opcode == IF i.opcode = "LOAD_IMM" THEN OP_LUI ELSE OP_AUIPC
        upper == IF value \subseteq 0 .. 10 THEN <<>>
                 ELSE form_utype(Idata(opcode, 0, 0),
                                 With(args, [imm |-> value \cap (12 .. 31)]))
    IN  upper \o form_itype(Idata(OP_OPI, 0, 0),
                      With(args, [rs1 |-> IF upper = <<>> THEN 0 ELSE args.rd,
                                  imm |-> value \cap (0 .. 11)]))

\* The upper 20 bits by lui or auipc, the lower 12 by an addi behind it.
form_load_pseudo(i, args) ==
    LET value == IF i.opcode = "LOAD_IMM" THEN args.imm ELSE BitsOf(args.distance)
        opcode == IF i.opcode = "LOAD_IMM" THEN OP_LUI ELSE OP_AUIPC
    IN  form_utype(Idata(opcode, 0, 0), With(args, [imm |-> value \cap (12 .. 31)]))
        \o form_itype(Idata(OP_OPI, 0, 0),
                      With(args, [rs1 |-> args.rd, imm |-> value \cap (0 .. 11)]))

\* The operand of a pseudo-instruction becomes the second one of its base.
Swapped(args) == With(args, [rs1 |-> 0, rs2 |-> args.rs1])

form_math(i, args) ==
    CASE i.opcode = "MATH_MV" ->
            form_itype(Idata(OP_OPI, 0, 0), With(args, [imm |-> {}]))
      [] i.opcode = "MATH_NOT" ->
            form_itype(Idata(OP_OPI, 4, 0), With(args, [imm |-> Bit]))
      [] i.opcode = "MATH_NEG" ->
            form_rtype(Idata(OP_OP, 0, \h20), Swapped(args))
      [] i.opcode = "MATH_NEGW" ->
            form_rtype(Idata(OP_OP32, 0, \h20), Swapped(args))
      [] i.opcode = "MATH_SEXTW" ->
            form_itype(Idata(OP_OPI32, 0, 0), With(args, [imm |-> {}]))

form_setif(i, args) ==
    CASE i.opcode = "SETIF_EQZ" ->
            form_itype(Idata(OP_OPI, 3, 0), With(args, [imm |-> {0}]))
      [] i.opcode = "SETIF_NEZ" -> form_rtype(Idata(OP_OP, 3, 0), Swapped(args))
      [] i.opcode = "SETIF_LTZ" ->
            form_rtype(Idata(OP_OP, 2, 0), With(args, [rs2 |-> 0]))
      [] i.opcode = "SETIF_GTZ" -> form_rtype(Idata(OP_OP, 2, 0), Swapped(args))

form_branchifz(i, args) ==
    LET funct3 == CASE i.opcode = "BRANCHIFZ_EQZ" -> 0
                    [] i.opcode = "BRANCHIFZ_NEZ" -> 1
                    [] i.opcode \in {"BRANCHIFZ_LEZ", "BRANCHIFZ_GEZ"} -> 5
                    [] i.opcode \in {"BRANCHIFZ_LTZ", "BRANCHIFZ_GTZ"} -> 4
    IN  form_btype(Idata(OP_BRANCH, funct3, 0),
            IF i.opcode \in {"BRANCHIFZ_LEZ", "BRANCHIFZ_GTZ"} THEN Swapped(args)
            ELSE With(args, [rs2 |-> 0]))

\* The value of the enumeration is the funct3 of the branch with the
\* registers exchanged.
form_branchifr(i, args) ==
    form_btype(Idata(OP_BRANCH, i.opcode, 0),
               With(args, [rs1 |-> args.rs2, rs2 |-> args.rs1]))

form_jump(i, args) ==
    IF i.opcode = "JUMP_J"
    THEN form_jtype(Idata(OP_JAL, 0, 0), With(args, [rd |-> 0]))
    ELSE form_itype(Idata(OP_JALR, 0, 0),
            With(args, [rd |-> 0, imm |-> {},
                        rs1 |-> IF i.opcode = "JUMP_RET" THEN 1 ELSE args.rs1]))

Emit(f, args) ==
    CASE f.form = "form_rtype" -> form_rtype(f.idata, args)
      [] f.form = "form_itype" -> form_itype(f.idata, args)
      [] f.form = "form_itype2" -> form_itype2(f.idata, args)
      [] f.form = "form_stype" -> form_stype(f.idata, args)
      [] f.form = "form_btype" -> form_btype(f.idata, args)
      [] f.form = "form_utype" -> form_utype(f.idata, args)
      [] f.form = "form_jtype" -> form_jtype(f.idata, args)
      [] f.form = "form_syscall" -> form_syscall(f.idata, args)
      [] f.form = "form_nop" -> form_nop(f.idata, args)
      [] f.form = "form_load_pseudo" -> form_load_pseudo(f.idata, args)
      [] f.form = "form_math" -> form_math(f.idata, args)
      [] f.form = "form_setif" -> form_setif(f.idata, args)
      [] f.form = "form_branchifz" -> form_branchifz(f.idata, args)
      [] f.form = "form_branchifr" -> form_branchifr(f.idata, args)
      [] f.form = "form_jump" -> form_jump(f.idata, args)
=============================================================================
