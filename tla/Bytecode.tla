------------------------------ MODULE Bytecode ------------------------------
(***************************************************************************)
(* bytecode.c: the instructions and the data items read from the source,   *)
(* kept with the position they were given, and turned into bytes once the  *)
(* layout is known.  The encodings themselves (form/) are abstracted to    *)
(* what layout and references tell apart: how many bytes the instruction   *)
(* was counted for, how many its handler produces, and its operand.        *)
(***************************************************************************)
EXTENDS Output, Symbols

CONSTANTS
    Strings,   \* the contents of the string literals that occur
    StrLen,    \* their length once escapes are replaced
    Garbage    \* an operand computed from indeterminate memory

ASSUME BytecodeAssumption == StrLen \in [Strings -> Nat]

\* One representative per way an instruction meets layout and symbols.
SymForms == {"branch", "la"}
Forms == {"word", "li"} \cup SymForms

\* Mutant: li and la are counted as one machine instruction.
IdataSizeFour == [f \in Forms |-> 4]

\* formation.idata.sz: what parse_asm adds to the section.
IdataSize == [f \in Forms |-> IF f \in {"li", "la"} THEN 8 ELSE 4]

\* bytecode.size: what the form handler returns.  form_load_pseudo glues a
\* U-type and an I-type instruction of 4 bytes together.
UpperSize == 4
LowerSize == 4
\* Mutant: form_load_pseudo returns the upper half alone.
EmittedSizeUpper == [f \in Forms |-> 4]

EmittedSize ==
    [f \in Forms |-> IF f \in {"li", "la"} THEN UpperSize + LowerSize ELSE 4]

VARIABLES
    instructions,  \* sequences, in source order
    dataitems

itemVars == <<instructions, dataitems>>

Instruction == [form     : Forms,
                sym      : Pointer \cup {NoSymbol},
                position : ProgPosition]

RawData == [str      : Strings,
            nullterm : BOOLEAN,
            size     : Nat,
            position : ProgPosition]

BytecodeTypeOK ==
    /\ instructions \in Seq(Instruction)
    /\ dataitems \in Seq(RawData)

BytecodeInit == instructions = <<>> /\ dataitems = <<>>

AddInstruction(insn) == instructions' = Append(instructions, insn)
AddData(item) == dataitems' = Append(dataitems, item)

-----------------------------------------------------------------------------

\* Whether reading section and value through the pointer is defined: the array
\* has not moved since, and a label has been parsed for the symbol.
Readable(ptr) == Live(ptr) /\ Deref(ptr).section # Uninit

\* Mutant: every label is taken to be in .text.
CalcSymbolOffsetInText(sym, filepos) ==
    CalcFileOffset([section |-> SECTION_TEXT, offset |-> sym.value]) - filepos

CalcSymbolOffset(sym, filepos) ==
    CalcFileOffset([section |-> sym.section, offset |-> sym.value]) - filepos

Operand(insn) ==
    IF insn.sym = NoSymbol
    THEN NoSymbol
    ELSE CalcSymbolOffset(Deref(insn.sym), CalcFileOffset(insn.position))

Emit(insn, operand) ==
    WriteSectionData([form |-> insn.form, operand |-> operand],
                     EmittedSize[insn.form], insn.position)

\* write_instruction.  A symbol without a label, or read through a dangling
\* pointer, gives indeterminate fields: they may happen to be SECTION_NULL,
\* which is reported; or, through a dangling pointer, no SYMBOL_LABEL, which
\* form_btype reports; or another section, which gives a garbage operand; or no
\* section at all, which indexes outputsections out of bounds.
WriteInstruction(insn) ==
    /\ outputsection' = insn.position.section
    /\ \/ /\ insn.sym # NoSymbol => Readable(insn.sym)
          /\ Emit(insn, Operand(insn))
       \/ /\ insn.sym # NoSymbol
          /\ ~Readable(insn.sym)
          /\ \/ Logger("ERROR", "error_unknown") /\ UNCHANGED contents
             \/ /\ ~Live(insn.sym) /\ insn.form = "branch"
                /\ Logger("ERROR", "error_invalid_syntax") /\ UNCHANGED contents
             \/ Emit(insn, Garbage)
             \/ Fault /\ UNCHANGED contents

\* write_data
WriteData(item) ==
    /\ outputsection' = item.position.section
    /\ WriteSectionData([str |-> item.str, nullterm |-> item.nullterm],
                        item.size, item.position)
=============================================================================
