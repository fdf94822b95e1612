--------------------------- MODULE AssemblerProofs ---------------------------
(***************************************************************************)
(* Facts about Assembler.tla that hold for every set of names and strings, *)
(* every hash function and sources of every length: its types, and two     *)
(* safety properties, each from an inductive invariant of its own on top   *)
(* of TypeInv.  The items tile the two sections (ItemsTile), and the       *)
(* sections lie apart in the file (LayoutDisjoint).  The lemmas at the end *)
(* are about the pointers of the instructions where no two names share a   *)
(* bucket, as AssemblerImplements has it.                                  *)
(***************************************************************************)
EXTENDS Assembler, SymbolsProofs

USE BytecodeAssumption, AssemblerAssumption

-----------------------------------------------------------------------------
(* What leaves a group of variables alone keeps its types.                 *)

\* Leaving the variables of a component alone keeps them well typed.
LEMMA Unchanged ==
    /\ UNCHANGED processVars /\ ProcessTypeOK => ProcessTypeOK'
    /\ UNCHANGED outputVars /\ OutputTypeOK => OutputTypeOK'
    /\ UNCHANGED symbolVars /\ SymbolsTypeOK => SymbolsTypeOK'
    /\ UNCHANGED itemVars /\ BytecodeTypeOK => BytecodeTypeOK'
  BY DEF processVars, outputVars, symbolVars, itemVars, ProcessTypeOK,
         OutputTypeOK, SymbolsTypeOK, BytecodeTypeOK

\* The program starts well typed.
LEMMA TypeInit == Init => TypeOK
<1> SUFFICES ASSUME Init PROVE TypeOK
  OBVIOUS
<1>1. ProcessTypeOK
  BY DEF Init, ProcessInit, ProcessTypeOK
<1>2. OutputTypeOK
  BY DEF Init, OutputInit, OutputTypeOK, ProgSections, Sections, SECTION_TEXT,
         SECTION_DATA
<1>3. SymbolsTypeOK
  BY SymbolsInitOK DEF Init
<1>4. BytecodeTypeOK
  BY DEF Init, BytecodeInit, BytecodeTypeOK
<1>5. ControlTypeOK
  BY DEF Init, OutputInit, ControlTypeOK, PCs, Reading, GetOutputPos, Sections,
         ProgPosition, ProgSections, SECTION_TEXT, SECTION_DATA, SECTION_COUNT,
         FirstSlot
<1> QED
  BY <1>1, <1>2, <1>3, <1>4, <1>5 DEF TypeOK

-----------------------------------------------------------------------------
(* The inductive invariant behind the types.  Types alone are not enough:  *)
(* an operand is a number only if the pointer it is computed through is    *)
(* inside its bucket, which needs the table's entries to stay; and the     *)
(* loops over the two lists must start at their first item.                *)

PointersInTable ==
    \A k \in DOMAIN instructions :
        instructions[k].sym # NoSymbol =>
            instructions[k].sym.index \in DOMAIN symbols[instructions[k].sym.hash]

LoopsFromOne == pc \in {"instructions", "data"} => i >= 1

TypeInv == TypeOK /\ NamesUnique /\ PointersInTable /\ LoopsFromOne

\* Logging keeps the process state well typed.
LEMMA LoggerType ==
    ASSUME ProcessTypeOK, NEW level \in Levels, NEW id \in ErrorIds,
           Logger(level, id)
    PROVE  ProcessTypeOK'
  BY DEF ProcessTypeOK, Logger, Diagnostic

\* A write of well-typed bytes keeps the contents well typed.
LEMMA WriteType ==
    ASSUME OutputTypeOK, ProcessTypeOK, NEW bytes, NEW len \in Nat,
           NEW pos \in Position,
           [at |-> pos.offset, len |-> len, bytes |-> bytes] \in Extent,
           WriteSectionData(bytes, len, pos)
    PROVE  contents' \in [Sections -> Seq(Extent)] /\ ProcessTypeOK'
<1>1. CASE Fits(len, pos)
  <2>1. contents[pos.section] \in Seq(Extent)
    BY DEF OutputTypeOK, Position
  <2>2. Append(contents[pos.section],
               [at |-> pos.offset, len |-> len, bytes |-> bytes]) \in Seq(Extent)
    BY <2>1
  <2>3. contents' \in [Sections -> Seq(Extent)]
    BY <1>1, <2>2 DEF WriteSectionData, OutputTypeOK
  <2> QED
    BY <1>1, <2>3 DEF WriteSectionData, processVars, ProcessTypeOK
<1>2. CASE ~Fits(len, pos)
  <2>1. Logger("CRITICAL", "error_internal") /\ UNCHANGED contents
    BY <1>2 DEF WriteSectionData
  <2> QED
    BY <2>1, LoggerType DEF OutputTypeOK, Levels, ErrorIds
<1> QED
  BY <1>1, <1>2

\* The five sections and their constants, as numbers.
LEMMA SectionFacts ==
    /\ Sections = 0 .. 4
    /\ ProgSections = {2, 3}
    /\ SECTION_NULL = 0 /\ SECTION_STRTAB = 1 /\ SECTION_TEXT = 2
    /\ SECTION_DATA = 3 /\ SECTION_SYMTAB = 4 /\ SECTION_COUNT = 5
    /\ Align \in [Sections -> {1, 4, 8}]
    /\ SectionNameSz \in [Sections -> Nat]
    /\ SectionNamesSz = 29
  BY DEF Sections, ProgSections, SECTION_NULL, SECTION_STRTAB, SECTION_TEXT,
         SECTION_DATA, SECTION_SYMTAB, SECTION_COUNT, Align, SectionNameSz,
         SectionNamesSz

\* Rounding up reaches the next multiple and goes no further.
LEMMA AlignUp ==
    ASSUME NEW off \in Nat \ {0}, NEW align \in {1, 4, 8}
    PROVE  /\ AlignOffset(off, align) \in Nat
           /\ AlignOffset(off, align) >= off
           /\ AlignOffset(off, align) < off + align
           /\ AlignOffset(off, align) % align = 0
<1>1. CASE align = 1
  BY <1>1 DEF AlignOffset
<1>2. CASE align = 4
  BY <1>2 DEF AlignOffset
<1>3. CASE align = 8
  BY <1>3 DEF AlignOffset
<1> QED
  BY <1>1, <1>2, <1>3

\* Every call that touches the symbol table keeps it well typed and leaves the
\* pointers into it inside it.
LEMMA CallType ==
    ASSUME SymbolsTypeOK, NamesUnique, NEW name \in Name,
           \/ GetOrCreateSymbol(name)
           \/ MakeGlobal(name)
           \/ \E section \in ProgSections, value \in Nat :
                    DefineLabel(name, section, value)
    PROVE  /\ SymbolsTypeOK' /\ NamesUnique'
           /\ \A h \in Bucket : \A k \in DOMAIN symbols[h] :
                    k \in DOMAIN symbols'[h]
<1>1. PICK sym \in Symbol : sym.name = name /\ Put(name, sym)
  BY CallPuts
<1> QED
  BY <1>1, PutTable

\* A pointer handed out by such a call points into the table the call leaves.
LEMMA PointerType ==
    ASSUME SymbolsTypeOK, NamesUnique, NEW name \in Name, GetOrCreateSymbol(name)
    PROVE  /\ PointerTo(name) \in Pointer
           /\ PointerTo(name).index \in DOMAIN symbols'[PointerTo(name).hash]
           /\ PointerTo(name).hash = Hash[name]
           /\ PointerTo(name).block = block'[Hash[name]]
<1> DEFINE m == IndexOf(Interned(name), name)
<1>1. /\ Interned(name) \in Table
      /\ UniqueIn(Interned(name))
      /\ m \in Entries(Interned(name), name)
  BY InternedTable DEF SymbolsTypeOK, Table
<1>2. m \in 1 .. Len(Interned(name)[Hash[name]])
  BY <1>1, IndexFound
<1>3. Hash[name] \in Bucket
  BY SymbolsAssumption
<1>4. Interned(name)[Hash[name]] \in Seq(Symbol)
  BY <1>1, <1>3 DEF Table
<1>5. symbols' = [Interned(name) EXCEPT ![Hash[name]] =
                    [Interned(name)[Hash[name]] EXCEPT ![m] = Entry(Interned(name), name)]]
  BY DEF GetOrCreateSymbol, Put
<1> HIDE DEF m
<1>6. DOMAIN symbols'[Hash[name]] = DOMAIN Interned(name)[Hash[name]]
  BY <1>1, <1>3, <1>5 DEF Table
<1>7. m \in Nat \ {0} /\ m \in DOMAIN symbols'[Hash[name]]
  BY <1>2, <1>4, <1>6
<1>8. block'[Hash[name]] \in Nat
  BY <1>3, CallType DEF SymbolsTypeOK
<1>9. PointerTo(name) = [hash |-> Hash[name], index |-> m, block |-> block'[Hash[name]]]
  BY DEF PointerTo, m
<1> QED
  BY <1>3, <1>7, <1>8, <1>9 DEF Pointer

-----------------------------------------------------------------------------
(* The steps of the reading half.                                          *)

\* One more unit keeps the history and the loop variables well typed.
LEMMA UnreadType ==
    ASSUME ControlTypeOK, NEW unit \in Unit, Unread(unit), pc' \in PCs
    PROVE  ControlTypeOK'
<1>1. source' = Append(source, unit) /\ source \in Seq(Unit)
  BY DEF Unread, ControlTypeOK
<1>2. source' \in Seq(Unit)
  BY <1>1
<1>3. /\ UNCHANGED <<position, linenumber>>
      /\ UNCHANGED <<i, cursor, count, slot, strbuf>>
      /\ UNCHANGED <<temp, outfile>>
  BY DEF Unread, loopVars, fileVars
<1>4. position' \in ProgPosition /\ linenumber' \in Nat
  BY <1>3 DEF ControlTypeOK
<1>5. /\ i' \in Nat /\ cursor' \in Nat /\ count' \in Nat
      /\ slot' \in Nat \X Nat
      /\ strbuf' \in SUBSET [at : Nat, name : Name]
  BY <1>3 DEF ControlTypeOK
<1>6. Len(temp') <= 1 /\ Len(outfile') <= 1
  BY <1>3 DEF ControlTypeOK
<1> QED
  BY <1>2, <1>4, <1>5, <1>6 DEF ControlTypeOK

\* Where the program stands is always inside one of the two program sections.
LEMMA PositionType ==
    ASSUME OutputTypeOK
    PROVE  GetOutputPos \in ProgPosition
<1>1. outputsection \in ProgSections /\ size \in [Sections -> Nat]
  BY DEF OutputTypeOK
<1>2. ProgSections \subseteq Sections
  BY SectionFacts
<1>3. size[outputsection] \in Nat
  BY <1>1, <1>2
<1> QED
  BY <1>1, <1>3 DEF GetOutputPos, ProgPosition

\* A section that grows keeps the sizes well typed.
LEMMA GrowType ==
    ASSUME size \in [Sections -> Nat], NEW section \in ProgSections, NEW amount \in Nat,
           IncOutputSize(section, amount)
    PROVE  size' \in [Sections -> Nat]
<1>1. section \in Sections /\ size[section] + amount \in Nat
  BY SectionFacts
<1> QED
  BY <1>1 DEF IncOutputSize

\* parse_asm keeps the sizes and the list well typed, and adds one instruction.
LEMMA AddAsmType ==
    ASSUME TypeInv, NEW form \in Forms, NEW sym \in Pointer \cup {NoSymbol},
           AddAsm(form, sym)
    PROVE  /\ ProcessTypeOK' /\ OutputTypeOK' /\ BytecodeTypeOK' /\ pc' = "getl"
           /\ \A k \in DOMAIN instructions' :
                \/ k \in DOMAIN instructions /\ instructions'[k] = instructions[k]
                \/ instructions'[k].sym = sym
<1> DEFINE insn == [form |-> form, sym |-> sym, position |-> position]
<1>1. insn \in Instruction /\ instructions \in Seq(Instruction)
  BY DEF Instruction, TypeInv, TypeOK, ControlTypeOK, BytecodeTypeOK
<1>2. instructions' = Append(instructions, insn)
  BY DEF AddAsm, AddInstruction
<1>3. insn.sym = sym
  OBVIOUS
<1> HIDE DEF insn
<1>4. /\ instructions' \in Seq(Instruction)
      /\ \A k \in DOMAIN instructions' :
            \/ k \in DOMAIN instructions /\ instructions'[k] = instructions[k]
            \/ instructions'[k] = insn
  BY <1>1, <1>2
<1>5. IdataSize[form] \in Nat
  BY DEF IdataSize
<1>6. size' \in [Sections -> Nat]
  BY <1>5, GrowType DEF AddAsm, TypeInv, TypeOK, OutputTypeOK, ControlTypeOK,
                        ProgPosition
<1> QED
  BY <1>3, <1>4, <1>6 DEF AddAsm, TypeInv, TypeOK, OutputTypeOK, BytecodeTypeOK, Goto,
                    processVars, ProcessTypeOK

\* Whatever a line contains, parsing it keeps the invariant.
LEMMA ParseType ==
    ASSUME TypeInv, ParseLine
    PROVE  TypeInv'
<1> USE DEF TypeInv, TypeOK
<1>1. /\ \A label \in PCs : Goto(label) => pc' \in PCs
      /\ {"getl", "copy", "line"} \subseteq PCs
  BY DEF Goto, PCs, Reading
<1>2. ASSUME UNCHANGED <<symbolVars, itemVars>> PROVE PointersInTable' /\ NamesUnique'
  BY <1>2 DEF symbolVars, itemVars, PointersInTable, NamesUnique, UniqueIn
<1>3. ASSUME UNCHANGED instructions, NEW name \in Name,
             \/ GetOrCreateSymbol(name)
             \/ MakeGlobal(name)
             \/ \E section \in ProgSections, value \in Nat :
                    DefineLabel(name, section, value)
      PROVE  PointersInTable' /\ NamesUnique' /\ SymbolsTypeOK'
  <2>1. /\ SymbolsTypeOK' /\ NamesUnique'
        /\ \A h \in Bucket : \A k \in DOMAIN symbols[h] :
                k \in DOMAIN symbols'[h]
    BY <1>3, CallType
  <2>2. \A k \in DOMAIN instructions :
            instructions[k].sym # NoSymbol => instructions[k].sym.hash \in Bucket
    <3>1. \A k \in DOMAIN instructions : instructions[k] \in Instruction
      BY DEF BytecodeTypeOK
    <3> QED
      BY <3>1 DEF Instruction, Pointer
  <2> QED
    BY <1>3, <2>1, <2>2 DEF PointersInTable
<1>4. CASE EndOfLine
  <2>1. ControlTypeOK' /\ LoopsFromOne'
    BY <1>1, <1>4 DEF EndOfLine, Goto, ControlTypeOK, LoopsFromOne, inputVars,
                      loopVars, fileVars
  <2> QED
    BY <1>2, <1>4, <2>1, Unchanged DEF EndOfLine
<1>5. ASSUME NEW name \in Name, ParseLabel(name) PROVE TypeInv'
  <2>1. Text!LabelUnit(name) \in Unit
    BY DEF Unit, GoodUnit
  <2>2. pc' = "line"
    BY <1>5 DEF ParseLabel, Unread, At
  <2>3. ControlTypeOK' /\ LoopsFromOne'
    BY <1>1, <1>5, <2>1, <2>2, UnreadType DEF ParseLabel, LoopsFromOne
  <2>4. PointersInTable' /\ NamesUnique' /\ SymbolsTypeOK'
    BY <1>3, <1>5, PositionType DEF ParseLabel, itemVars, ProgPosition
  <2> QED
    BY <1>5, <2>3, <2>4, Unchanged DEF ParseLabel
<1>6. ASSUME NEW name \in Name, ParseGlobal(name) PROVE TypeInv'
  <2>1. Text!GlobalUnit(name) \in Unit
    BY DEF Unit, GoodUnit
  <2>2. pc' = "getl"
    BY <1>6 DEF ParseGlobal, Goto
  <2>3. ControlTypeOK' /\ LoopsFromOne'
    BY <1>1, <1>6, <2>1, <2>2, UnreadType DEF ParseGlobal, LoopsFromOne
  <2>4. PointersInTable' /\ NamesUnique' /\ SymbolsTypeOK'
    BY <1>3, <1>6 DEF ParseGlobal, itemVars
  <2> QED
    BY <1>6, <2>3, <2>4, Unchanged DEF ParseGlobal
<1>7. ASSUME NEW section \in ProgSections, ParseSection(section) PROVE TypeInv'
  <2>1. Text!SectionUnit(section) \in Unit
    BY DEF Unit, GoodUnit
  <2>2. pc' = "getl"
    BY <1>7 DEF ParseSection, Goto
  <2>3. ControlTypeOK' /\ LoopsFromOne'
    BY <1>1, <1>7, <2>1, <2>2, UnreadType DEF ParseSection, LoopsFromOne
  <2>4. OutputTypeOK'
    BY <1>7 DEF ParseSection, ChangeOutput, OutputTypeOK
  <2> QED
    BY <1>2, <1>7, <2>3, <2>4, Unchanged DEF ParseSection
<1>8. CASE ParseSectionUnknown
  <2>1. Text!BadUnit \in Unit
    BY DEF Unit
  <2>2. pc' = "copy"
    BY <1>8 DEF ParseSectionUnknown, Goto
  <2>3. ControlTypeOK' /\ LoopsFromOne'
    BY <1>1, <1>8, <2>1, <2>2, UnreadType DEF ParseSectionUnknown, LoopsFromOne
  <2>4. ProcessTypeOK'
    BY <1>8, LoggerType DEF ParseSectionUnknown, Levels, ErrorIds
  <2> QED
    BY <1>2, <1>8, <2>3, <2>4, Unchanged DEF ParseSectionUnknown
<1>9. ASSUME NEW str \in Strings, NEW nullterm \in BOOLEAN,
             ParseAscii(str, nullterm)
      PROVE  TypeInv'
  <2> DEFINE sz == NullTermSize(str) - (IF nullterm THEN 0 ELSE 1)
             item == [str |-> str, nullterm |-> nullterm, size |-> sz,
                      position |-> GetOutputPos]
  <2>1. Text!DataUnit(str, nullterm) \in Unit
    BY DEF Unit, GoodUnit
  <2>2. pc' = "getl"
    BY <1>9 DEF ParseAscii, Goto
  <2>3. ControlTypeOK' /\ LoopsFromOne'
    BY <1>1, <1>9, <2>1, <2>2, UnreadType DEF ParseAscii, LoopsFromOne
  <2>4. sz \in Nat
    BY DEF NullTermSize
  <2>5. item \in RawData
    BY <2>4, PositionType DEF RawData
  <2>6. dataitems' = Append(dataitems, item) /\ UNCHANGED <<instructions, symbolVars>>
    BY <1>9 DEF ParseAscii, AddData
  <2>7. size' \in [Sections -> Nat]
    BY <1>9, <2>4, PositionType, GrowType DEF ParseAscii, OutputTypeOK, ProgPosition
  <2> HIDE DEF sz, item
  <2>8. BytecodeTypeOK'
    BY <2>5, <2>6 DEF BytecodeTypeOK
  <2>9. OutputTypeOK'
    BY <1>9, <2>7 DEF ParseAscii, OutputTypeOK
  <2>10. PointersInTable' /\ NamesUnique'
    BY <2>6 DEF PointersInTable, NamesUnique, UniqueIn, symbolVars
  <2> QED
    BY <1>9, <2>3, <2>6, <2>8, <2>9, <2>10, Unchanged DEF ParseAscii
<1>10. CASE ParseAscizUnquoted
  <2>1. Text!BadUnit \in Unit
    BY DEF Unit
  <2>2. pc' = "copy"
    BY <1>10 DEF ParseAscizUnquoted, Goto
  <2>3. ControlTypeOK' /\ LoopsFromOne'
    BY <1>1, <1>10, <2>1, <2>2, UnreadType DEF ParseAscizUnquoted, LoopsFromOne
  <2> QED
    BY <1>2, <1>10, <2>3, Unchanged DEF ParseAscizUnquoted
<1>11. CASE ParseAsciiUnquoted \/ ParseError
  <2>1. ProcessTypeOK'
    BY <1>11, LoggerType DEF ParseAsciiUnquoted, ParseError, Levels, ErrorIds
  <2>2. ControlTypeOK' /\ LoopsFromOne'
    BY <1>11 DEF ParseAsciiUnquoted, ParseError, ControlTypeOK, LoopsFromOne,
                 inputVars, loopVars, fileVars
  <2> QED
    BY <1>2, <1>11, <2>1, <2>2, Unchanged DEF ParseAsciiUnquoted, ParseError
<1>12. ASSUME NEW form \in SymForms, NEW name \in Name, ParseAsmSymbol(form, name)
       PROVE  TypeInv'
  <2>1. Text!InsnUnit(form, name) \in Unit /\ form \in Forms
    BY DEF Unit, GoodUnit, Forms
  <2>2. /\ PointerTo(name) \in Pointer
        /\ PointerTo(name).index \in DOMAIN symbols'[PointerTo(name).hash]
    BY <1>12, PointerType DEF ParseAsmSymbol
  <2>3. AddAsm(form, PointerTo(name)) /\ GetOrCreateSymbol(name)
    BY <1>12 DEF ParseAsmSymbol
  <2>4. /\ SymbolsTypeOK' /\ NamesUnique'
        /\ \A h \in Bucket : \A k \in DOMAIN symbols[h] :
                k \in DOMAIN symbols'[h]
    BY <2>3, CallType
  <2> DEFINE ptr == PointerTo(name)
  <2> HIDE DEF ptr
  <2>5. /\ ProcessTypeOK' /\ OutputTypeOK' /\ BytecodeTypeOK' /\ pc' = "getl"
        /\ \A k \in DOMAIN instructions' :
             \/ k \in DOMAIN instructions /\ instructions'[k] = instructions[k]
             \/ instructions'[k].sym = ptr
    BY <2>1, <2>2, <2>3, AddAsmType DEF ptr
  <2>6. \A k \in DOMAIN instructions :
            instructions[k].sym # NoSymbol => instructions[k].sym.hash \in Bucket
    <3>1. \A k \in DOMAIN instructions : instructions[k] \in Instruction
      BY DEF BytecodeTypeOK
    <3> QED
      BY <3>1 DEF Instruction, Pointer
  <2>7. PointersInTable'
    BY <2>2, <2>4, <2>5, <2>6 DEF PointersInTable, ptr
  <2>8. ControlTypeOK' /\ LoopsFromOne'
    BY <1>1, <1>12, <2>1, <2>5, UnreadType DEF ParseAsmSymbol, LoopsFromOne
  <2> QED
    BY <2>4, <2>5, <2>7, <2>8
<1>13. ASSUME NEW form \in Forms \ SymForms, ParseAsmPlain(form)
       PROVE  TypeInv'
  <2>1. Text!InsnUnit(form, NoSymbol) \in Unit
    BY DEF Unit, GoodUnit
  <2>2. /\ ProcessTypeOK' /\ OutputTypeOK' /\ BytecodeTypeOK' /\ pc' = "getl"
        /\ \A k \in DOMAIN instructions' :
             \/ k \in DOMAIN instructions /\ instructions'[k] = instructions[k]
             \/ instructions'[k].sym = NoSymbol
    BY <1>13, AddAsmType DEF ParseAsmPlain
  <2>3. UNCHANGED symbolVars
    BY <1>13 DEF ParseAsmPlain
  <2>4. PointersInTable' /\ NamesUnique'
    BY <2>2, <2>3 DEF PointersInTable, NamesUnique, UniqueIn, symbolVars
  <2>5. ControlTypeOK' /\ LoopsFromOne'
    BY <1>1, <1>13, <2>1, <2>2, UnreadType DEF ParseAsmPlain, LoopsFromOne
  <2> QED
    BY <2>2, <2>3, <2>4, <2>5, Unchanged
<1> QED
  BY <1>4, <1>5, <1>6, <1>7, <1>8, <1>9, <1>10, <1>11, <1>12, <1>13 DEF ParseLine
-----------------------------------------------------------------------------
(* The steps of the writing half.                                          *)

\* A slot of the table holds a symbol.
LEMMA SlotType ==
    ASSUME SymbolsTypeOK, slot \in Nat \X Nat
    PROVE  /\ IsSlot(slot) => /\ SymbolAt(slot) \in Symbol
                              /\ NameSz[SymbolAt(slot).name] \in Nat
           /\ <<slot[1], slot[2] + 1>> \in Nat \X Nat
           /\ <<slot[1] + 1, 1>> \in Nat \X Nat
<1>1. ASSUME IsSlot(slot) PROVE SymbolAt(slot) \in Symbol
  BY <1>1 DEF IsSlot, SymbolAt, SymbolsTypeOK
<1>2. \A sym \in Symbol : sym.name \in Name
  BY DEF Symbol
<1>3. \A name \in Name : NameSz[name] \in Nat
  BY SymbolsAssumption
<1> QED
  BY <1>1, <1>2, <1>3

\* Steps that touch neither the process, the items nor the symbols keep the
\* two parts of the invariant that are about pointers.
LEMMA PointersKept ==
    ASSUME PointersInTable, NamesUnique, UNCHANGED <<symbolVars, itemVars>>
    PROVE  PointersInTable' /\ NamesUnique'
  BY DEF symbolVars, itemVars, PointersInTable, NamesUnique, UniqueIn

\* Steps that only move the program on: to another line, symbol or loop.
LEMMA MoveType ==
    ASSUME TypeInv,
           \/ ReadLine \/ EndOfInput \/ CalcSymbol \/ NextBucket
           \/ InstructionsDone \/ DataDone \/ CopyName \/ FillSymtabDone
    PROVE  TypeInv'
<1> USE DEF TypeInv, TypeOK
<1>1. UNCHANGED <<processVars, outputVars, symbolVars, itemVars, temp, outfile>>
  BY DEF ReadLine, EndOfInput, CalcSymbol, NextBucket, InstructionsDone, DataDone,
         CopyName, FillSymtabDone, fileVars
<1>2. ProcessTypeOK' /\ OutputTypeOK' /\ SymbolsTypeOK' /\ BytecodeTypeOK'
  BY <1>1, Unchanged
<1>3. PointersInTable' /\ NamesUnique'
  BY <1>1, PointersKept
<1>4. Len(temp') <= 1 /\ Len(outfile') <= 1
  BY <1>1 DEF ControlTypeOK
<1>5. pc' \in PCs /\ LoopsFromOne'
  BY DEF ReadLine, EndOfInput, CalcSymbol, NextBucket, InstructionsDone, DataDone,
         CopyName, FillSymtabDone, Goto, At, loopVars, ControlTypeOK, LoopsFromOne,
         PCs, Reading, Writing
<1>6. position' \in ProgPosition
  <2>1. position' = position \/ position' = GetOutputPos
    BY DEF ReadLine, EndOfInput, CalcSymbol, NextBucket, InstructionsDone, DataDone,
           CopyName, FillSymtabDone, inputVars
  <2> QED
    BY <2>1, PositionType DEF ControlTypeOK
<1>7. linenumber' \in Nat /\ source' \in Seq(Unit) /\ i' \in Nat
  BY DEF ReadLine, EndOfInput, CalcSymbol, NextBucket, InstructionsDone, DataDone,
         CopyName, FillSymtabDone, inputVars, loopVars, ControlTypeOK
<1>8. cursor' \in Nat /\ count' \in Nat
  <2> DEFINE sz == NameSz[SymbolAt(slot).name]
  <2>1. IsSlot(slot) => sz \in Nat
    BY SlotType DEF ControlTypeOK
  <2>2. /\ cursor' = cursor \/ cursor' = 1 \/ (IsSlot(slot) /\ cursor' = cursor + sz)
        /\ count' = count \/ count' = 0 \/ count' = count + 1
    BY DEF ReadLine, EndOfInput, CalcSymbol, NextBucket, InstructionsDone, DataDone,
           CopyName, FillSymtabDone, loopVars
  <2> HIDE DEF sz
  <2>3. cursor \in Nat /\ count \in Nat
    BY DEF ControlTypeOK
  <2> QED
    BY <2>1, <2>2, <2>3
<1>9. slot' \in Nat \X Nat
  <2>1. \/ slot' = slot \/ slot' = FirstSlot
        \/ slot' = <<slot[1], slot[2] + 1>> \/ slot' = <<slot[1] + 1, 1>>
    BY DEF ReadLine, EndOfInput, CalcSymbol, NextBucket, InstructionsDone, DataDone,
           CopyName, FillSymtabDone, loopVars
  <2> QED
    BY <2>1, SlotType DEF ControlTypeOK, FirstSlot
<1>10. strbuf' \in SUBSET [at : Nat, name : Name]
  <2>1. CASE CopyName
    <3>1. IsSlot(slot) /\ SymbolAt(slot).name \in Name
      BY <2>1, SlotType DEF CopyName, ControlTypeOK, Symbol
    <3>2. [at |-> cursor, name |-> SymbolAt(slot).name] \in [at : Nat, name : Name]
      BY <3>1 DEF ControlTypeOK
    <3> QED
      BY <2>1, <3>2 DEF CopyName, ControlTypeOK
  <2>2. CASE ~CopyName
    <3>1. strbuf' = strbuf \/ strbuf' = {}
      BY <2>2 DEF ReadLine, EndOfInput, CalcSymbol, NextBucket, InstructionsDone,
                  DataDone, FillSymtabDone, loopVars
    <3> QED
      BY <3>1 DEF ControlTypeOK
  <2> QED
    BY <2>1, <2>2
<1> QED
  BY <1>2, <1>3, <1>4, <1>5, <1>6, <1>7, <1>8, <1>9, <1>10 DEF ControlTypeOK

\* An aligned offset is an offset.
LEMMA AlignNat ==
    ASSUME NEW off \in Nat, NEW align \in {1, 4, 8}
    PROVE  AlignOffset(off, align) \in Nat
<1>1. CASE align = 1
  BY <1>1 DEF AlignOffset
<1>2. CASE align = 4
  BY <1>2 DEF AlignOffset
<1>3. CASE align = 8
  BY <1>3 DEF AlignOffset
<1> QED
  BY <1>1, <1>2, <1>3

\* The steps that give the sections their sizes and offsets.
LEMMA LayoutType ==
    ASSUME TypeInv, CalcDone \/ AllocSection \/ AllocDone
    PROVE  TypeInv'
<1> USE DEF TypeInv, TypeOK
<1>1. UNCHANGED <<processVars, symbolVars, itemVars, inputVars, count, slot, strbuf,
                  fileVars>>
  BY DEF CalcDone, AllocSection, AllocDone
<1>2. ProcessTypeOK' /\ SymbolsTypeOK' /\ BytecodeTypeOK'
  BY <1>1, Unchanged
<1>3. PointersInTable' /\ NamesUnique'
  BY <1>1, PointersKept
<1>4. pc' \in PCs /\ LoopsFromOne'
  BY DEF CalcDone, AllocSection, AllocDone, Goto, At, ControlTypeOK, LoopsFromOne,
         PCs, Writing
<1>5. size \in [Sections -> Nat] /\ offset \in [Sections -> Nat]
  BY DEF OutputTypeOK
<1>6. cursor \in Nat /\ i \in Nat /\ count \in Nat
  BY DEF ControlTypeOK
<1>7. CASE CalcDone
  <2>1. SectionNamesSz + cursor \in Nat /\ (count + 1) * SYM_SIZE \in Nat
    BY <1>6, SectionFacts DEF SYM_SIZE
  <2>2. size' \in [Sections -> Nat]
    BY <1>5, <1>7, <2>1 DEF CalcDone
  <2>3. OutputTypeOK'
    BY <1>6, <1>7, <2>2 DEF CalcDone, OutputTypeOK
  <2>4. i' \in Nat /\ cursor' \in Nat
    BY <1>7 DEF CalcDone, HEADER_SIZE
  <2> QED
    BY <1>1, <1>2, <1>3, <1>4, <2>3, <2>4 DEF ControlTypeOK, inputVars, fileVars
<1>8. CASE AllocSection
  <2>1. i \in Sections
    BY <1>6, <1>8, SectionFacts DEF AllocSection
  <2>2. AlignOffset(cursor, Align[i]) \in Nat
    BY <1>6, <2>1, AlignNat, SectionFacts
  <2>3. offset' = [offset EXCEPT ![i] = AlignOffset(cursor, Align[i])]
    BY <1>8 DEF AllocSection, Allocate
  <2>4. offset' \in [Sections -> Nat] /\ offset'[i] \in Nat
    BY <1>5, <2>1, <2>2, <2>3
  <2>5. cursor' \in Nat /\ i' \in Nat
    BY <1>5, <1>6, <1>8, <2>1, <2>4 DEF AllocSection
  <2>6. contents' \in [Sections -> Seq(Extent)]
    BY <1>8, <2>1 DEF AllocSection, Allocate, OutputTypeOK
  <2>7. OutputTypeOK'
    BY <1>8, <2>4, <2>6 DEF AllocSection, OutputTypeOK
  <2> QED
    BY <1>1, <1>2, <1>3, <1>4, <2>5, <2>7 DEF ControlTypeOK, inputVars, fileVars
<1>9. CASE AllocDone
  <2>1. offset' \in [Sections -> Nat]
    BY <1>5, <1>9, SectionFacts DEF AllocDone
  <2>2. OutputTypeOK'
    BY <1>9, <2>1 DEF AllocDone, OutputTypeOK
  <2>3. i' \in Nat /\ cursor' \in Nat
    BY <1>6, <1>9 DEF AllocDone
  <2> QED
    BY <1>1, <1>2, <1>3, <1>4, <2>2, <2>3 DEF ControlTypeOK, inputVars, fileVars
<1> QED
  BY <1>7, <1>8, <1>9

\* The operand written for an instruction is a number, or none, or garbage.
LEMMA OperandType ==
    ASSUME TypeInv, NEW k \in DOMAIN instructions,
           instructions[k].sym # NoSymbol => Readable(instructions[k].sym)
    PROVE  Operand(instructions[k]) \in Int \cup {NoSymbol}
<1> USE DEF TypeInv, TypeOK
<1> DEFINE insn == instructions[k]
<1>1. insn \in Instruction
  BY DEF BytecodeTypeOK
<1>2. CASE insn.sym = NoSymbol
  BY <1>2 DEF Operand
<1>3. CASE insn.sym # NoSymbol
  <2>1. insn.sym \in Pointer /\ insn.sym.hash \in Bucket /\ insn.position \in ProgPosition
    BY <1>1, <1>3 DEF Instruction, Pointer
  <2>2. Deref(insn.sym) \in Symbol
    BY <1>3, <2>1 DEF PointersInTable, Deref, SymbolsTypeOK
  <2>3. Deref(insn.sym).section # Uninit
    BY <1>3 DEF Readable
  <2>4. Deref(insn.sym).section \in ProgSections /\ Deref(insn.sym).value \in Nat
    BY <2>2, <2>3 DEF Symbol
  <2>5. \A s \in ProgSections : offset[s] \in Nat
    <3>1. ProgSections \subseteq Sections /\ offset \in [Sections -> Nat]
      BY SectionFacts DEF OutputTypeOK
    <3> QED
      BY <3>1
  <2>6. CalcFileOffset(insn.position) \in Int
    BY <2>1, <2>5 DEF CalcFileOffset, ProgPosition
  <2>7. CalcFileOffset([section |-> Deref(insn.sym).section,
                        offset |-> Deref(insn.sym).value]) \in Int
    BY <2>4, <2>5 DEF CalcFileOffset
  <2>8. CalcSymbolOffset(Deref(insn.sym), CalcFileOffset(insn.position)) \in Int
    BY <2>6, <2>7 DEF CalcSymbolOffset
  <2> QED
    BY <1>3, <2>8 DEF Operand
<1> QED
  BY <1>2, <1>3

\* A place in a section, however it is built, is a position.
LEMMA PositionFacts ==
    /\ ProgPosition \subseteq Position
    /\ \A s \in Sections, x \in Nat : [section |-> s, offset |-> x] \in Position
  BY SectionFacts DEF ProgPosition, Position

\* write_all, one item.
LEMMA WriteItemType ==
    ASSUME TypeInv, WriteNextInstruction \/ WriteNextData
    PROVE  TypeInv'
<1> USE DEF TypeInv, TypeOK
<1>1. /\ UNCHANGED <<size, offset, nameoffset, info, symbolVars, itemVars, pc,
                     inputVars, cursor, count, slot, strbuf, fileVars>>
      /\ i' = i + 1
  BY DEF WriteNextInstruction, WriteNextData
<1>2. SymbolsTypeOK' /\ BytecodeTypeOK' /\ PointersInTable' /\ NamesUnique'
  BY <1>1, Unchanged, PointersKept
<1>3. ControlTypeOK' /\ LoopsFromOne'
  BY <1>1 DEF ControlTypeOK, LoopsFromOne, inputVars, fileVars
<1>4. ASSUME outputsection' \in ProgSections, contents' \in [Sections -> Seq(Extent)]
      PROVE  OutputTypeOK'
  BY <1>1, <1>4 DEF OutputTypeOK
<1>5. CASE WriteNextInstruction
  <2> DEFINE insn == instructions[i]
  <2>1. i \in DOMAIN instructions /\ WriteInstruction(insn)
    BY <1>5 DEF WriteNextInstruction, At, LoopsFromOne, ControlTypeOK, BytecodeTypeOK
  <2>2. insn \in Instruction
    BY <2>1 DEF BytecodeTypeOK
  <2>3. insn.position \in ProgPosition /\ insn.form \in Forms
    BY <2>2 DEF Instruction
  <2>4. outputsection' \in ProgSections
    BY <2>1, <2>3 DEF WriteInstruction, ProgPosition
  <2>5. ASSUME NEW operand \in Int \cup {NoSymbol, Garbage}, Emit(insn, operand)
        PROVE  contents' \in [Sections -> Seq(Extent)] /\ ProcessTypeOK'
    <3> DEFINE code == [form |-> insn.form, operand |-> operand]
    <3>1. code \in CodeBytes
      BY <2>3, <2>5 DEF CodeBytes
    <3>2. EmittedSize[insn.form] \in Nat
      BY <2>3 DEF EmittedSize, UpperSize, LowerSize
    <3>3. insn.position \in Position /\ insn.position.offset \in Nat
      BY <2>3, PositionFacts DEF ProgPosition
    <3>4. WriteSectionData(code, EmittedSize[insn.form], insn.position)
      BY <2>5 DEF Emit
    <3> HIDE DEF code, insn
    <3>5. [at |-> insn.position.offset, len |-> EmittedSize[insn.form], bytes |-> code]
            \in Extent
      BY <3>1, <3>2, <3>3 DEF Extent
    <3> QED
      BY <3>2, <3>3, <3>4, <3>5, WriteType
  <2>6. CASE /\ insn.sym # NoSymbol => Readable(insn.sym)
             /\ Emit(insn, Operand(insn))
    <3>1. Operand(insn) \in Int \cup {NoSymbol, Garbage}
      BY <2>1, <2>6, OperandType
    <3> QED
      BY <1>2, <1>3, <1>4, <2>4, <2>5, <2>6, <3>1
  <2>7. CASE Emit(insn, Garbage)
    BY <1>2, <1>3, <1>4, <2>4, <2>5, <2>7
  <2>8. ASSUME NEW id \in {"error_unknown", "error_invalid_syntax"},
               Logger("ERROR", id), UNCHANGED contents
        PROVE  TypeInv'
    <3>1. ProcessTypeOK'
      BY <2>8, LoggerType DEF Levels, ErrorIds
    <3>2. OutputTypeOK'
      BY <1>4, <2>4, <2>8 DEF OutputTypeOK
    <3> QED
      BY <1>2, <1>3, <3>1, <3>2
  <2>9. CASE Fault /\ UNCHANGED contents
    <3>1. ProcessTypeOK'
      BY <2>9 DEF Fault, ProcessTypeOK
    <3>2. OutputTypeOK'
      BY <1>4, <2>4, <2>9 DEF OutputTypeOK
    <3> QED
      BY <1>2, <1>3, <3>1, <3>2
  <2> QED
    BY <2>1, <2>6, <2>7, <2>8, <2>9 DEF WriteInstruction
<1>6. CASE WriteNextData
  <2> DEFINE item == dataitems[i]
  <2>1. i \in DOMAIN dataitems /\ WriteData(item)
    BY <1>6 DEF WriteNextData, At, LoopsFromOne, ControlTypeOK, BytecodeTypeOK
  <2>2. item \in RawData
    BY <2>1 DEF BytecodeTypeOK
  <2>3. /\ item.position \in ProgPosition /\ item.size \in Nat
        /\ item.str \in Strings /\ item.nullterm \in BOOLEAN
    BY <2>2 DEF RawData
  <2>4. outputsection' \in ProgSections
    BY <2>1, <2>3 DEF WriteData, ProgPosition
  <2> DEFINE data == [str |-> item.str, nullterm |-> item.nullterm]
  <2>5. data \in DataBytes
    BY <2>3 DEF DataBytes
  <2>6. item.position \in Position /\ item.position.offset \in Nat
    BY <2>3, PositionFacts DEF ProgPosition
  <2>7. WriteSectionData(data, item.size, item.position)
    BY <2>1 DEF WriteData
  <2> HIDE DEF data, item
  <2>8. [at |-> item.position.offset, len |-> item.size, bytes |-> data] \in Extent
    BY <2>3, <2>5, <2>6 DEF Extent
  <2>9. contents' \in [Sections -> Seq(Extent)] /\ ProcessTypeOK'
    BY <2>3, <2>6, <2>7, <2>8, WriteType
  <2> QED
    BY <1>2, <1>3, <1>4, <2>4, <2>9
<1> QED
  BY <1>5, <1>6

\* fill_strtab and fill_symtab, one write.
LEMMA FillType ==
    ASSUME TypeInv,
           FillStrtab \/ FillSectionName \/ FillSymtabBlank \/ FillSymtabEntry
    PROVE  TypeInv'
<1> USE DEF TypeInv, TypeOK
<1>1. UNCHANGED <<outputsection, size, offset, info, symbolVars, itemVars, inputVars,
                  strbuf, fileVars>>
  BY DEF FillStrtab, FillSectionName, FillSymtabBlank, FillSymtabEntry
<1>2. SymbolsTypeOK' /\ BytecodeTypeOK' /\ PointersInTable' /\ NamesUnique'
  BY <1>1, Unchanged, PointersKept
<1>3. /\ cursor \in Nat /\ i \in Nat /\ count \in Nat /\ slot \in Nat \X Nat
      /\ nameoffset \in [Sections -> Nat]
  BY DEF ControlTypeOK, OutputTypeOK
<1>4. pc' \in PCs /\ LoopsFromOne'
  BY DEF FillStrtab, FillSectionName, FillSymtabBlank, FillSymtabEntry, Goto, At,
         LoopsFromOne, ControlTypeOK, PCs, Writing
<1>5. ASSUME /\ contents' \in [Sections -> Seq(Extent)] /\ ProcessTypeOK'
             /\ nameoffset' \in [Sections -> Nat]
             /\ i' \in Nat /\ cursor' \in Nat /\ count' \in Nat
             /\ slot' \in Nat \X Nat
      PROVE  TypeInv'
  <2>1. OutputTypeOK'
    BY <1>1, <1>5 DEF OutputTypeOK
  <2>2. ControlTypeOK'
    BY <1>1, <1>4, <1>5 DEF ControlTypeOK, inputVars, fileVars
  <2> QED
    BY <1>2, <1>4, <1>5, <2>1, <2>2
<1>6. CASE FillStrtab
  <2> DEFINE bytes == [names |-> strbuf]
             pos == [section |-> SECTION_STRTAB, offset |-> 0]
  <2>1. bytes \in NameBytes
    BY DEF ControlTypeOK, NameBytes
  <2>2. pos \in Position /\ pos.offset = 0
    BY PositionFacts, SectionFacts
  <2>3. WriteSectionData(bytes, cursor, pos)
    BY <1>6 DEF FillStrtab
  <2> HIDE DEF bytes, pos
  <2>4. [at |-> pos.offset, len |-> cursor, bytes |-> bytes] \in Extent
    BY <1>3, <2>1, <2>2 DEF Extent
  <2>5. contents' \in [Sections -> Seq(Extent)] /\ ProcessTypeOK'
    BY <1>3, <2>2, <2>3, <2>4, WriteType
  <2> QED
    BY <1>3, <1>5, <1>6, <2>5 DEF FillStrtab
<1>7. CASE FillSectionName
  <2> DEFINE bytes == [sectionname |-> i]
             pos == [section |-> SECTION_STRTAB, offset |-> cursor]
  <2>1. i \in Sections
    BY <1>3, <1>7, SectionFacts DEF FillSectionName
  <2>2. bytes \in SectionNameBytes
    BY <2>1 DEF SectionNameBytes
  <2>3. pos \in Position /\ pos.offset = cursor
    BY <1>3, PositionFacts, SectionFacts
  <2>4. SectionNameSz[i] \in Nat
    BY <2>1, SectionFacts
  <2>5. WriteSectionData(bytes, SectionNameSz[i], pos)
    BY <1>7 DEF FillSectionName
  <2> HIDE DEF bytes, pos
  <2>6. [at |-> pos.offset, len |-> SectionNameSz[i], bytes |-> bytes] \in Extent
    BY <1>3, <2>2, <2>3, <2>4 DEF Extent
  <2>7. contents' \in [Sections -> Seq(Extent)] /\ ProcessTypeOK'
    BY <2>3, <2>4, <2>5, <2>6, WriteType
  <2>8. nameoffset' \in [Sections -> Nat] /\ cursor' \in Nat /\ i' \in Nat
    BY <1>3, <1>7, <2>1, <2>4 DEF FillSectionName
  <2> QED
    BY <1>3, <1>5, <1>7, <2>7, <2>8 DEF FillSectionName
<1>8. CASE FillSymtabBlank
  <2> DEFINE bytes == SymtabEntry(0, 0, 0, 0)
             pos == [section |-> SECTION_SYMTAB, offset |-> 0]
  <2>1. bytes \in SymbolBytes
    BY SectionFacts DEF SymtabEntry, SymbolBytes
  <2>2. pos \in Position /\ pos.offset = 0 /\ SYM_SIZE \in Nat
    BY PositionFacts, SectionFacts DEF SYM_SIZE
  <2>3. WriteSectionData(bytes, SYM_SIZE, pos)
    BY <1>8 DEF FillSymtabBlank
  <2> HIDE DEF bytes, pos
  <2>4. [at |-> pos.offset, len |-> SYM_SIZE, bytes |-> bytes] \in Extent
    BY <2>1, <2>2 DEF Extent
  <2>5. contents' \in [Sections -> Seq(Extent)] /\ ProcessTypeOK'
    BY <2>2, <2>3, <2>4, WriteType
  <2> QED
    BY <1>3, <1>5, <1>8, <2>5 DEF FillSymtabBlank, FirstSlot
<1>9. CASE FillSymtabEntry
  <2> DEFINE sym == SymbolAt(slot)
             bytes == SymtabEntry(cursor, sym.binding, sym.section, sym.value)
             pos == [section |-> SECTION_SYMTAB, offset |-> count * SYM_SIZE]
  <2>1. sym \in Symbol /\ NameSz[sym.name] \in Nat
    BY <1>3, <1>9, SlotType DEF FillSymtabEntry
  <2>2. /\ sym.binding \in {0, 16}
        /\ sym.section \in Sections \cup Indeterminate
        /\ sym.value \in Nat \cup Indeterminate
    BY <2>1, SectionFacts DEF Symbol, Indeterminate
  <2>3. bytes \in SymbolBytes
    BY <1>3, <2>2 DEF SymtabEntry, SymbolBytes
  <2>4. count * SYM_SIZE \in Nat /\ SYM_SIZE \in Nat
    BY <1>3 DEF SYM_SIZE
  <2>5. pos \in Position /\ pos.offset \in Nat
    BY <2>4, PositionFacts, SectionFacts
  <2>6. WriteSectionData(bytes, SYM_SIZE, pos)
    BY <1>9 DEF FillSymtabEntry
  <2>7. cursor' = cursor + NameSz[sym.name]
    BY <1>9 DEF FillSymtabEntry
  <2> HIDE DEF sym, bytes, pos
  <2>8. [at |-> pos.offset, len |-> SYM_SIZE, bytes |-> bytes] \in Extent
    BY <2>3, <2>4, <2>5 DEF Extent
  <2>9. contents' \in [Sections -> Seq(Extent)] /\ ProcessTypeOK'
    BY <2>4, <2>5, <2>6, <2>8, WriteType
  <2>10. slot' \in Nat \X Nat /\ count' \in Nat /\ cursor' \in Nat
    BY <1>3, <1>9, <2>1, <2>7, SlotType DEF FillSymtabEntry
  <2> QED
    BY <1>3, <1>5, <1>9, <2>9, <2>10 DEF FillSymtabEntry
<1> QED
  BY <1>6, <1>7, <1>8, <1>9

\* The last steps, and those that end the process early.
LEMMA EndType ==
    ASSUME TypeInv,
           FlushOutput \/ CopyFiles \/ XmallocFails \/ MallocFails \/ UNCHANGED vars
    PROVE  TypeInv'
<1> USE DEF TypeInv, TypeOK
<1>1. UNCHANGED <<outputVars, symbolVars, inputVars, loopVars>>
  BY DEF FlushOutput, CopyFiles, XmallocFails, MallocFails, vars
<1>2. OutputTypeOK' /\ SymbolsTypeOK'
  BY <1>1, Unchanged
<1>3. ProcessTypeOK'
  <2>1. CASE UNCHANGED processVars
    BY <2>1, Unchanged
  <2>2. CASE CopyFiles
    BY <2>2 DEF CopyFiles, CleanExit, ProcessTypeOK
  <2>3. CASE XmallocFails
    BY <2>3, LoggerType DEF XmallocFails, Die, Levels, ErrorIds
  <2>4. CASE MallocFails
    BY <2>4 DEF MallocFails, Fault, ProcessTypeOK
  <2> QED
    BY <2>1, <2>2, <2>3, <2>4 DEF FlushOutput, vars
<1>4. BytecodeTypeOK' /\ PointersInTable' /\ NamesUnique'
  <2>1. CASE UNCHANGED itemVars
    BY <1>1, <2>1, Unchanged, PointersKept
  <2>2. CASE FlushOutput
    BY <1>1, <2>2 DEF FlushOutput, BytecodeTypeOK, PointersInTable, NamesUnique,
                      UniqueIn, symbolVars
  <2> QED
    BY <2>1, <2>2 DEF CopyFiles, XmallocFails, MallocFails, vars
<1>5. pc' \in PCs /\ LoopsFromOne'
  BY <1>1 DEF FlushOutput, CopyFiles, XmallocFails, MallocFails, vars, Goto,
              ControlTypeOK, LoopsFromOne, PCs, loopVars
<1>6. Len(temp') <= 1 /\ Len(outfile') <= 1
  <2> DEFINE object == <<Image>>
  <2>1. (temp' = temp \/ temp' = object) /\ (outfile' = outfile \/ outfile' = temp)
    BY DEF FlushOutput, CopyFiles, XmallocFails, MallocFails, vars, fileVars
  <2>2. Len(object) <= 1
    OBVIOUS
  <2> HIDE DEF object
  <2>3. Len(temp) <= 1 /\ Len(outfile) <= 1
    BY DEF ControlTypeOK
  <2>4. Len(temp') <= 1
    BY <2>1, <2>2, <2>3
  <2>5. Len(outfile') <= 1
    BY <2>1, <2>3
  <2> QED
    BY <2>4, <2>5
<1>7. ControlTypeOK'
  BY <1>1, <1>5, <1>6 DEF ControlTypeOK, inputVars, loopVars
<1> QED
  BY <1>2, <1>3, <1>4, <1>5, <1>7

-----------------------------------------------------------------------------
(* The theorem.                                                            *)

\* The invariant holds at the start.
LEMMA TypeInvInit == Init => TypeInv
  BY TypeInit DEF Init, TypeInv, SymbolsInit, NamesUnique, UniqueIn, BytecodeInit,
                  PointersInTable, LoopsFromOne

\* Every step preserves it.
LEMMA TypeInvNext == TypeInv /\ [Next]_vars => TypeInv'
  BY ParseType, MoveType, LayoutType, WriteItemType, FillType, EndType
     DEF Next, Terminated

\* Every variable of the assembler stays in the domain its C type and the code
\* give it, whatever is read and however the run ends.  In particular only
\* .text and .data ever collect code and data, every operand that is written
\* was computed from a symbol inside its bucket, and every write is at a
\* position of a section of the object.
THEOREM AssemblerTypes == Spec => []TypeOK
<1>1. TypeInv => TypeOK
  BY DEF TypeInv
<1> QED
  BY <1>1, TypeInvInit, TypeInvNext, PTL DEF Spec

-----------------------------------------------------------------------------
(***************************************************************************)
(* The items of the source and the bytes of .text and .data.               *)
(***************************************************************************)

\* No item ends behind the end of its section.
ItemsEnd ==
    \A s \in ProgSections : \A item \in Items :
        item.position.section = s => item.position.offset + item.len <= size[s]

\* Every byte of the two sections belongs to one item and no other.
BytesOwned ==
    \A s \in ProgSections : \A x \in 0 .. size[s] - 1 :
        \E item \in Items :
            /\ Covers(item, s, x)
            /\ \A other \in Items : Covers(other, s, x) => other = item

\* The bytes have their owners until the lists are freed.  parse_asm uses a
\* position read before its line was parsed: while a line is parsed, that is
\* still where the section in use ends.
ItemsInv ==
    /\ ItemsEnd
    /\ instructions # <<>> \/ dataitems # <<>> \/ pc # "copy" => BytesOwned
    /\ pc = "line" => position = GetOutputPos

\* The invariant is what the property asks for.
LEMMA ItemsInvGives == ItemsInv => ItemsTile
  BY DEF ItemsInv, ItemsTile, ItemsEnd, BytesOwned

-----------------------------------------------------------------------------
(* One more item.                                                          *)

\* What an item is.
LEMMA ItemType ==
    ASSUME TypeInv
    PROVE  /\ \A item \in Items : /\ item.position \in ProgPosition
                                  /\ item.position.offset \in Nat
                                  /\ item.len \in Nat
           /\ \A s \in ProgSections : size[s] \in Nat
<1>1. ASSUME NEW k \in DOMAIN instructions
      PROVE  /\ instructions[k].position \in ProgPosition
             /\ IdataSize[instructions[k].form] \in Nat
  <2>1. instructions[k] \in Instruction
    BY DEF TypeInv, TypeOK, BytecodeTypeOK
  <2> QED
    BY <2>1 DEF Instruction, IdataSize
<1>2. ASSUME NEW k \in DOMAIN dataitems
      PROVE  dataitems[k].position \in ProgPosition /\ dataitems[k].size \in Nat
  <2>1. dataitems[k] \in RawData
    BY DEF TypeInv, TypeOK, BytecodeTypeOK
  <2> QED
    BY <2>1 DEF RawData
<1>3. \A pos \in ProgPosition : pos.offset \in Nat
  BY DEF ProgPosition
<1>4. \A s \in ProgSections : size[s] \in Nat
  <2>1. size \in [Sections -> Nat] /\ ProgSections \subseteq Sections
    BY SectionFacts DEF TypeInv, TypeOK, OutputTypeOK
  <2> QED
    BY <2>1
<1> QED
  BY <1>1, <1>2, <1>3, <1>4 DEF Items

\* An item that starts where its section ends, and by whose length the section
\* grows, owns the new bytes and none of the old ones.
LEMMA ItemAdded ==
    ASSUME TypeInv, ItemsEnd, BytesOwned,
           NEW section \in ProgSections, NEW len \in Nat, NEW new,
           new.position = [section |-> section, offset |-> size[section]],
           new.len = len,
           Items' = Items \cup {new},
           IncOutputSize(section, len)
    PROVE  ItemsEnd' /\ BytesOwned'
<1>1. /\ \A item \in Items : item.position.offset \in Nat /\ item.len \in Nat
      /\ \A s \in ProgSections : size[s] \in Nat
  BY ItemType
<1>2. /\ size'[section] = size[section] + len
      /\ \A s \in ProgSections \ {section} : size'[s] = size[s]
  BY SectionFacts DEF IncOutputSize, TypeInv, TypeOK, OutputTypeOK
<1>3. new.position.section = section /\ new.position.offset = size[section]
  OBVIOUS
<1>4. \A s \in ProgSections : size[s] <= size'[s] /\ size'[s] \in Nat
  BY <1>1, <1>2
<1>5. ItemsEnd'
  <2> SUFFICES ASSUME NEW s \in ProgSections, NEW item \in Items',
                      item.position.section = s
               PROVE  item.position.offset + item.len <= size'[s]
    BY DEF ItemsEnd
  <2>1. CASE item \in Items
    <3>1. item.position.offset + item.len <= size[s]
      BY <2>1 DEF ItemsEnd
    <3> QED
      BY <1>1, <1>4, <2>1, <3>1
  <2>2. CASE item = new
    BY <1>1, <1>2, <1>3, <2>2
  <2> QED
    BY <2>1, <2>2
<1>6. BytesOwned'
  <2> SUFFICES ASSUME NEW s \in ProgSections, NEW x \in 0 .. size'[s] - 1
               PROVE  \E item \in Items' :
                        /\ Covers(item, s, x)
                        /\ \A other \in Items' : Covers(other, s, x) => other = item
    BY DEF BytesOwned, Covers
  <2>1. CASE x < size[s]
    <3>1. PICK item \in Items :
                /\ Covers(item, s, x)
                /\ \A other \in Items : Covers(other, s, x) => other = item
      BY <1>1, <1>4, <2>1 DEF BytesOwned
    <3>2. ~Covers(new, s, x)
      BY <1>1, <1>3, <1>4, <2>1 DEF Covers
    <3> QED
      BY <3>1, <3>2
  <2>2. CASE ~(x < size[s])
    <3>1. s = section /\ x \in size[s] .. size[s] + len - 1
      BY <1>1, <1>2, <1>4, <2>2
    <3>2. Covers(new, s, x)
      BY <1>1, <1>3, <3>1 DEF Covers
    <3>3. \A other \in Items : ~Covers(other, s, x)
      BY <1>1, <3>1 DEF Covers, ItemsEnd
    <3> QED
      BY <3>2, <3>3
  <2> QED
    BY <2>1, <2>2
<1> QED
  BY <1>5, <1>6

\* parse_asm adds one.
LEMMA AsmAdds ==
    ASSUME TypeInv, ItemsInv, pc = "line", NEW form \in Forms, NEW sym,
           AddAsm(form, sym)
    PROVE  ItemsInv'
<1> DEFINE insn == [form |-> form, sym |-> sym, position |-> position]
           new == [list |-> "instructions", index |-> Len(instructions) + 1,
                   position |-> position, len |-> IdataSize[form]]
<1>1. /\ instructions' = Append(instructions, insn)
      /\ dataitems' = dataitems
      /\ IncOutputSize(position.section, IdataSize[form])
      /\ pc' = "getl"
  BY DEF AddAsm, AddInstruction, Goto
<1>2. /\ instructions \in Seq(Instruction)
      /\ position = GetOutputPos /\ GetOutputPos \in ProgPosition
  BY PositionType DEF TypeInv, TypeOK, BytecodeTypeOK, ItemsInv
<1>3. insn.position = position /\ insn.form = form
  OBVIOUS
<1> HIDE DEF insn
<1>4. /\ DOMAIN instructions' = DOMAIN instructions \cup {Len(instructions) + 1}
      /\ \A k \in DOMAIN instructions : instructions'[k] = instructions[k]
      /\ instructions'[Len(instructions) + 1] = insn
  BY <1>1, <1>2
<1>5. Items' = Items \cup {new}
  BY <1>1, <1>3, <1>4 DEF Items
<1>6. ItemsEnd' /\ BytesOwned'
  <2>1. position.section \in ProgSections /\ IdataSize[form] \in Nat
    BY <1>2 DEF ProgPosition, IdataSize
  <2>2. /\ new.position = [section |-> position.section,
                           offset |-> size[position.section]]
        /\ new.len = IdataSize[form]
    BY <1>2 DEF GetOutputPos
  <2> HIDE DEF new
  <2> QED
    BY <1>1, <1>5, <2>1, <2>2, ItemAdded DEF ItemsInv
<1> QED
  BY <1>1, <1>6 DEF ItemsInv

\* parse_ascii_generic adds one.
LEMMA AsciiAdds ==
    ASSUME TypeInv, ItemsInv, NEW str \in Strings, NEW nullterm \in BOOLEAN,
           ParseAscii(str, nullterm)
    PROVE  ItemsInv'
<1> DEFINE sz == NullTermSize(str) - (IF nullterm THEN 0 ELSE 1)
           item == [str |-> str, nullterm |-> nullterm, size |-> sz,
                    position |-> GetOutputPos]
           new == [list |-> "dataitems", index |-> Len(dataitems) + 1,
                   position |-> GetOutputPos, len |-> sz]
<1>1. /\ dataitems' = Append(dataitems, item)
      /\ instructions' = instructions
      /\ IncOutputSize(GetOutputPos.section, sz)
      /\ pc = "line" /\ pc' = "getl"
  BY DEF ParseAscii, AddData, Unread, At, Goto
<1>2. dataitems \in Seq(RawData) /\ GetOutputPos \in ProgPosition
  BY PositionType DEF TypeInv, TypeOK, BytecodeTypeOK
<1>3. sz \in Nat
  <2>1. StrLen[str] \in Nat
    BY BytecodeAssumption
  <2> QED
    BY <2>1 DEF NullTermSize
<1>4. item.position = GetOutputPos /\ item.size = sz
  OBVIOUS
<1> HIDE DEF item, sz
<1>5. /\ DOMAIN dataitems' = DOMAIN dataitems \cup {Len(dataitems) + 1}
      /\ \A k \in DOMAIN dataitems : dataitems'[k] = dataitems[k]
      /\ dataitems'[Len(dataitems) + 1] = item
  BY <1>1, <1>2
<1>6. Items' = Items \cup {new}
  BY <1>1, <1>4, <1>5 DEF Items
<1>7. ItemsEnd' /\ BytesOwned'
  <2>1. GetOutputPos.section \in ProgSections
    BY <1>2 DEF ProgPosition
  <2>2. /\ new.position = [section |-> GetOutputPos.section,
                           offset |-> size[GetOutputPos.section]]
        /\ new.len = sz
    BY DEF GetOutputPos
  <2> HIDE DEF new
  <2> QED
    BY <1>1, <1>3, <1>6, <2>1, <2>2, ItemAdded DEF ItemsInv
<1> QED
  BY <1>1, <1>7 DEF ItemsInv

-----------------------------------------------------------------------------
(* The other steps.                                                        *)

\* Steps that leave the lists and the two sections' sizes alone keep the items
\* where they are.
LEMMA ItemsKept ==
    ASSUME ItemsInv, UNCHANGED itemVars,
           \A s \in ProgSections : size'[s] = size[s],
           pc' = "line" => position' = GetOutputPos',
           pc = "copy" => pc' = "copy"
    PROVE  ItemsInv'
<1>1. Items' = Items
  BY DEF itemVars, Items
<1>2. ItemsEnd'
  BY <1>1 DEF ItemsInv, ItemsEnd
<1>3. BytesOwned => BytesOwned'
  BY <1>1 DEF BytesOwned, Covers
<1> QED
  BY <1>2, <1>3 DEF ItemsInv, itemVars

\* Reading a line keeps the invariant, whatever is in it.
LEMMA ItemsRead ==
    ASSUME TypeInv, ItemsInv, ReadLine \/ ParseLine
    PROVE  ItemsInv'
<1>1. CASE ReadLine
  <2>1. UNCHANGED outputVars /\ UNCHANGED itemVars /\ position' = GetOutputPos
        /\ pc # "copy"
    BY <1>1 DEF ReadLine, At
  <2> QED
    BY <2>1, ItemsKept DEF outputVars, GetOutputPos
<1>2. ASSUME NEW name \in Name, ParseLabel(name) PROVE ItemsInv'
  BY <1>2, ItemsKept DEF ParseLabel, Unread, At, outputVars, GetOutputPos, ItemsInv
<1>3. ASSUME NEW name \in Name, ParseGlobal(name) PROVE ItemsInv'
  BY <1>3, ItemsKept DEF ParseGlobal, Unread, At, Goto, outputVars
<1>4. ASSUME NEW section \in ProgSections, ParseSection(section) PROVE ItemsInv'
  BY <1>4, ItemsKept DEF ParseSection, Unread, At, Goto
<1>5. CASE EndOfLine \/ ParseSectionUnknown \/ ParseAscizUnquoted
  BY <1>5, ItemsKept DEF EndOfLine, ParseSectionUnknown, ParseAscizUnquoted, Unread,
                         At, Goto, outputVars
<1>6. CASE ParseAsciiUnquoted \/ ParseError
  BY <1>6, ItemsKept DEF ParseAsciiUnquoted, ParseError, At, outputVars, inputVars,
                         GetOutputPos, ItemsInv
<1>7. ASSUME NEW form \in Forms, NEW sym, pc = "line", AddAsm(form, sym)
      PROVE  ItemsInv'
  BY <1>7, AsmAdds
<1>8. ASSUME NEW form \in SymForms, NEW name \in Name, ParseAsmSymbol(form, name)
      PROVE  ItemsInv'
  BY <1>7, <1>8 DEF ParseAsmSymbol, Unread, At, Forms, SymForms
<1>9. ASSUME NEW form \in Forms \ SymForms, ParseAsmPlain(form) PROVE ItemsInv'
  BY <1>7, <1>9 DEF ParseAsmPlain, Unread, At
<1> QED
  BY <1>1, <1>2, <1>3, <1>4, <1>5, <1>6, <1>8, <1>9, AsciiAdds DEF ParseLine

\* Every step preserves the invariant: behind the reading half the two sections
\* keep their sizes, and the lists are kept until flush_output frees them.
LEMMA ItemsNext == TypeInv /\ ItemsInv /\ [Next]_vars => ItemsInv'
<1> SUFFICES ASSUME TypeInv, ItemsInv, [Next]_vars
             PROVE  ItemsInv'
  OBVIOUS
<1>1. CASE ReadLine \/ ParseLine
  BY <1>1, ItemsRead
<1>2. CASE EndOfInput \/ CalcSymbol \/ NextBucket \/ AllocSection \/ AllocDone
  BY <1>2, ItemsKept DEF EndOfInput, CalcSymbol, NextBucket, AllocSection, AllocDone,
                         At, Goto, outputVars
<1>3. CASE CalcDone
  <2>1. \A s \in ProgSections : size'[s] = size[s]
    <3>1. size' = [size EXCEPT ![SECTION_STRTAB] = SectionNamesSz + cursor,
                               ![SECTION_SYMTAB] = (count + 1) * SYM_SIZE]
      BY <1>3 DEF CalcDone
    <3>2. DOMAIN size = Sections
      BY DEF TypeInv, TypeOK, OutputTypeOK
    <3>3. \A s \in ProgSections : /\ s \in Sections
                                 /\ s # SECTION_STRTAB /\ s # SECTION_SYMTAB
      BY SectionFacts
    <3> QED
      BY <3>1, <3>2, <3>3
  <2> QED
    BY <1>3, <2>1, ItemsKept DEF CalcDone, At, Goto
<1>4. CASE \/ WriteNextInstruction \/ InstructionsDone \/ WriteNextData \/ DataDone
           \/ CopyName \/ FillStrtab \/ FillSectionName \/ FillSymtabBlank
           \/ FillSymtabEntry \/ FillSymtabDone
  BY <1>4, ItemsKept DEF WriteNextInstruction, InstructionsDone, WriteNextData,
                         DataDone, CopyName, FillStrtab, FillSectionName,
                         FillSymtabBlank, FillSymtabEntry, FillSymtabDone, At, Goto,
                         outputVars
<1>5. CASE FlushOutput
  <2>1. instructions' = <<>> /\ dataitems' = <<>> /\ pc' = "copy"
    BY <1>5 DEF FlushOutput, Goto
  <2>2. Items' = {}
    BY <2>1 DEF Items
  <2> QED
    BY <2>1, <2>2 DEF ItemsInv, ItemsEnd
<1>6. CASE CopyFiles \/ XmallocFails \/ MallocFails \/ UNCHANGED vars
  <2>1. UNCHANGED <<outputVars, itemVars, pc, position>>
    BY <1>6 DEF CopyFiles, XmallocFails, MallocFails, vars, inputVars
  <2> QED
    BY <2>1, ItemsKept DEF outputVars, GetOutputPos, ItemsInv
<1> QED
  BY <1>1, <1>2, <1>3, <1>4, <1>5, <1>6 DEF Next, Terminated

\* The invariant holds at the start.
LEMMA ItemsInit == Init => ItemsInv
<1> SUFFICES ASSUME Init PROVE ItemsInv
  OBVIOUS
<1>1. Items = {}
  BY DEF Init, BytecodeInit, Items
<1>2. \A s \in ProgSections : size[s] = 0
  BY SectionFacts DEF Init, OutputInit
<1> QED
  BY <1>1, <1>2 DEF Init, ItemsInv, ItemsEnd, BytesOwned

-----------------------------------------------------------------------------
(* The theorem about ItemsTile.                                            *)

\* However instructions, strings, labels and section changes are mixed, every
\* byte parse_file counts for .text or .data is the place of exactly one item
\* of the two lists, and no item reaches past the end of its section.
THEOREM ItemsSafe == Spec => []ItemsTile
  BY ItemsInit, TypeInvInit, TypeInvNext, ItemsNext, ItemsInvGives, PTL DEF Spec

-----------------------------------------------------------------------------
(***************************************************************************)
(* Where alloc_output puts the sections, and that they stay there.         *)
(***************************************************************************)

\* The sections of S lie behind the header, aligned, and in their order.
LaidOut(S) ==
    \A s \in S :
        /\ offset[s] >= HEADER_SIZE
        /\ offset[s] % Align[s] = 0
        /\ \A t \in S : s < t => offset[s] + size[s] <= offset[t]

\* While alloc_output runs, the sections it has passed are laid out below its
\* cursor; the null section is among them until the loop ends.
LayoutInv ==
    /\ pc = "alloc" =>
         /\ i <= SECTION_COUNT /\ cursor >= HEADER_SIZE
         /\ LaidOut(0 .. i - 1)
         /\ \A s \in 0 .. i - 1 : offset[s] + size[s] <= cursor
    /\ pc \in Writing \cup {"flush"} => LaidOut(Sections \ {SECTION_NULL})

\* The section header table goes behind the sections that are laid out.
LEMMA HeaderTableLast ==
    ASSUME OutputTypeOK, LaidOut(Sections \ {SECTION_NULL})
    PROVE  \A s \in Sections \ {SECTION_NULL} :
                offset[s] + size[s] <= SectionHeaderOffset
<1> DEFINE end == offset[4] + size[4]
<1>1. /\ 4 \in Sections \ {SECTION_NULL}
      /\ \A s \in Sections : offset[s] \in Nat /\ size[s] \in Nat
  BY SectionFacts DEF OutputTypeOK
<1>2. end \in Nat \ {0}
  BY <1>1 DEF LaidOut, HEADER_SIZE
<1>3. SectionHeaderOffset = AlignOffset(end, 8)
  BY SectionFacts DEF SectionHeaderOffset
<1> HIDE DEF end
<1>4. SectionHeaderOffset \in Nat /\ end <= SectionHeaderOffset
  BY <1>2, <1>3, AlignUp
<1>5. \A s \in Sections \ {SECTION_NULL} : offset[s] + size[s] <= end
  BY <1>1, SectionFacts DEF LaidOut, end
<1> QED
  BY <1>1, <1>2, <1>4, <1>5

\* The invariant is what the property asks for.
LEMMA LayoutInvGives == OutputTypeOK /\ LayoutInv => LayoutDisjoint
<1> SUFFICES ASSUME OutputTypeOK, LayoutInv, pc \in Writing \cup {"flush"}
             PROVE  \A s \in Sections \ {SECTION_NULL} :
                        /\ offset[s] >= HEADER_SIZE
                        /\ offset[s] % Align[s] = 0
                        /\ \A t \in Sections : s < t => offset[s] + size[s] <= offset[t]
                        /\ offset[s] + size[s] <= SectionHeaderOffset
  BY DEF LayoutDisjoint
<1>1. LaidOut(Sections \ {SECTION_NULL})
  BY DEF LayoutInv
<1>2. \A s \in Sections \ {SECTION_NULL}, t \in Sections :
            s < t => t \in Sections \ {SECTION_NULL}
  BY SectionFacts
<1> QED
  BY <1>1, <1>2, HeaderTableLast DEF LaidOut

-----------------------------------------------------------------------------
(* The steps.                                                              *)

\* One iteration of alloc_output puts its section behind those before it.
LEMMA AllocLays ==
    ASSUME TypeInv, LayoutInv, AllocSection
    PROVE  LayoutInv'
<1>1. /\ pc = "alloc" /\ pc' = "alloc" /\ i \in 0 .. 4 /\ i' = i + 1
      /\ cursor \in Nat /\ cursor >= 64
      /\ \A s \in Sections : offset[s] \in Nat /\ size[s] \in Nat
      /\ i \in Sections
  BY SectionFacts DEF AllocSection, At, TypeInv, TypeOK, OutputTypeOK, ControlTypeOK,
                      LayoutInv, HEADER_SIZE
<1> DEFINE off == AlignOffset(cursor, Align[i])
<1>2. Align[i] \in {1, 4, 8}
  BY <1>1, SectionFacts
<1>3. off \in Nat /\ off >= cursor /\ off % Align[i] = 0
  <2> DEFINE align == Align[i]
  <2>1. cursor \in Nat \ {0} /\ align \in {1, 4, 8}
    BY <1>1, <1>2
  <2> HIDE DEF align
  <2>2. /\ AlignOffset(cursor, align) \in Nat
        /\ AlignOffset(cursor, align) >= cursor
        /\ AlignOffset(cursor, align) % align = 0
    BY <2>1, AlignUp
  <2> QED
    BY <2>2 DEF align
<1>4. /\ offset' = [offset EXCEPT ![i] = off]
      /\ cursor' = offset'[i] + size[i]
      /\ size' = size
  BY DEF AllocSection, Allocate
<1> HIDE DEF off
<1>5. /\ offset'[i] = off
      /\ \A s \in Sections \ {i} : offset'[s] = offset[s]
  BY <1>1, <1>4 DEF TypeInv, TypeOK, OutputTypeOK
<1>6. 0 .. i - 1 \subseteq Sections \ {i} /\ 0 .. i' - 1 = (0 .. i - 1) \cup {i}
  BY <1>1, SectionFacts
<1>7. /\ LaidOut(0 .. i - 1)
      /\ \A s \in 0 .. i - 1 : offset[s] + size[s] <= cursor
  BY <1>1 DEF LayoutInv
<1>8. \A s \in 0 .. i - 1 : /\ offset'[s] = offset[s] /\ offset[s] \in Nat
                            /\ size[s] \in Nat /\ s < i
  BY <1>1, <1>5, <1>6
<1>9. \A s \in 0 .. i' - 1 : offset'[s] + size'[s] <= cursor'
  BY <1>1, <1>3, <1>4, <1>5, <1>6, <1>7, <1>8
<1>10. LaidOut(0 .. i - 1)'
  <2>1. \A s \in 0 .. i' - 1 : /\ offset'[s] >= HEADER_SIZE
                               /\ offset'[s] % Align[s] = 0
    BY <1>1, <1>3, <1>5, <1>6, <1>7, <1>8 DEF LaidOut, HEADER_SIZE
  <2>2. \A s, t \in 0 .. i' - 1 : s < t => offset'[s] + size'[s] <= offset'[t]
    <3>1. \A s, t \in 0 .. i - 1 : s < t => offset'[s] + size'[s] <= offset'[t]
      BY <1>4, <1>7, <1>8 DEF LaidOut
    <3>2. \A s \in 0 .. i - 1 : offset'[s] + size'[s] <= offset'[i]
      BY <1>1, <1>3, <1>4, <1>5, <1>7, <1>8
    <3>3. \A t \in 0 .. i - 1 : ~(i < t)
      BY <1>1
    <3> QED
      BY <1>1, <1>6, <3>1, <3>2, <3>3
  <2> QED
    BY <2>1, <2>2 DEF LaidOut
<1>11. cursor' >= HEADER_SIZE /\ i' <= SECTION_COUNT
  BY <1>1, <1>3, <1>4, <1>5, SectionFacts DEF HEADER_SIZE
<1> QED
  BY <1>1, <1>9, <1>10, <1>11 DEF LayoutInv, Writing

\* The end of the loop takes the null section out again and no other.
LEMMA AllocEnds ==
    ASSUME TypeInv, LayoutInv, AllocDone
    PROVE  LayoutInv'
<1>1. /\ pc' = "instructions" /\ size' = size
      /\ LaidOut(Sections)
      /\ offset' = [offset EXCEPT ![SECTION_NULL] = 0]
  BY SectionFacts DEF AllocDone, At, Goto, LayoutInv
<1>2. \A s \in Sections \ {SECTION_NULL} : offset'[s] = offset[s]
  BY <1>1 DEF TypeInv, TypeOK, OutputTypeOK
<1>3. LaidOut(Sections \ {SECTION_NULL})'
  BY <1>1, <1>2 DEF LaidOut
<1> QED
  BY <1>1, <1>3 DEF LayoutInv

\* A step that is outside alloc_output, and goes nowhere but on or out of the
\* writing half, leaves the layout as it is.
LEMMA LayoutKept ==
    ASSUME LayoutInv, UNCHANGED <<size, offset>>, pc' # "alloc",
           pc' \in Writing \cup {"flush"} => pc \in Writing \cup {"flush"}
    PROVE  LayoutInv'
  BY DEF LayoutInv, LaidOut

\* So does one that moves nothing of what the layout depends on.
LEMMA LayoutSame ==
    ASSUME LayoutInv, UNCHANGED <<size, offset, pc, i, cursor>>
    PROVE  LayoutInv'
  BY DEF LayoutInv, LaidOut

\* No step of the reading half goes straight to alloc_output or to a loop behind
\* it.
LEMMA ReadingOutside ==
    ASSUME ReadLine \/ ParseLine \/ EndOfInput
    PROVE  pc' \notin Writing \cup {"alloc", "flush"}
<1>1. CASE ParseLine
  BY <1>1 DEF ParseLine, EndOfLine, ParseLabel, ParseGlobal, ParseSection,
              ParseSectionUnknown, ParseAscii, ParseAscizUnquoted,
              ParseAsciiUnquoted, ParseError, ParseAsmSymbol, ParseAsmPlain,
              AddAsm, Unread, At, Goto, Writing
<1>2. CASE ReadLine \/ EndOfInput
  BY <1>2 DEF ReadLine, EndOfInput, Goto, Writing
<1> QED
  BY <1>1, <1>2

\* Every step preserves the invariant.
LEMMA LayoutNext == TypeInv /\ LayoutInv /\ [Next]_vars => LayoutInv'
<1> SUFFICES ASSUME TypeInv, LayoutInv, [Next]_vars
             PROVE  LayoutInv'
  OBVIOUS
<1>1. CASE ReadLine \/ ParseLine \/ EndOfInput
  BY <1>1, ReadingOutside DEF LayoutInv
<1>2. CASE CalcSymbol
  BY <1>2 DEF CalcSymbol, At, LayoutInv, Writing
<1>3. CASE NextBucket
  BY <1>3, LayoutSame DEF NextBucket, outputVars
<1>4. CASE CalcDone
  BY <1>4, SectionFacts DEF CalcDone, Goto, LayoutInv, LaidOut, HEADER_SIZE, Writing
<1>5. CASE AllocSection
  BY <1>5, AllocLays
<1>6. CASE AllocDone
  BY <1>6, AllocEnds
<1>7. CASE WriteNextInstruction \/ WriteNextData
  BY <1>7, LayoutKept DEF WriteNextInstruction, WriteNextData, At
<1>8. CASE InstructionsDone \/ DataDone
  BY <1>8, LayoutKept DEF InstructionsDone, DataDone, At, Goto, Writing, outputVars
<1>9. CASE CopyName
  BY <1>9, LayoutKept DEF CopyName, At, outputVars
<1>10. CASE FillStrtab \/ FillSectionName \/ FillSymtabBlank \/ FillSymtabEntry
  BY <1>10, LayoutKept DEF FillStrtab, FillSectionName, FillSymtabBlank,
                           FillSymtabEntry, At, Goto, Writing
<1>11. CASE FillSymtabDone
  BY <1>11, LayoutKept DEF FillSymtabDone, At, Goto, Writing, outputVars
<1>12. CASE FlushOutput
  BY <1>12, LayoutKept DEF FlushOutput, Goto, Writing, outputVars
<1>13. CASE CopyFiles \/ XmallocFails \/ MallocFails \/ UNCHANGED vars
  BY <1>13, LayoutSame DEF CopyFiles, XmallocFails, MallocFails, vars, outputVars,
                           loopVars
<1> QED
  BY <1>1, <1>2, <1>3, <1>4, <1>5, <1>6, <1>7, <1>8, <1>9, <1>10, <1>11, <1>12,
     <1>13 DEF Next, Terminated

-----------------------------------------------------------------------------
(* The theorem about LayoutDisjoint.                                       *)

\* Whatever the source, the sections of the object lie behind its header in
\* order, aligned and apart from each other, the section header table behind
\* them, from the moment alloc_output is done until flush_output has run: no
\* write of items, names or symbols moves or resizes a section.
THEOREM LayoutSafe == Spec => []LayoutDisjoint
<1>1. Init => TypeInv /\ LayoutInv
  BY TypeInvInit DEF Init, LayoutInv, Writing
<1>2. TypeInv /\ LayoutInv /\ [Next]_vars => TypeInv' /\ LayoutInv'
  BY TypeInvNext, LayoutNext
<1>3. TypeInv /\ LayoutInv => LayoutDisjoint
  BY LayoutInvGives DEF TypeInv, TypeOK
<1> QED
  BY <1>1, <1>2, <1>3, PTL DEF Spec

-----------------------------------------------------------------------------
(***************************************************************************)
(* The symbol pointers instructions keep while the table grows.            *)
(***************************************************************************)

\* No two of the names hash to the same bucket.
DistinctBuckets == \A m, n \in Name : Hash[m] = Hash[n] => m = n

\* Every pointer is to the block its bucket is in.
PointersCurrent ==
    \A k \in DOMAIN instructions :
        instructions[k].sym # NoSymbol => Live(instructions[k].sym)

\* The calls that may grow the table.
Calls(name) ==
    \/ GetOrCreateSymbol(name)
    \/ MakeGlobal(name)
    \/ \E section \in ProgSections, value \in Nat : DefineLabel(name, section, value)

\* A bucket only ever holds one name, so that an array is never extended: a
\* call moves the block of no bucket that has an entry.
LEMMA BlocksStay ==
    ASSUME DistinctBuckets, SymbolsTypeOK, NamesUnique, NEW name \in Name, Calls(name),
           NEW h \in Bucket, symbols[h] # <<>>
    PROVE  block'[h] = block[h]
<1>1. PICK sym \in Symbol : Put(name, sym)
  BY CallPuts DEF Calls
<1>2. PICK b \in BlocksAfter(name) : block' = [block EXCEPT ![Hash[name]] = b]
  BY <1>1 DEF Put
<1>3. CASE h # Hash[name]
  BY <1>2, <1>3 DEF SymbolsTypeOK
<1>4. CASE h = Hash[name]
  <2>1. symbols[h] \in Seq(Symbol) /\ 1 \in DOMAIN symbols[h]
    BY DEF SymbolsTypeOK
  <2>2. symbols[h][1].name \in Name /\ Hash[symbols[h][1].name] = h
    BY <2>1 DEF NamesUnique, UniqueIn, Symbol
  <2>3. symbols[h][1].name = name
    BY <1>4, <2>2 DEF DistinctBuckets
  <2>4. Known(name)
    BY <1>4, <2>1, <2>3 DEF Known, Entries
  <2>5. b = block[h]
    BY <1>2, <1>4, <2>4 DEF BlocksAfter
  <2> QED
    BY <1>2, <1>4, <2>5 DEF SymbolsTypeOK
<1> QED
  BY <1>3, <1>4

\* So a call leaves the pointers handed out before it alive.
LEMMA CallKeepsPointers ==
    ASSUME DistinctBuckets, TypeInv, PointersCurrent, NEW name \in Name, Calls(name)
    PROVE  \A k \in DOMAIN instructions :
                instructions[k].sym # NoSymbol =>
                    instructions[k].sym.block = block'[instructions[k].sym.hash]
<1> SUFFICES ASSUME NEW k \in DOMAIN instructions, instructions[k].sym # NoSymbol
             PROVE  instructions[k].sym.block = block'[instructions[k].sym.hash]
  OBVIOUS
<1> DEFINE ptr == instructions[k].sym
<1>1. ptr \in Pointer
  <2>1. instructions[k] \in Instruction
    BY DEF TypeInv, TypeOK, BytecodeTypeOK
  <2> QED
    BY <2>1 DEF Instruction
<1>2. ptr.hash \in Bucket /\ ptr.index \in DOMAIN symbols[ptr.hash]
  BY <1>1 DEF Pointer, TypeInv, PointersInTable
<1>3. symbols[ptr.hash] # <<>>
  BY <1>2
<1>4. block'[ptr.hash] = block[ptr.hash]
  BY <1>2, <1>3, BlocksStay DEF TypeInv, TypeOK
<1> QED
  BY <1>4 DEF PointersCurrent, Live

\* A new instruction comes with a pointer that is current, or with none.
LEMMA AsmKeepsPointers ==
    ASSUME DistinctBuckets, TypeInv, PointersCurrent,
           \/ \E form \in SymForms, name \in Name : ParseAsmSymbol(form, name)
           \/ \E form \in Forms \ SymForms : ParseAsmPlain(form)
    PROVE  PointersCurrent'
<1>1. CASE \E form \in SymForms, name \in Name : ParseAsmSymbol(form, name)
  <2>1. PICK form \in SymForms, name \in Name : ParseAsmSymbol(form, name)
    BY <1>1
  <2> DEFINE new == PointerTo(name)
  <2>2. form \in Forms /\ GetOrCreateSymbol(name) /\ AddAsm(form, new)
    BY <2>1 DEF ParseAsmSymbol, Forms, SymForms
  <2>3. new \in Pointer /\ new.block = block'[new.hash]
    BY <2>2, PointerType DEF TypeInv, TypeOK
  <2> HIDE DEF new
  <2>4. \A k \in DOMAIN instructions' :
            \/ k \in DOMAIN instructions /\ instructions'[k] = instructions[k]
            \/ instructions'[k].sym = new
    BY <2>2, <2>3, AddAsmType
  <2>5. \A k \in DOMAIN instructions :
            instructions[k].sym # NoSymbol =>
                instructions[k].sym.block = block'[instructions[k].sym.hash]
    BY <2>2, CallKeepsPointers DEF Calls
  <2> QED
    BY <2>3, <2>4, <2>5 DEF PointersCurrent, Live
<1>2. CASE \E form \in Forms \ SymForms : ParseAsmPlain(form)
  <2>1. PICK form \in Forms \ SymForms : ParseAsmPlain(form)
    BY <1>2
  <2>2. AddAsm(form, NoSymbol) /\ block' = block
    BY <2>1 DEF ParseAsmPlain, symbolVars
  <2>3. \A k \in DOMAIN instructions' :
            \/ k \in DOMAIN instructions /\ instructions'[k] = instructions[k]
            \/ instructions'[k].sym = NoSymbol
    BY <2>2, AddAsmType
  <2> QED
    BY <2>2, <2>3 DEF PointersCurrent, Live
<1> QED
  BY <1>1, <1>2

\* Every step keeps the pointers current.
LEMMA PointersNext ==
    ASSUME DistinctBuckets
    PROVE  TypeInv /\ PointersCurrent /\ [Next]_vars => PointersCurrent'
<1> SUFFICES ASSUME TypeInv, PointersCurrent, [Next]_vars
             PROVE  PointersCurrent'
  OBVIOUS
<1>1. ASSUME UNCHANGED <<instructions, block>> PROVE PointersCurrent'
  BY <1>1 DEF PointersCurrent, Live
<1>2. CASE ParseLine
  <2>1. CASE \E form \in SymForms, name \in Name : ParseAsmSymbol(form, name)
    BY <2>1, AsmKeepsPointers
  <2>2. CASE \E form \in Forms \ SymForms : ParseAsmPlain(form)
    BY <2>2, AsmKeepsPointers
  <2>3. ASSUME NEW name \in Name, ParseLabel(name) \/ ParseGlobal(name)
        PROVE  PointersCurrent'
    <3>1. Calls(name) /\ instructions' = instructions
      BY <2>3, PositionType DEF ParseLabel, ParseGlobal, Calls, itemVars, TypeInv,
                                TypeOK, ProgPosition
    <3> QED
      BY <3>1, CallKeepsPointers DEF PointersCurrent, Live
  <2>4. CASE \/ EndOfLine \/ ParseSectionUnknown \/ ParseAscizUnquoted
             \/ ParseAsciiUnquoted \/ ParseError
             \/ \E section \in ProgSections : ParseSection(section)
             \/ \E str \in Strings, nullterm \in BOOLEAN : ParseAscii(str, nullterm)
    BY <1>1, <2>4 DEF EndOfLine, ParseSectionUnknown, ParseAscizUnquoted,
                      ParseAsciiUnquoted, ParseError, ParseSection, ParseAscii,
                      symbolVars, itemVars
  <2> QED
    BY <1>2, <2>1, <2>2, <2>3, <2>4 DEF ParseLine
<1>3. CASE \/ ReadLine \/ EndOfInput \/ CalcSymbol \/ NextBucket \/ CalcDone
           \/ AllocSection \/ AllocDone
  BY <1>1, <1>3 DEF ReadLine, EndOfInput, CalcSymbol, NextBucket, CalcDone,
                    AllocSection, AllocDone, symbolVars, itemVars
<1>4. CASE \/ WriteNextInstruction \/ InstructionsDone \/ WriteNextData \/ DataDone
           \/ CopyName \/ FillStrtab \/ FillSectionName \/ FillSymtabBlank
           \/ FillSymtabEntry \/ FillSymtabDone
  BY <1>1, <1>4 DEF WriteNextInstruction, InstructionsDone, WriteNextData, DataDone,
                    CopyName, FillStrtab, FillSectionName, FillSymtabBlank,
                    FillSymtabEntry, FillSymtabDone, symbolVars, itemVars
<1>5. CASE FlushOutput
  BY <1>5 DEF FlushOutput, PointersCurrent
<1>6. CASE CopyFiles \/ XmallocFails \/ MallocFails \/ UNCHANGED vars
  BY <1>1, <1>6 DEF CopyFiles, XmallocFails, MallocFails, vars, symbolVars, itemVars
<1> QED
  BY <1>2, <1>3, <1>4, <1>5, <1>6 DEF Next, Terminated
=============================================================================
