----------------------------- MODULE Assembler -----------------------------
(***************************************************************************)
(* One run of wrasm: main, parse_file and parse_line (main.c,              *)
(* generation.c), the directives (directives.c), parse_asm (parse.c), and  *)
(* the loops over items, sections and symbols that bytecode.c and          *)
(* elf/output.c run once the source is read.                               *)
(*                                                                         *)
(* The source is chosen as it is read, one unit per step; the history      *)
(* variable `source` keeps it, and nothing in the program reads it.  A     *)
(* step of the reading half is one parse function, a step of the writing   *)
(* half one iteration of a loop.  `pc` names the loop or the call the      *)
(* program is in and stays where the process ends.                         *)
(***************************************************************************)
EXTENDS Bytecode, FiniteSets

CONSTANTS
    MaxUnits,  \* bound on the units of a source
    MaxLines   \* bound on its lines

ASSUME AssemblerAssumption == MaxUnits \in Nat /\ MaxLines \in Nat

VARIABLES
    pc,          \* where parse_file or main is
    position,    \* parse_line's parameter, read before the line is parsed
    linenumber,  \* lines read
    source,      \* history: the units read
    i,           \* loop counter over sections, instructions or data items
    cursor,      \* the running offset of a loop: sz, offset or strtab_addr
    count,       \* the symbols counted or written so far
    slot,        \* <<hash, index>> of a loop over the symbols
    strbuf,      \* the buffer of create_symtab_str_buf
    temp,        \* the temporary file: empty, or one object
    outfile      \* the output file, truncated when it was opened

inputVars == <<position, linenumber, source>>
loopVars == <<i, cursor, count, slot, strbuf>>
fileVars == <<temp, outfile>>
vars == <<processVars, outputVars, symbolVars, itemVars,
          pc, inputVars, loopVars, fileVars>>

Text == INSTANCE Source

\* What parse_nulltermstr returns for a literal: its bytes and a NUL.
NullTermSize(str) == StrLen[str] + 1

\* The units with which a source goes on as usual.
GoodUnit ==
    {Text!LabelUnit(n) : n \in Name} \cup {Text!GlobalUnit(n) : n \in Name}
    \cup {Text!SectionUnit(s) : s \in ProgSections}
    \cup {Text!DataUnit(str, nt) : str \in Strings, nt \in BOOLEAN}
    \cup {Text!InsnUnit(f, n) : f \in SymForms, n \in Name}
    \cup {Text!InsnUnit(f, NoSymbol) : f \in Forms \ SymForms}
Unit == GoodUnit \cup {Text!BadUnit}

Reading == {"getl", "line"}
Writing == {"instructions", "data", "strtab", "names", "symtab"}
PCs == Reading \cup {"calc", "alloc"} \cup Writing \cup {"flush", "copy"}

Init ==
    /\ ProcessInit /\ OutputInit /\ SymbolsInit /\ BytecodeInit
    /\ pc = "getl"
    /\ position = GetOutputPos
    /\ linenumber = 0
    /\ source = <<>>
    /\ i = 0 /\ cursor = 0 /\ count = 0 /\ slot = FirstSlot /\ strbuf = {}
    /\ temp = <<>>
    /\ outfile = <<>>

At(label) == Running /\ pc = label
Goto(label) == pc' = label

-----------------------------------------------------------------------------
(* Reading the source: the loop of parse_file.                             *)

\* getl succeeds; the position of the line is read before it is parsed.
ReadLine ==
    /\ At("getl") /\ linenumber < MaxLines
    /\ linenumber' = linenumber + 1
    /\ position' = GetOutputPos
    /\ Goto("line")
    /\ UNCHANGED <<processVars, outputVars, symbolVars, itemVars, source,
                   loopVars, fileVars>>

\* A line, or what is left of it behind its labels, is empty or a comment.
EndOfLine ==
    /\ At("line")
    /\ Goto("getl")
    /\ UNCHANGED <<processVars, outputVars, symbolVars, itemVars, inputVars,
                   loopVars, fileVars>>

\* The loop ends; calc_strtab and calc_symtab are about to run.
EndOfInput ==
    /\ At("getl")
    /\ cursor' = 1 /\ count' = 0 /\ slot' = FirstSlot
    /\ Goto("calc")
    /\ UNCHANGED <<processVars, outputVars, symbolVars, itemVars, inputVars,
                   i, strbuf, fileVars>>

\* The line has one more unit.
Unread(unit) ==
    /\ At("line") /\ Len(source) < MaxUnits
    /\ source' = Append(source, unit)
    /\ UNCHANGED <<position, linenumber, loopVars, fileVars>>

\* parse_label; the rest of the line is parsed with the position it began at.
ParseLabel(name) ==
    /\ Unread(Text!LabelUnit(name))
    /\ DefineLabel(name, GetOutputPos.section, GetOutputPos.offset)
    /\ UNCHANGED <<pc, processVars, outputVars, itemVars>>

ParseGlobal(name) ==
    /\ Unread(Text!GlobalUnit(name))
    /\ MakeGlobal(name)
    /\ Goto("getl")
    /\ UNCHANGED <<processVars, outputVars, itemVars>>

ParseSection(section) ==
    /\ Unread(Text!SectionUnit(section))
    /\ ChangeOutput(section)
    /\ Goto("getl")
    /\ UNCHANGED <<processVars, size, offset, contents, nameoffset, info,
                   symbolVars, itemVars>>

\* parse_section knows no such section: a warning, and parse_file returns at
\* once.  main goes on as if the temporary file held the object.
ParseSectionUnknown ==
    /\ Unread(Text!BadUnit)
    /\ Logger("WARN", "error_invalid_instruction")
    /\ Goto("copy")
    /\ UNCHANGED <<outputVars, symbolVars, itemVars>>

\* parse_ascii_generic: .ascii and .asciz
ParseAscii(str, nullterm) ==
    LET sz == NullTermSize(str) - (IF nullterm THEN 0 ELSE 1)
    IN  /\ Unread(Text!DataUnit(str, nullterm))
        /\ AddData([str      |-> str,
                    nullterm |-> nullterm,
                    size     |-> sz,
                    position |-> GetOutputPos])
        /\ IncOutputSize(GetOutputPos.section, sz)
        /\ Goto("getl")
        /\ UNCHANGED <<processVars, outputsection, offset, contents,
                       nameoffset, info, symbolVars, instructions>>

\* .asciz without an opening quote: parse_nulltermstr returns -1 without a
\* diagnostic, and parse_file returns as above.
ParseAscizUnquoted ==
    /\ Unread(Text!BadUnit)
    /\ Goto("copy")
    /\ UNCHANGED <<processVars, outputVars, symbolVars, itemVars>>

\* .ascii without one: -1 less the NUL is -2, which no malloc can satisfy.
\* Neither can it strlen(str) - 1 bytes where there is no argument at all.
ParseAsciiUnquoted ==
    /\ At("line")
    /\ Logger("CRITICAL", "error_system")
    /\ UNCHANGED <<outputVars, symbolVars, itemVars, pc, inputVars, loopVars,
                   fileVars>>

\* An unknown directive or mnemonic, a bad escape; an unterminated string; a
\* wrong number or kind of arguments.
ParseError ==
    /\ At("line")
    /\ \E id \in {"error_invalid_instruction", "error_invalid_syntax",
                  "error_instruction_other"} : Logger("ERROR", id)
    /\ UNCHANGED <<outputVars, symbolVars, itemVars, pc, inputVars, loopVars,
                   fileVars>>

\* parse_asm, for a form with a symbol and for one without.
AddAsm(form, sym) ==
    /\ AddInstruction([form |-> form, sym |-> sym, position |-> position])
    /\ IncOutputSize(position.section, IdataSize[form])
    /\ Goto("getl")
    /\ UNCHANGED <<processVars, outputsection, offset, contents, nameoffset,
                   info, dataitems>>

ParseAsmSymbol(form, name) ==
    /\ Unread(Text!InsnUnit(form, name))
    /\ GetOrCreateSymbol(name)
    /\ AddAsm(form, PointerTo(name))

ParseAsmPlain(form) ==
    /\ Unread(Text!InsnUnit(form, NoSymbol))
    /\ AddAsm(form, NoSymbol)
    /\ UNCHANGED symbolVars

ParseLine ==
    \/ EndOfLine
    \/ \E name \in Name : ParseLabel(name) \/ ParseGlobal(name)
    \/ \E section \in ProgSections : ParseSection(section)
    \/ ParseSectionUnknown
    \/ \E str \in Strings, nullterm \in BOOLEAN : ParseAscii(str, nullterm)
    \/ ParseAscizUnquoted
    \/ ParseAsciiUnquoted
    \/ ParseError
    \/ \E form \in SymForms, name \in Name : ParseAsmSymbol(form, name)
    \/ \E form \in Forms \ SymForms : ParseAsmPlain(form)

-----------------------------------------------------------------------------
(* Layout.                                                                 *)

\* One iteration of calc_symtab_str_buf_size and of calc_symtab.
CalcSymbol ==
    /\ At("calc") /\ IsSlot(slot)
    /\ cursor' = cursor + NameSz[SymbolAt(slot).name]
    /\ count' = count + 1
    /\ slot' = <<slot[1], slot[2] + 1>>
    /\ UNCHANGED <<processVars, outputVars, symbolVars, itemVars, pc, inputVars,
                   i, strbuf, fileVars>>

\* Mutant: the loop does not get past an empty bucket.
NextBucketStays ==
    /\ Running /\ pc \in {"calc", "strtab", "symtab"}
    /\ slot[1] \in Bucket /\ ~IsSlot(slot)
    /\ slot' = IF slot[2] = 1 THEN slot ELSE <<slot[1] + 1, 1>>
    /\ UNCHANGED <<processVars, outputVars, symbolVars, itemVars, pc, inputVars,
                   i, cursor, count, strbuf, fileVars>>

\* The end of a bucket, in any loop over the symbols.
NextBucket ==
    /\ Running /\ pc \in {"calc", "strtab", "symtab"}
    /\ slot[1] \in Bucket /\ ~IsSlot(slot)
    /\ slot' = <<slot[1] + 1, 1>>
    /\ UNCHANGED <<processVars, outputVars, symbolVars, itemVars, pc, inputVars,
                   i, cursor, count, strbuf, fileVars>>

CalcDone ==
    /\ At("calc") /\ slot[1] \notin Bucket
    /\ size' = [size EXCEPT ![SECTION_STRTAB] = SectionNamesSz + cursor,
                            ![SECTION_SYMTAB] = (count + 1) * SYM_SIZE]
    /\ info' = count
    /\ i' = 0
    /\ cursor' = HEADER_SIZE
    /\ Goto("alloc")
    /\ UNCHANGED <<processVars, outputsection, offset, contents, nameoffset,
                   symbolVars, itemVars, inputVars, count, slot, strbuf, fileVars>>

\* One iteration of alloc_output.
AllocSection ==
    /\ At("alloc") /\ i < SECTION_COUNT
    /\ Allocate(i, cursor)
    /\ cursor' = offset'[i] + size[i]
    /\ i' = i + 1
    /\ UNCHANGED <<processVars, outputsection, size, nameoffset, info,
                   symbolVars, itemVars, pc, inputVars, count, slot, strbuf, fileVars>>

AllocDone ==
    /\ At("alloc") /\ i = SECTION_COUNT
    /\ offset' = [offset EXCEPT ![SECTION_NULL] = 0]
    /\ i' = 1
    /\ Goto("instructions")
    /\ UNCHANGED <<processVars, outputsection, size, contents, nameoffset,
                   info, symbolVars, itemVars, inputVars, cursor, count, slot,
                   strbuf, fileVars>>

-----------------------------------------------------------------------------
(* write_all: the items, with i the position in the list.                  *)

WriteNextInstruction ==
    /\ At("instructions") /\ i <= Len(instructions)
    /\ WriteInstruction(instructions[i])
    /\ i' = i + 1
    /\ UNCHANGED <<size, offset, nameoffset, info, symbolVars, itemVars, pc,
                   inputVars, cursor, count, slot, strbuf, fileVars>>

InstructionsDone ==
    /\ At("instructions") /\ i > Len(instructions)
    /\ i' = 1
    /\ Goto("data")
    /\ UNCHANGED <<processVars, outputVars, symbolVars, itemVars, inputVars,
                   cursor, count, slot, strbuf, fileVars>>

WriteNextData ==
    /\ At("data") /\ i <= Len(dataitems)
    /\ WriteData(dataitems[i])
    /\ i' = i + 1
    /\ UNCHANGED <<size, offset, nameoffset, info, symbolVars, itemVars, pc,
                   inputVars, cursor, count, slot, strbuf, fileVars>>

DataDone ==
    /\ At("data") /\ i > Len(dataitems)
    /\ cursor' = 1 /\ slot' = FirstSlot /\ strbuf' = {}
    /\ Goto("strtab")
    /\ UNCHANGED <<processVars, outputVars, symbolVars, itemVars, inputVars,
                   i, count, fileVars>>

-----------------------------------------------------------------------------
(* fill_strtab and fill_symtab.                                            *)

\* Mutant: the names are copied without their NULs.
CopyNameBare ==
    /\ At("strtab") /\ IsSlot(slot)
    /\ strbuf' = strbuf \cup {[at |-> cursor, name |-> SymbolAt(slot).name]}
    /\ cursor' = cursor + NameSz[SymbolAt(slot).name] - 1
    /\ slot' = <<slot[1], slot[2] + 1>>
    /\ UNCHANGED <<processVars, outputVars, symbolVars, itemVars, pc, inputVars,
                   i, count, fileVars>>

\* One iteration of create_symtab_str_buf: the next name goes into the buffer.
CopyName ==
    /\ At("strtab") /\ IsSlot(slot)
    /\ strbuf' = strbuf \cup {[at |-> cursor, name |-> SymbolAt(slot).name]}
    /\ cursor' = cursor + NameSz[SymbolAt(slot).name]
    /\ slot' = <<slot[1], slot[2] + 1>>
    /\ UNCHANGED <<processVars, outputVars, symbolVars, itemVars, pc, inputVars,
                   i, count, fileVars>>

\* The buffer goes to the start of .strtab.
FillStrtab ==
    /\ At("strtab") /\ slot[1] \notin Bucket
    /\ WriteSectionData([names |-> strbuf], cursor,
                        [section |-> SECTION_STRTAB, offset |-> 0])
    /\ i' = 0
    /\ Goto("names")
    /\ UNCHANGED <<outputsection, size, offset, nameoffset, info, symbolVars,
                   itemVars, inputVars, cursor, count, slot, strbuf, fileVars>>

\* The section names behind them, one per iteration.
FillSectionName ==
    /\ At("names") /\ i < SECTION_COUNT
    /\ WriteSectionData([sectionname |-> i], SectionNameSz[i],
                        [section |-> SECTION_STRTAB, offset |-> cursor])
    /\ nameoffset' = [nameoffset EXCEPT ![i] = cursor]
    /\ cursor' = cursor + SectionNameSz[i]
    /\ i' = i + 1
    /\ UNCHANGED <<outputsection, size, offset, info, symbolVars, itemVars, pc,
                   inputVars, count, slot, strbuf, fileVars>>

SymtabEntry(name, binding, shndx, value) ==
    [name |-> name, binding |-> binding, shndx |-> shndx, value |-> value]

\* The last section name is out; fill_symtab starts with its blank entry.
FillSymtabBlank ==
    /\ At("names") /\ i = SECTION_COUNT
    /\ WriteSectionData(SymtabEntry(0, 0, 0, 0), SYM_SIZE,
                        [section |-> SECTION_SYMTAB, offset |-> 0])
    /\ cursor' = 1 /\ count' = 1 /\ slot' = FirstSlot
    /\ Goto("symtab")
    /\ UNCHANGED <<outputsection, size, offset, nameoffset, info, symbolVars,
                   itemVars, inputVars, i, strbuf, fileVars>>

\* One symbol: section and value are stored as found, a label parsed or not.
FillSymtabEntry ==
    /\ At("symtab") /\ IsSlot(slot)
    /\ LET sym == SymbolAt(slot)
       IN  /\ WriteSectionData(
                 SymtabEntry(cursor, sym.binding, sym.section, sym.value),
                 SYM_SIZE,
                 [section |-> SECTION_SYMTAB, offset |-> count * SYM_SIZE])
           /\ cursor' = cursor + NameSz[sym.name]
    /\ count' = count + 1
    /\ slot' = <<slot[1], slot[2] + 1>>
    /\ UNCHANGED <<outputsection, size, offset, nameoffset, info, symbolVars,
                   itemVars, pc, inputVars, i, strbuf, fileVars>>

FillSymtabDone ==
    /\ At("symtab") /\ slot[1] \notin Bucket
    /\ Goto("flush")
    /\ UNCHANGED <<processVars, outputVars, symbolVars, itemVars, inputVars,
                   loopVars, fileVars>>

-----------------------------------------------------------------------------
(* The end of parse_file, and main.                                        *)

\* flush_output, and the lists freed behind it.
FlushOutput ==
    /\ At("flush")
    /\ temp' = <<Image>>
    /\ instructions' = <<>>
    /\ dataitems' = <<>>
    /\ Goto("copy")
    /\ UNCHANGED <<processVars, outputVars, symbolVars, inputVars, loopVars,
                   outfile>>

\* copy_files copies the temporary file, whatever is in it; main returns.
CopyFiles ==
    /\ At("copy")
    /\ outfile' = temp
    /\ CleanExit
    /\ UNCHANGED <<logged, outputVars, symbolVars, itemVars, pc, inputVars,
                   loopVars, temp>>

\* Where an allocation goes through xmalloc or xrealloc.
XmallocFails ==
    /\ Running /\ pc \in {"getl", "line", "alloc", "instructions", "copy"}
    /\ Die
    /\ UNCHANGED <<outputVars, symbolVars, itemVars, pc, inputVars, loopVars,
                   fileVars>>

\* create_symtab_str_buf and form_load_pseudo call malloc itself and use what
\* it returns.
MallocFails ==
    /\ OutOfMemory
    /\ \/ At("strtab") /\ slot = FirstSlot
       \/ /\ At("instructions") /\ i <= Len(instructions)
          /\ instructions[i].form \in {"li", "la"}
    /\ Fault
    /\ UNCHANGED <<outputVars, symbolVars, itemVars, pc, inputVars, loopVars,
                   fileVars>>

Terminated == ~Running /\ UNCHANGED vars

Next ==
    \/ ReadLine \/ ParseLine \/ EndOfInput
    \/ CalcSymbol \/ NextBucket \/ CalcDone
    \/ AllocSection \/ AllocDone
    \/ WriteNextInstruction \/ InstructionsDone
    \/ WriteNextData \/ DataDone
    \/ CopyName \/ FillStrtab \/ FillSectionName
    \/ FillSymtabBlank \/ FillSymtabEntry \/ FillSymtabDone
    \/ FlushOutput \/ CopyFiles
    \/ XmallocFails \/ MallocFails
    \/ Terminated

Spec == Init /\ [][Next]_vars

\* A single thread runs the program: some step is always taken until it ends.
FairSpec == Spec /\ WF_vars(Next)

-----------------------------------------------------------------------------
(* Types.                                                                  *)

Indeterminate == {Uninit}
CodeBytes == [form : Forms, operand : Int \cup {NoSymbol, Garbage}]
DataBytes == [str : Strings, nullterm : BOOLEAN]
NameBytes == [names : SUBSET [at : Nat, name : Name]]
SectionNameBytes == [sectionname : Sections]
SymbolBytes == [name    : Nat,
                binding : {0, 16},
                shndx   : Sections \cup Indeterminate,
                value   : Nat \cup Indeterminate]
Extent == [at    : Nat,
           len   : Nat,
           bytes : CodeBytes \cup DataBytes \cup NameBytes
                     \cup SectionNameBytes \cup SymbolBytes]

OutputTypeOK ==
    /\ outputsection \in ProgSections
    /\ size \in [Sections -> Nat]
    /\ offset \in [Sections -> Nat]
    /\ contents \in [Sections -> Seq(Extent)]
    /\ nameoffset \in [Sections -> Nat]
    /\ info \in Nat

ControlTypeOK ==
    /\ pc \in PCs
    /\ position \in ProgPosition
    /\ linenumber \in Nat
    /\ source \in Seq(Unit)
    /\ i \in Nat /\ cursor \in Nat /\ count \in Nat
    /\ slot \in Nat \X Nat
    /\ strbuf \in SUBSET [at : Nat, name : Name]
    /\ Len(temp) <= 1 /\ Len(outfile) <= 1

\* Every variable of the program is in the domain its C type and the code give
\* it; in particular only .text and .data are ever selected for output.
TypeOK ==
    /\ ProcessTypeOK /\ OutputTypeOK /\ SymbolsTypeOK /\ BytecodeTypeOK
    /\ ControlTypeOK

-----------------------------------------------------------------------------
(* Safety.                                                                 *)

\* The items of the source with the bytes of their section each is to fill.
Items ==
    {[list |-> "instructions", index |-> k,
      position |-> instructions[k].position,
      len |-> IdataSize[instructions[k].form]] : k \in DOMAIN instructions}
    \cup
    {[list |-> "dataitems", index |-> k,
      position |-> dataitems[k].position,
      len |-> dataitems[k].size] : k \in DOMAIN dataitems}

Covers(item, s, x) ==
    /\ item.position.section = s
    /\ item.position.offset <= x
    /\ x < item.position.offset + item.len

\* Instructions take the position read before their line was parsed, strings
\* the one read afterwards, and the two lists grow apart from each other and
\* from the sizes: yet in each section every byte counted belongs to exactly
\* one item, however sections, labels and items are mixed.
ItemsTile ==
    \A s \in ProgSections :
        /\ \A item \in Items : item.position.section = s =>
                item.position.offset + item.len <= size[s]
        /\ (instructions # <<>> \/ dataitems # <<>>) =>
                \A x \in 0 .. size[s] - 1 :
                    \E item \in Items :
                        /\ Covers(item, s, x)
                        /\ \A other \in Items :
                                Covers(other, s, x) => other = item

\* A section is never written past the size computed for it: the two passes
\* over items, names and symbols agree, and the check in write_sectiondata
\* never fires.
NoOverrun == <<"CRITICAL", "error_internal">> \notin logged

\* When the object is written to the file, every byte of the four sections has
\* been stored exactly once: no byte of malloc'ed memory leaks into it and no
\* item overwrites another.
ObjectComplete ==
    At("flush") =>
        \A s \in Sections : \A x \in 0 .. size[s] - 1 :
            Cardinality(Text!WritesTo(Image, s, x)) = 1

\* The object's symbol table names every symbol of the source once, and every
\* section header its section, although the strings are laid out by one loop,
\* their offsets recomputed by another, and both orders are the hash table's.
\* This needs no assumption on collisions or undefined names.
TablesNamed ==
    At("flush") =>
        Text!NamesMatch(source, Image) /\ Text!SectionNamesMatch(Image)

\* Once laid out, the header, the sections and the section header table follow
\* each other in the file without overlap, each where its alignment wants it.
LayoutDisjoint ==
    pc \in Writing \cup {"flush"} =>
        /\ \A s \in Sections \ {SECTION_NULL} :
            /\ offset[s] >= HEADER_SIZE
            /\ offset[s] % Align[s] = 0
            /\ \A t \in Sections : s < t => offset[s] + size[s] <= offset[t]
            /\ offset[s] + size[s] <= SectionHeaderOffset

\* What the list holds of the instruction that is unit u of the source.  The
\* array its pointer is into may have moved only if the bucket has an entry
\* behind the symbol: a name that came after it.
Tracks(insn, u) ==
    /\ insn.form = source[u].form
    /\ insn.position = [section |-> Text!SectionAt(source, u),
                        offset  |-> Text!AddressOf(source, u)]
    /\ insn.sym # NoSymbol
    /\ insn.sym.index \in DOMAIN symbols[insn.sym.hash]
    /\ Deref(insn.sym).name = source[u].name
    /\ Live(insn.sym) \/ insn.sym.index < Len(symbols[insn.sym.hash])

\* Whatever hashes to the same bucket, every reference of the source has its
\* instruction until the lists are freed, with a pointer whose bucket and index
\* are those of the name it refers to, although the table has grown since; and
\* the pointer dangles for one reason alone, that create_symbol has put a later
\* name behind its symbol.  The last symbol of a bucket is always safe to read.
PointersTrack ==
    pc # "copy" =>
        \A u \in Text!SymbolRefs(source) :
            \E k \in DOMAIN instructions : Tracks(instructions[k], u)

-----------------------------------------------------------------------------
(* The whole.                                                              *)

Object == INSTANCE ObjectFile

\* With one name per bucket and memory enough, the two passes, the table and
\* the layout together deliver translations, as ObjectFile.tla defines them.
ImplementsObjectFile == Object!Spec

\* The process ends: every loop runs out of items, whatever the source is.
Termination == <>(~Running)

-----------------------------------------------------------------------------
(* What the documentation, the diagnostics and the tests claim.            *)

\* A process that reports success has delivered an object: what the system
\* tests (test/system/runtests.py) take a zero status for.
NoSilentFailure == status = "success" => outfile # <<>>

\* An instruction that refers to a name without a label is not assembled with
\* success; write_instruction has a diagnostic for it, "Symbol %s not found".
UndefinedReported ==
    status = "success" /\ outfile # <<>> =>
        \A k \in Text!SymbolRefs(source) : Text!LabelsOf(source, source[k].name) # {}

\* The pointer an instruction keeps (struct idata, field sym) is the symbol of
\* the table when write_instruction reads section and value through it.
PointersLive ==
    \A k \in DOMAIN instructions :
        LET ptr == instructions[k].sym
        IN  ptr # NoSymbol => Live(ptr) /\ ptr.index \in DOMAIN symbols[ptr.hash]
=============================================================================
