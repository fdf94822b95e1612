------------------------------- MODULE Source -------------------------------
(***************************************************************************)
(* What a source text means, said about the text and not about the way     *)
(* wrasm reads it: the section and the address of every unit, the place a  *)
(* name stands for, and the object file that is a correct translation.     *)
(*                                                                         *)
(* A source is the sequence of its units: labels, directives and           *)
(* instructions, in the order they are written.                            *)
(***************************************************************************)
EXTENDS Elf, Sequences, FiniteSetsExt

CONSTANTS StrLen, NoSymbol

LabelUnit(n)      == [unit |-> "label", name |-> n]
GlobalUnit(n)     == [unit |-> "globl", name |-> n]
SectionUnit(s)    == [unit |-> "section", section |-> s]
DataUnit(str, nt) == [unit |-> "data", str |-> str, nullterm |-> nt]
InsnUnit(f, n)    == [unit |-> "insn", form |-> f, name |-> n]

\* A directive whose argument the assembler cannot use.
BadUnit == [unit |-> "bad"]

-----------------------------------------------------------------------------
(* Addresses.                                                              *)

UnitsOf(src, kind) == {k \in DOMAIN src : src[k].unit = kind}

\* The length of a string literal, with the NUL an .asciz adds.
DataSize(str, nullterm) == StrLen[str] + (IF nullterm THEN 1 ELSE 0)

\* li and la stand for two machine instructions, the others for one.
InsnSize(form) == IF form \in {"li", "la"} THEN 8 ELSE 4

SizeOf(u) ==
    CASE u.unit = "insn" -> InsnSize(u.form)
      [] u.unit = "data" -> DataSize(u.str, u.nullterm)
      [] OTHER -> 0

\* The section in force at unit k: the last one selected before it.
SectionAt(src, k) ==
    LET before == {j \in UnitsOf(src, "section") : j < k}
    IN  IF before = {} THEN SECTION_TEXT ELSE src[Max(before)].section

\* The distance of unit k from the start of its section.
AddressOf(src, k) ==
    MapThenSumSet(LAMBDA j : SizeOf(src[j]),
        {j \in 1 .. k - 1 : SectionAt(src, j) = SectionAt(src, k)})

SectionSize(src, s) ==
    MapThenSumSet(LAMBDA j : SizeOf(src[j]),
        {j \in DOMAIN src : SectionAt(src, j) = s})

-----------------------------------------------------------------------------
(* Names.                                                                  *)

SymbolRefs(src) ==
    {k \in UnitsOf(src, "insn") : src[k].name # NoSymbol}

NamesIn(src) ==
    {src[k].name : k \in UnitsOf(src, "label") \cup UnitsOf(src, "globl")
                            \cup SymbolRefs(src)}

LabelsOf(src, n) == {k \in UnitsOf(src, "label") : src[k].name = n}

\* Every name the text uses has a label somewhere, before or after the use.
Resolved(src) == \A n \in NamesIn(src) : LabelsOf(src, n) # {}

\* The unit a name stands for: the last of its labels.
Definition(src, n) == Max(LabelsOf(src, n))

IsGlobal(src, n) == \E k \in UnitsOf(src, "globl") : src[k].name = n

-----------------------------------------------------------------------------
(* Images: what an object file must hold to be a translation of a source.  *)

\* Where unit k of the source ends up in the file laid out as img.
FileAddress(src, img, k) == img.offset[SectionAt(src, k)] + AddressOf(src, k)

BytesOf(src, img, k) ==
    IF src[k].unit = "data"
    THEN [str |-> src[k].str, nullterm |-> src[k].nullterm]
    ELSE [form    |-> src[k].form,
          operand |-> IF src[k].name = NoSymbol
                      THEN NoSymbol
                      ELSE FileAddress(src, img, Definition(src, src[k].name))
                             - FileAddress(src, img, k)]

\* The writes that reach the byte at x of section s.
WritesTo(img, s, x) ==
    {w \in DOMAIN img.contents[s] :
        /\ img.contents[s][w].at <= x
        /\ x < img.contents[s][w].at + img.contents[s][w].len}

\* The one that put the byte there: the last of them, if there is any.
LastWrite(img, s, x) ==
    {img.contents[s][w] : w \in {v \in WritesTo(img, s, x) :
                                    \A u \in WritesTo(img, s, x) : u <= v}}

\* Sections .text and .data hold the units of the source, one after another,
\* each at the address its labels and references take it to have.
CodeMatches(src, img) ==
    /\ \A s \in ProgSections : img.size[s] = SectionSize(src, s)
    /\ \A k \in UnitsOf(src, "insn") \cup UnitsOf(src, "data") :
        LET s == SectionAt(src, k)
            a == AddressOf(src, k)
        IN  \A x \in a .. a + SizeOf(src[k]) - 1 :
                \E w \in LastWrite(img, s, x) :
                    w.at = a /\ w.bytes = BytesOf(src, img, k)

\* The name a symbol table entry points to in .strtab.
NamesAt(img, off) ==
    UNION {{b.name : b \in {c \in w.bytes.names : w.at + c.at = off}} :
           w \in {v \in LastWrite(img, SECTION_STRTAB, off) :
                     "names" \in DOMAIN v.bytes}}

SymtabWrites(img) ==
    {img.contents[SECTION_SYMTAB][w] : w \in DOMAIN img.contents[SECTION_SYMTAB]}

\* The symbol table has a blank entry and, one after the other, one entry for
\* each name of the source, which points to that name in .strtab.
NamesMatch(src, img) ==
    LET number == Cardinality(NamesIn(src))
    IN  /\ img.size[SECTION_SYMTAB] = SYM_SIZE * (number + 1)
        /\ img.info = number
        /\ {w.at : w \in SymtabWrites(img)} = {SYM_SIZE * k : k \in 0 .. number}
        /\ \A n \in NamesIn(src) : \E w \in SymtabWrites(img) :
                w.at # 0 /\ NamesAt(img, w.bytes.name) = {n}

\* The entry of a name gives the section and the address of its definition.
EntriesMatch(src, img) ==
    \A n \in NamesIn(src), w \in SymtabWrites(img) :
        w.at # 0 /\ NamesAt(img, w.bytes.name) = {n} =>
            /\ w.bytes.shndx = SectionAt(src, Definition(src, n))
            /\ w.bytes.value = AddressOf(src, Definition(src, n))
            /\ w.bytes.binding = IF IsGlobal(src, n) THEN 16 ELSE 0

\* The name each section header points to is that of its section.
SectionNamesMatch(img) ==
    \A s \in Sections :
        LastWrite(img, SECTION_STRTAB, img.nameoffset[s]) =
            {[at    |-> img.nameoffset[s],
              len   |-> SectionNameSz[s],
              bytes |-> [sectionname |-> s]]}

IsImage(src, img) ==
    /\ CodeMatches(src, img)
    /\ NamesMatch(src, img) /\ EntriesMatch(src, img)
    /\ SectionNamesMatch(img)
=============================================================================
