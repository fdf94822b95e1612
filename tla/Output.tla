------------------------------- MODULE Output -------------------------------
(***************************************************************************)
(* elf/output.c: the five sections of the object file under construction.  *)
(* While the source is read a section is only a size that grows; then the  *)
(* tables get their sizes, alloc_output gives every section its offset in  *)
(* the file, and from then on bytes are written at positions handed out    *)
(* earlier.                                                                *)
(*                                                                         *)
(* The contents of a section are the writes made to it, oldest first: an   *)
(* extent is the place, the length and the meaning of the bytes one        *)
(* memcpy stored.                                                          *)
(***************************************************************************)
EXTENDS Elf, Sequences, Process

VARIABLES
    outputsection,  \* the section selected for output
    size,           \* outputsections[i].size
    offset,         \* outputsections[i].offset, in the file
    contents,       \* outputsections[i].contents, a sequence of extents
    nameoffset,     \* outputsections[i].nameoffset, in .strtab
    info            \* sectiondata[SECTION_SYMTAB].info

outputVars == <<outputsection, size, offset, contents, nameoffset, info>>

Position == [section : Sections, offset : Nat]
ProgPosition == [section : ProgSections, offset : Nat]

OutputInit ==
    /\ outputsection = SECTION_TEXT
    /\ size = [i \in Sections |-> 0]
    /\ offset = [i \in Sections |-> 0]
    /\ contents = [i \in Sections |-> <<>>]
    /\ nameoffset = [i \in Sections |-> 0]
    /\ info = 0

-----------------------------------------------------------------------------
(* While the source is read.                                               *)

GetOutputPos == [section |-> outputsection, offset |-> size[outputsection]]

\* Mutant: the index into section_map is taken for the section.
ChangeOutputIndex(section) == outputsection' = section - SECTION_TEXT

ChangeOutput(section) == outputsection' = section

\* Mutant: = for +=
SetOutputSize(section, amount) == size' = [size EXCEPT ![section] = amount]

IncOutputSize(section, amount) == size' = [size EXCEPT ![section] = @ + amount]

-----------------------------------------------------------------------------
(* Layout.                                                                 *)

\* Mutant: rounds down.
AlignOffsetDown(off, align) == (off \div align) * align

\* The C code decrements first: 0 would wrap, but no offset is below 64.
AlignOffset(off, align) == ((off - 1) \div align + 1) * align

\* One iteration of alloc_output for section i, the file being laid out up to
\* `from`.  The null section ends up at offset 0 whatever the loop gave it.
Allocate(i, from) ==
    /\ contents' = [contents EXCEPT ![i] = <<>>]
    /\ offset' = [offset EXCEPT ![i] = AlignOffset(from, Align[i])]

CalcFileOffset(pos) == offset[pos.section] + pos.offset

\* Where the section header table goes, after the last section.
SectionHeaderOffset ==
    AlignOffset(offset[SECTION_COUNT - 1] + size[SECTION_COUNT - 1], 8)

-----------------------------------------------------------------------------
(* Writing.                                                                *)

Fits(len, pos) == pos.offset + len <= size[pos.section]

\* write_sectiondata stores the bytes, or, when they would overrun the section,
\* stores nothing and logs a diagnostic that ends the process.
WriteSectionData(bytes, len, pos) ==
    IF Fits(len, pos)
    THEN /\ contents' = [contents EXCEPT ![pos.section] =
                           Append(@, [at    |-> pos.offset,
                                      len   |-> len,
                                      bytes |-> bytes])]
         /\ UNCHANGED processVars
    ELSE /\ Logger("CRITICAL", "error_internal")
         /\ UNCHANGED contents

\* The object flush_output sends to its stream.
Image == [contents   |-> contents,
          offset     |-> offset,
          size       |-> size,
          nameoffset |-> nameoffset,
          info       |-> info,
          shoffset   |-> SectionHeaderOffset]
=============================================================================
