-------------------------------- MODULE Elf --------------------------------
(***************************************************************************)
(* The fixed facts of the object format wrasm writes (h/elf/def.h, and the *)
(* tables at the head of elf/output.c): five sections, in file order, and  *)
(* the sizes of the records in them.                                       *)
(***************************************************************************)
EXTENDS Integers

SECTION_NULL   == 0
SECTION_STRTAB == 1
SECTION_TEXT   == 2
SECTION_DATA   == 3
SECTION_SYMTAB == 4
SECTION_COUNT  == 5

Sections == 0 .. SECTION_COUNT - 1

\* The sections a .section directive can select.
ProgSections == {SECTION_TEXT, SECTION_DATA}

HEADER_SIZE == 64        \* sizeof(struct elf64header)
SYM_SIZE    == 24        \* sizeof(struct elf64sym)

\* sectiondata[i].align
Align == [i \in Sections |->
            IF i = SECTION_TEXT THEN 4
            ELSE IF i = SECTION_SYMTAB THEN 8 ELSE 1]

\* strlen(sectionnames[i]) + 1
SectionNameSz == [i \in Sections |->
                    IF i = SECTION_NULL THEN 1
                    ELSE IF i \in ProgSections THEN 6 ELSE 8]

SectionNamesSz ==
    SectionNameSz[SECTION_NULL] + SectionNameSz[SECTION_STRTAB]
        + SectionNameSz[SECTION_TEXT] + SectionNameSz[SECTION_DATA]
        + SectionNameSz[SECTION_SYMTAB]
=============================================================================
