---------------------------- MODULE SymbolTable ----------------------------
(***************************************************************************)
(* The symbol table of symbols.c by itself, under every sequence of the    *)
(* calls its callers make: a reference (parse.c), a .globl (directives.c)  *)
(* or a label (generation.c).                                              *)
(***************************************************************************)
EXTENDS Symbols

CONSTANT
    MaxValue  \* bound on the label values the callers assign

SymbolsNext ==
    \E name \in Name :
        \/ GetOrCreateSymbol(name)
        \/ MakeGlobal(name)
        \/ \E section \in ProgSections, value \in 0 .. MaxValue :
                DefineLabel(name, section, value)

SymbolsSpec == SymbolsInit /\ [][SymbolsNext]_symbolVars

\* The action property of EntriesStay: entries keep their place and name
\* through every call of symbols.c.
EntriesNeverMove == [][EntriesStay]_symbolVars

-----------------------------------------------------------------------------
(* The abstract view: a finite map from the known names.                   *)

Lookup(name) ==
    [section |-> Entry(symbols, name).section,
     value   |-> Entry(symbols, name).value,
     binding |-> Entry(symbols, name).binding]

\* The table as a map: the names it knows and what it holds for them.
MapOf == [name \in {n \in Name : Known(n)} |-> Lookup(name)]

Map == INSTANCE SymbolMap WITH
            map <- MapOf, LabelSections <- ProgSections, Offset <- 0 .. MaxValue

\* The hash table behaves as one map from names to symbols, whatever the hash
\* function and however names collide.
ImplementsMap == Map!Spec
=============================================================================
