----------------------------- MODULE SymbolMap -----------------------------
(***************************************************************************)
(* What the symbol table promises its callers: one record per name, made   *)
(* on first use, never forgotten and never replaced by another.            *)
(***************************************************************************)
EXTENDS Naturals

CONSTANTS Name, LabelSections, Offset, Uninit

VARIABLE map  \* a function from the names used so far to their records

Fresh == [section |-> Uninit, value |-> Uninit, binding |-> 0]

\* The map with `name` in it.
With(name) ==
    [n \in DOMAIN map \cup {name} |-> IF n \in DOMAIN map THEN map[n] ELSE Fresh]

Init == map = [n \in {} |-> Fresh]

\* A reference to a name makes it known.
Refer(name) == map' = With(name)

\* A label definition places the name; the last one wins.
Define(name, section, value) ==
    map' = [With(name) EXCEPT ![name] = [section |-> section,
                                         value   |-> value,
                                         binding |-> @.binding]]

\* A .globl directive changes the binding alone, before or after the label.
Export(name) ==
    map' = [With(name) EXCEPT ![name] = [section |-> @.section,
                                         value   |-> @.value,
                                         binding |-> 16]]

Next ==
    \E name \in Name :
        \/ Refer(name)
        \/ Export(name)
        \/ \E section \in LabelSections, value \in Offset :
                Define(name, section, value)

Spec == Init /\ [][Next]_map
=============================================================================
