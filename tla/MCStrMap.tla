------------------------------ MODULE MCStrMap ------------------------------
EXTENDS StrMap

\* Two slots at first, then four, then eight: b probes past a's slot and around
\* the end of the table, d past c's until the table has eight slots.
MCKeys == {"a", "b", "c", "d"}
MCHashOf == [k \in MCKeys |-> CASE k \in {"a", "b"} -> 3 [] k = "c" -> 1 [] k = "d" -> 5]
=============================================================================
