--------------------------- MODULE MCServiceTable ---------------------------
(* Three callers and two tables: a race of two, and a bystander that sees it. *)
EXTENDS ServiceTable, TLC

CONSTANTS c1, c2, c3, t1, t2

MCCallers == {c1, c2, c3}
MCTables == {t1, t2}

\* Callers and tables are only compared for equality.
Symmetry == Permutations(MCCallers) \cup Permutations(MCTables)

=============================================================================
