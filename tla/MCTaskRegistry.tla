--------------------------- MODULE MCTaskRegistry ---------------------------
(* TaskRegistry on four task ids and a store that keeps two records.        *)
EXTENDS TaskRegistry, TLC

Symmetry == Permutations(Task)

=============================================================================
