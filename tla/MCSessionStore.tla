--------------------------- MODULE MCSessionStore ----------------------------
(* SessionStore on a few sessions and turns.                                *)
EXTENDS SessionStore, TLC

Symmetry == Permutations(Proc) \cup Permutations(Session)

=============================================================================
