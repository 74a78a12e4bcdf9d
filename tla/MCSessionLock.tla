---------------------------- MODULE MCSessionLock ----------------------------
(* SessionLock on three processes and two sessions.                         *)
EXTENDS SessionLock, TLC

Symmetry == Permutations(Proc) \cup Permutations(Session)

=============================================================================
