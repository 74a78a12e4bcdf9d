----------------------------- MODULE MCServerRpc -----------------------------
(* ServerRpc on two connections and four requests.                          *)
EXTENDS ServerRpc, TLC

\* Connections and request ids are interchangeable; task ids are not,
\* they are handed out in a fixed order.
Symmetry == Permutations(Conn) \cup Permutations(Req)

=============================================================================
