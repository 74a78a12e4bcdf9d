----------------------------- MODULE MCTaskQueue -----------------------------
(* TaskQueue with three keys: a session, a project and a user scope.        *)
EXTENDS TaskQueue

=============================================================================
