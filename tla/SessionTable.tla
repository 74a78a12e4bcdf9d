---------------------------- MODULE SessionTable -----------------------------
(***************************************************************************)
(* What a session store promises (src/session-contract.ts, SessionStore)   *)
(* to writers that share it: a table of sessions with one of them marked   *)
(* active.  A writer looks at the table and then replaces one entry, or    *)
(* the mark, of what it saw.  A look serves one write at most; it may find *)
(* nothing.                                                                *)
(***************************************************************************)
CONSTANTS
    Writer,     \* who writes to the table
    Session,    \* session ids
    Turn,       \* what a session's history is made of
    Missing     \* the table has no such session

VARIABLES
    table,      \* session id -> its turns, or Missing
    active,     \* the session to resume by default, or Missing
    seen        \* what a writer saw and has not used yet: one view or none

vars == <<table, active, seen>>

Init ==
    /\ table = [s \in Session |-> Missing]
    /\ active = Missing
    /\ seen = [w \in Writer |-> {}]

Nothing == [sessions |-> [s \in Session |-> Missing], active |-> Missing]

Look(w) ==
    /\ seen[w] = {}
    /\ \E view \in {[sessions |-> table, active |-> active], Nothing} :
        seen' = [seen EXCEPT ![w] = {view}]
    /\ UNCHANGED <<table, active>>

Forget(w) ==
    /\ seen' = [seen EXCEPT ![w] = {}]
    /\ UNCHANGED <<table, active>>

Save(w, s, turns) ==
    /\ \E view \in seen[w] :
        /\ table' = [view.sessions EXCEPT ![s] = turns]
        /\ active' = view.active
    /\ seen' = [seen EXCEPT ![w] = {}]

SetActive(w, s) ==
    /\ \E view \in seen[w] : table' = view.sessions
    /\ active' = s
    /\ seen' = [seen EXCEPT ![w] = {}]

Next ==
    \E w \in Writer :
        \/ Look(w) \/ Forget(w)
        \/ \E s \in Session :
            SetActive(w, s) \/ \E turns \in SUBSET Turn : Save(w, s, turns)

Spec == Init /\ [][Next]_vars

=============================================================================
