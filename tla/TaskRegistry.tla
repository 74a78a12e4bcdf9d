---------------------------- MODULE TaskRegistry ----------------------------
(***************************************************************************)
(* The in-memory task registry of the daemon: src/task-registry.ts over    *)
(* the Map of src/task-store.ts.                                           *)
(*                                                                         *)
(* createdAt is modelled as the order it induces: createdBefore holds      *)
(* <<u, t>> when both have a record and u's was created first.  The Map    *)
(* iterates in the same order, so a tie between two time stamps is broken  *)
(* the way the strict comparison in pruneIfNeeded breaks it.               *)
(***************************************************************************)
EXTENDS TaskContract

VARIABLES
    taskState,      \* store: task id -> state, Absent when there is no record
    createdBefore   \* the order of the records' createdAt

registryVars == <<taskState, createdBefore>>

\* Types; in particular createdAt orders the records totally, although records
\* are evicted and created again under the same id, so that the oldest terminal
\* record is a single one.
RegistryTypeOK ==
    /\ taskState \in [Task -> TaskStates \cup {Absent}]
    /\ createdBefore \subseteq Known(taskState) \X Known(taskState)
    /\ \A t, u \in Known(taskState) :
        t # u => (<<t, u>> \in createdBefore <=> <<u, t>> \notin createdBefore)

RegistryInit ==
    /\ taskState = [t \in Task |-> Absent]
    /\ createdBefore = {}

-----------------------------------------------------------------------------
\* A record that is created now is newer than every record there is; a record
\* that exists keeps its createdAt.
CreatedBeforeWith(t) ==
    IF taskState[t] = Absent
    THEN createdBefore \cup {<<u, t>> : u \in Known(taskState)}
    ELSE createdBefore

\* pruneIfNeeded removes the oldest terminal record while the store is over
\* its size: a terminal record goes when fewer terminal records are older than
\* there are records too many.  The first two are variants with a bug.
PruneVictimsNewest(st, before) ==
    {t \in TerminalIn(st) :
        Cardinality({u \in TerminalIn(st) : <<t, u>> \in before}) < Overflow(st)}

PruneVictimsAll(st, before) == IF Overflow(st) > 0 THEN TerminalIn(st) ELSE {}

PruneVictims(st, before) ==
    {t \in TerminalIn(st) :
        Cardinality({u \in TerminalIn(st) : <<u, t>> \in before}) < Overflow(st)}

\* A variant with a bug: the pruning comes before the transition.
TransitionTaskPruneFirst(t, s) ==
    /\ Accepts(taskState, t, s)
    /\ LET before == CreatedBeforeWith(t)
           gone   == PruneVictims(taskState, createdBefore) \ {t}
       IN  /\ taskState' = Without([taskState EXCEPT ![t] = s], gone)
           /\ createdBefore' = {p \in before : p[1] \notin gone /\ p[2] \notin gone}

TransitionTask(t, s) ==
    /\ Accepts(taskState, t, s)
    /\ LET st     == [taskState EXCEPT ![t] = s]
           before == CreatedBeforeWith(t)
           gone   == PruneVictims(st, before)
       IN  /\ taskState' = Without(st, gone)
           /\ createdBefore' = {p \in before : p[1] \notin gone /\ p[2] \notin gone}

\* The daemon creates a record as accepted; an abort or a disconnect of a chat
\* whose record was evicted creates it again as cancelled.
Created == {"accepted", "cancelled"}

RegistryNext ==
    \E t \in Task, s \in TaskStates :
        /\ taskState[t] = Absent => s \in Created
        /\ TransitionTask(t, s)

RegistrySpec == RegistryInit /\ [][RegistryNext]_registryVars

-----------------------------------------------------------------------------
(* Properties *)

\* The memory of the registry is bounded by maxTasks and the live tasks: the
\* store is over its size only while every record is live, although it grows
\* past it with live tasks that finish in any order.
OverOnlyWhileLive ==
    Cardinality(Known(taskState)) > MaxTasks => TerminalIn(taskState) = {}

\* A transition evicts a finished task only if no finished task that stays is
\* older.
OldestEvictedFirst ==
    [][\A t, u \in Task :
        ( /\ t \in Known(taskState) /\ t \notin Known(taskState')
          /\ u \in TerminalIn(taskState) /\ u \in TerminalIn(taskState') )
        => <<t, u>> \in createdBefore]_registryVars

\* The registry does what its callers are told in TaskContract: each step is
\* one transition followed by a permitted eviction, and no live task is
\* forgotten.
ImplementsContract ==
    [][\E t \in Task, s \in TaskStates :
        taskState' \in Transitioned(taskState, Only(t, s))]_registryVars

=============================================================================
