---------------------------- MODULE TaskContract ----------------------------
(***************************************************************************)
(* The task states of src/task-contract.ts and the transition table of     *)
(* src/task-registry.ts, with what a caller of the registry may rely on:   *)
(* which registry contents a batch of transitions can leave behind.        *)
(*                                                                         *)
(* A registry is a function from task ids to states; Absent stands for a   *)
(* task the registry holds no record of.  The time stamps and the session  *)
(* of a record are data that no transition looks at, except createdAt,     *)
(* which TaskRegistry models as an order.                                  *)
(***************************************************************************)
EXTENDS Integers, FiniteSets

CONSTANTS
    Task,       \* the task ids
    MaxTasks    \* TaskRegistry.maxTasks: records kept before old ones are evicted

ASSUME MaxTasksAssumption == MaxTasks \in Nat \ {0}

TerminalStates == {"completed", "failed", "cancelled"}
LiveStates     == {"accepted", "queued", "running"}
TaskStates     == LiveStates \cup TerminalStates
Absent         == "absent"

ALLOWED_TRANSITIONS ==
    [s \in TaskStates |->
        CASE s = "accepted" -> {"queued", "running", "cancelled"}
          [] s = "queued"   -> {"running", "cancelled"}
          [] s = "running"  -> {"completed", "failed", "cancelled"}
          [] OTHER          -> {}]

\* canTransitionTaskState: repeating the current state is always allowed.
CanTransition(from, to) == from = to \/ to \in ALLOWED_TRANSITIONS[from]

\* transitionTask creates the record it does not find, in whatever state is asked.
Accepts(st, t, s) == st[t] # Absent => CanTransition(st[t], s)

Known(st)      == {t \in Task : st[t] # Absent}
TerminalIn(st) == {t \in Task : st[t] \in TerminalStates}
LiveIn(st)     == {t \in Task : st[t] \in LiveStates}

\* The registry without the records in gone.
Without(st, gone) == [t \in Task |-> IF t \in gone THEN Absent ELSE st[t]]

-----------------------------------------------------------------------------
(***************************************************************************)
(* What callers may assume.  A caller asks for the states in upd, a        *)
(* function on some of the tasks.  Transitions the table forbids are       *)
(* dropped; afterwards the registry has evicted as many terminal records   *)
(* as it takes to be within MaxTasks, or all of them.  Which ones it       *)
(* evicts is left open here; TaskRegistry shows it takes the oldest.       *)
(***************************************************************************)
Only(t, s) == [x \in {t} |-> s]   \* one task asked to move

Moved(st, upd) ==
    [t \in Task |->
        IF t \in DOMAIN upd /\ Accepts(st, t, upd[t]) THEN upd[t] ELSE st[t]]

Overflow(st) == Cardinality(Known(st)) - MaxTasks

EvictionCount(st) ==
    IF Overflow(st) <= 0 THEN 0
    ELSE IF Overflow(st) <= Cardinality(TerminalIn(st)) THEN Overflow(st)
    ELSE Cardinality(TerminalIn(st))

Evictions(st) == {gone \in SUBSET TerminalIn(st) : Cardinality(gone) = EvictionCount(st)}

Transitioned(st, upd) ==
    {Without(Moved(st, upd), gone) : gone \in Evictions(Moved(st, upd))}

=============================================================================
