------------------------------ MODULE TaskQueue ------------------------------
(***************************************************************************)
(* The in-memory queue of src/task-queue.ts, which serialises the memory   *)
(* commits of src/lifecycle.ts: jobs that share a key never overlap.       *)
(*                                                                         *)
(* There is no queue in the code: queueByKey keeps, for each key, the      *)
(* promise of the job that was enqueued for it last, and a job awaits the  *)
(* promises it found there.  A job is known here by its number, which also *)
(* stands for its promise `queued`.  enqueueMany is synchronous, one       *)
(* action; the continuations (a job that starts, one that settles, the     *)
(* clean-up of the map) are microtasks, and other code may enqueue between *)
(* any two of them.                                                        *)
(***************************************************************************)
EXTENDS Naturals, Sequences

CONSTANTS
    Key,        \* session and scope keys of memoryCommitQueueKeys
    MaxJobs     \* bound on the jobs enqueued

ASSUME MaxJobsAssumption == MaxJobs \in Nat

VARIABLES
    keysOf,     \* job -> uniqueKeys
    waitsFor,   \* job -> the jobs whose promises it awaits in `previous`
    phase,      \* job -> how far its promises are
    queueByKey  \* key -> the last job enqueued, or NoJob

vars == <<keysOf, waitsFor, phase, queueByKey>>

NoJob    == 0
Job      == DOMAIN keysOf
Outcomes == {"fulfilled", "rejected"}
Phases   == {"pending", "running", "cleaned"} \cup Outcomes

Init ==
    /\ keysOf = <<>>
    /\ waitsFor = <<>>
    /\ phase = <<>>
    /\ queueByKey = [k \in Key |-> NoJob]

\* enqueueMany: the new job awaits the last job of each of its keys and then
\* takes their place.
AwaitedFirstKey(keys) ==
    LET k == CHOOSE k \in keys : TRUE IN {queueByKey[k]} \ {NoJob}

Awaited(keys) == {queueByKey[k] : k \in keys} \ {NoJob}

EnqueueMany(keys) ==
    LET j == Len(keysOf) + 1
    IN  /\ j <= MaxJobs
        /\ keysOf' = Append(keysOf, keys)
        /\ waitsFor' = Append(waitsFor, Awaited(keys))
        /\ phase' = Append(phase, "pending")
        /\ queueByKey' = [k \in Key |-> IF k \in keys THEN j ELSE queueByKey[k]]

\* Each awaited promise is caught: a job that failed is as good as one that
\* did not.
SettledOnlyIfFulfilled(i) == phase[i] \in {"fulfilled"}

Settled(i) == phase[i] \in Outcomes \cup {"cleaned"}

\* previous.then(job)
Start(j) ==
    /\ j \in Job
    /\ phase[j] = "pending"
    /\ \A i \in waitsFor[j] : Settled(i)
    /\ phase' = [phase EXCEPT ![j] = "running"]
    /\ UNCHANGED <<keysOf, waitsFor, queueByKey>>

\* The job's own promise settles, and `next` and `queued` with it.
Finish(j, outcome) ==
    /\ j \in Job
    /\ phase[j] = "running"
    /\ phase' = [phase EXCEPT ![j] = outcome]
    /\ UNCHANGED <<keysOf, waitsFor, queueByKey>>

\* The finally handler: only the keys nobody has taken over since are deleted.
DeletesAllKeys(j) == keysOf[j]

Deletes(j) == {k \in keysOf[j] : queueByKey[k] = j}

CleanUp(j) ==
    /\ j \in Job
    /\ phase[j] \in Outcomes
    /\ queueByKey' = [k \in Key |-> IF k \in Deletes(j) THEN NoJob ELSE queueByKey[k]]
    /\ phase' = [phase EXCEPT ![j] = "cleaned"]
    /\ UNCHANGED <<keysOf, waitsFor>>

Next ==
    \/ \E keys \in SUBSET Key \ {{}} : EnqueueMany(keys)
    \/ \E j \in Job : Start(j) \/ CleanUp(j)
    \/ \E j \in Job, outcome \in Outcomes : Finish(j, outcome)

\* Microtasks run, and every job settles: a memory commit consists of store
\* operations and provider calls that return or throw.
Fairness ==
    \A j \in 1..MaxJobs :
        /\ WF_vars(Start(j))
        /\ WF_vars(\E outcome \in Outcomes : Finish(j, outcome))
        /\ WF_vars(CleanUp(j))

Spec == Init /\ [][Next]_vars /\ Fairness

-----------------------------------------------------------------------------
(* Properties *)

TypeOK ==
    /\ keysOf \in Seq(SUBSET Key)
    /\ Len(keysOf) <= MaxJobs
    /\ waitsFor \in Seq(SUBSET (1..MaxJobs)) /\ Len(waitsFor) = Len(keysOf)
    /\ phase \in Seq(Phases) /\ Len(phase) = Len(keysOf)
    /\ queueByKey \in [Key -> Job \cup {NoJob}]

Share(i, j) == keysOf[i] \cap keysOf[j] # {}

\* Two commits that touch the same session, project or user memory never
\* overlap, although a job knows only the last job of each of its keys.
MutualExclusion ==
    \A i, j \in Job :
        i # j /\ phase[i] = "running" /\ phase[j] = "running" => ~Share(i, j)

\* The map neither loses nor keeps a job: a key leads to the last job enqueued
\* for it until that job has been cleaned up, and to nothing afterwards.
MapTracksLast ==
    \A k \in Key :
        LET users == {j \in Job : k \in keysOf[j]}
        IN  IF \E j \in users : phase[j] # "cleaned" /\ \A i \in users : i <= j
            THEN \A i \in users : i <= queueByKey[k] /\ queueByKey[k] \in users
            ELSE queueByKey[k] = NoJob

\* Why it is enough to await the last job of each key: that job is enqueued no
\* earlier than any other with the key, and it started only when they were over.
WaitsEarlier == \A j \in Job : \A m \in waitsFor[j] : m < j

WaitsReachBack ==
    \A i, j \in Job : i < j =>
        \A k \in keysOf[i] \cap keysOf[j] :
            Settled(i) \/ \E m \in waitsFor[j] : i <= m /\ k \in keysOf[m]

MapReachesBack ==
    \A i \in Job : \A k \in keysOf[i] :
        Settled(i) \/ (i <= queueByKey[k] /\ k \in keysOf[queueByKey[k]])

StartedInOrder ==
    \A i, j \in Job : i < j /\ Share(i, j) /\ phase[j] # "pending" => Settled(i)

ChainInv ==
    /\ TypeOK
    /\ WaitsEarlier
    /\ WaitsReachBack
    /\ MapReachesBack
    /\ StartedInOrder

StatusOf(p) ==
    CASE p = "pending" -> "waiting"
      [] p = "running" -> "running"
      [] OTHER         -> "over"

Jobs == INSTANCE KeyedJobs WITH status <- [j \in Job |-> StatusOf(phase[j])]

\* The promise chains implement the order of KeyedJobs: a job is held up only
\* by earlier jobs it shares a key with, by all of them, by their failure no
\* less than their success, and it does run in the end; two jobs never wait
\* for each other, however their key sets overlap.
RunsInKeyOrder == Jobs!Spec

=============================================================================
