------------------------------ MODULE KeyedJobs ------------------------------
(***************************************************************************)
(* What a caller of the task queue (src/task-queue.ts) may rely on, with   *)
(* no promises and no map: jobs are numbered in the order they are         *)
(* submitted, and a job runs once every earlier job that shares a key with *)
(* it is over, whatever came of that job.  TaskQueue implements this.      *)
(***************************************************************************)
EXTENDS Naturals, Sequences

CONSTANTS
    Key,        \* the keys a job may name
    MaxJobs     \* bound on the jobs submitted

VARIABLES
    keysOf,     \* job -> its keys
    status      \* job -> "waiting", "running" or "over"

vars == <<keysOf, status>>

Job == DOMAIN keysOf

Init ==
    /\ keysOf = <<>>
    /\ status = <<>>

Submit(keys) ==
    /\ Len(keysOf) < MaxJobs
    /\ keysOf' = Append(keysOf, keys)
    /\ status' = Append(status, "waiting")

MayStart(j) ==
    \A i \in 1..(j - 1) : keysOf[i] \cap keysOf[j] # {} => status[i] = "over"

Begin(j) ==
    /\ j \in Job
    /\ status[j] = "waiting"
    /\ MayStart(j)
    /\ status' = [status EXCEPT ![j] = "running"]
    /\ UNCHANGED keysOf

End(j) ==
    /\ j \in Job
    /\ status[j] = "running"
    /\ status' = [status EXCEPT ![j] = "over"]
    /\ UNCHANGED keysOf

Next ==
    \/ \E keys \in SUBSET Key \ {{}} : Submit(keys)
    \/ \E j \in Job : Begin(j) \/ End(j)

\* A job that may start does, and a job that runs ends.
Spec == Init /\ [][Next]_vars /\ \A j \in 1..MaxJobs : WF_vars(Begin(j)) /\ WF_vars(End(j))

=============================================================================
