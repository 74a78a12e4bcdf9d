----------------------------- MODULE SessionLock -----------------------------
(***************************************************************************)
(* The lock file of a chat session: src/session-lock.ts as src/cli-chat.ts *)
(* uses it.  Every chat process takes the lock of the session it opens and *)
(* releases it on exit; it may die at any point.                           *)
(*                                                                         *)
(* The functions are synchronous, but the processes are not: one action is *)
(* one system call on the locks directory.  Two calls are joined where no  *)
(* other process can tell: asking whether a pid is alive and unlinking the *)
(* lock it stands in (a dead process stays dead), and existsSync with the  *)
(* read that follows it (both failures end the function).                  *)
(*                                                                         *)
(* A pid stands for one process: the reuse of pids is left out.            *)
(*                                                                         *)
(* Nothing keeps processes from acquiring side by side, and then one may   *)
(* take another's lock away: contended, a history variable no step looks   *)
(* at, tells those processes whose acquire others were in the way of.      *)
(***************************************************************************)
EXTENDS Naturals

CONSTANTS
    Proc,           \* chat processes
    Session,        \* session ids, each with a lock file of its own
    NoFile,         \* there is no file, or the read failed
    Unreadable      \* an empty file: parseInt gives NaN

ASSUME NoFileAssumption     == NoFile \notin Proc
ASSUME UnreadableAssumption == Unreadable \notin Proc /\ Unreadable # NoFile

MAX_LOCK_ATTEMPTS == 2

VARIABLES
    pc,         \* where a process is
    wants,      \* the session a process opens
    creator,    \* session -> the process that created its lock file, or NoFile
    written,    \* the sessions whose lock file has its creator's pid in it
    entries,    \* the lock files a process's sweep has still to visit
    at,         \* the lock file a sweep is looking at
    found,      \* what a process read from the lock file it is looking at
    attempt,    \* the attempts of acquireSessionLock a process has begun
    contended   \* history: a rival was at work during the process's acquire

vars == <<pc, wants, creator, written, entries, at, found, attempt, contended>>

Acquiring == {"sweep", "sweepCheck", "create", "write", "read", "check", "unlinkAgain"}
Places    == {"new", "chat", "unlinkOwn", "refused", "gone", "dead"} \cup Acquiring

TypeOK ==
    /\ pc \in [Proc -> Places]
    /\ wants \in [Proc -> Session]
    /\ creator \in [Session -> Proc \cup {NoFile}]
    /\ written \in SUBSET Session
    /\ entries \in [Proc -> SUBSET Session]
    /\ at \in [Proc -> Session]
    /\ found \in [Proc -> Proc \cup {NoFile, Unreadable}]
    /\ attempt \in [Proc -> 0..MAX_LOCK_ATTEMPTS]
    /\ contended \in [Proc -> BOOLEAN]

Init ==
    /\ pc = [p \in Proc |-> "new"]
    /\ wants \in [Proc -> Session]
    /\ creator = [s \in Session |-> NoFile]
    /\ written = {}
    /\ entries = [p \in Proc |-> {}]
    /\ at = wants
    /\ found = [p \in Proc |-> NoFile]
    /\ attempt = [p \in Proc |-> 0]
    /\ contended = [p \in Proc |-> FALSE]

-----------------------------------------------------------------------------
(* The lock files *)

Files == {s \in Session : creator[s] # NoFile}

\* readFileSync and parseInt.
Contents(s) ==
    IF s \in Files /\ s \notin written THEN Unreadable ELSE creator[s]

\* unlinkSync; its failure is ignored wherever it is called.
Unlink(s) ==
    /\ creator' = [creator EXCEPT ![s] = NoFile]
    /\ written' = written \ {s}

\* isProcessAlive of the pid in a lock, false when there is none.
AliveUnseen(q) == FALSE

Alive(q) == q \in Proc /\ pc[q] # "dead"

Goto(p, place) == pc' = [pc EXCEPT ![p] = place]

-----------------------------------------------------------------------------
(* History *)

\* Who may remove a lock that is not its own: a process inside
\* acquireSessionLock, and one that releases although its acquire was contended.
Rival(p) == pc[p] \in Acquiring \/ (pc[p] = "unlinkOwn" /\ contended[p])

\* Those whose acquire a new rival is in the way of.
Disturbed(p) == contended[p] \/ pc[p] \in Acquiring

-----------------------------------------------------------------------------
(* acquireSessionLock *)

AfterSweep(left) == IF left = {} THEN "create" ELSE "sweep"

\* sweepStaleSessionLocks reads the directory.
Enter(p) ==
    /\ pc[p] = "new"
    /\ entries' = [entries EXCEPT ![p] = Files]
    /\ Goto(p, AfterSweep(Files))
    /\ contended' = [q \in Proc |-> IF q = p THEN \E r \in Proc : Rival(r)
                                    ELSE Disturbed(q)]
    /\ UNCHANGED <<wants, creator, written, at, found, attempt>>

SweepRead(p) ==
    /\ pc[p] = "sweep"
    /\ \E s \in entries[p] :
        /\ at' = [at EXCEPT ![p] = s]
        /\ found' = [found EXCEPT ![p] = Contents(s)]
        /\ entries' = [entries EXCEPT ![p] = @ \ {s}]
    /\ Goto(p, "sweepCheck")
    /\ UNCHANGED <<wants, creator, written, attempt, contended>>

SweepCheck(p) ==
    /\ pc[p] = "sweepCheck"
    /\ IF Alive(found[p]) THEN UNCHANGED <<creator, written>> ELSE Unlink(at[p])
    /\ Goto(p, AfterSweep(entries[p]))
    /\ UNCHANGED <<wants, entries, at, found, attempt, contended>>

\* openSync with "wx".
Create(p) ==
    /\ pc[p] = "create"
    /\ attempt' = [attempt EXCEPT ![p] = @ + 1]
    /\ IF wants[p] \in Files
       THEN Goto(p, "read") /\ UNCHANGED creator
       ELSE Goto(p, "write") /\ creator' = [creator EXCEPT ![wants[p]] = p]
    /\ UNCHANGED <<wants, written, entries, at, found, contended>>

\* The pid goes to the file that was opened, which may have lost its name.
Write(p) ==
    /\ pc[p] = "write"
    /\ written' = written \cup {s \in {wants[p]} : creator[s] = p}
    /\ Goto(p, "chat")
    /\ UNCHANGED <<wants, creator, entries, at, found, attempt, contended>>

\* The lock exists: who owns it?  A read that fails goes to the catch block.
ReadOwner(p) ==
    /\ pc[p] = "read"
    /\ found' = [found EXCEPT ![p] = Contents(wants[p])]
    /\ Goto(p, IF wants[p] \in Files THEN "check" ELSE "unlinkAgain")
    /\ UNCHANGED <<wants, creator, written, entries, at, attempt, contended>>

\* The end of an attempt that did not get the lock.
RetryNever(p) == "refused"

Retry(p) == IF attempt[p] < MAX_LOCK_ATTEMPTS THEN "create" ELSE "refused"

Refuse(p) ==
    /\ pc[p] = "check"
    /\ found[p] # p /\ Alive(found[p])
    /\ Goto(p, "refused")
    /\ UNCHANGED <<wants, creator, written, entries, at, found, attempt, contended>>

\* The lock is stale.  Unlinking a file that is gone throws as well.
Reclaim(p) ==
    /\ pc[p] = "check"
    /\ ~(found[p] # p /\ Alive(found[p]))
    /\ Unlink(wants[p])
    /\ Goto(p, IF wants[p] \in Files THEN Retry(p) ELSE "unlinkAgain")
    /\ UNCHANGED <<wants, entries, at, found, attempt, contended>>

\* The catch block.
UnlinkAgain(p) ==
    /\ pc[p] = "unlinkAgain"
    /\ Unlink(wants[p])
    /\ Goto(p, Retry(p))
    /\ UNCHANGED <<wants, entries, at, found, attempt, contended>>

-----------------------------------------------------------------------------
(* releaseSessionLock, and the end of a process *)

ReleaseRead(p) ==
    /\ pc[p] = "chat"
    /\ IF Contents(wants[p]) = p
       THEN /\ Goto(p, "unlinkOwn")
            /\ contended' = [q \in Proc |-> IF contended[p] THEN Disturbed(q)
                                            ELSE contended[q]]
       ELSE Goto(p, "gone") /\ UNCHANGED contended
    /\ UNCHANGED <<wants, creator, written, entries, at, found, attempt>>

UnlinkOwn(p) ==
    /\ pc[p] = "unlinkOwn"
    /\ Unlink(wants[p])
    /\ Goto(p, "gone")
    /\ UNCHANGED <<wants, entries, at, found, attempt, contended>>

\* The process ends: after its work, or killed in the middle of it.
Die(p) ==
    /\ pc[p] \notin {"new", "dead"}
    /\ Goto(p, "dead")
    /\ UNCHANGED <<wants, creator, written, entries, at, found, attempt, contended>>

Step(p) ==
    \/ Enter(p) \/ SweepRead(p) \/ SweepCheck(p)
    \/ Create(p) \/ Write(p)
    \/ ReadOwner(p) \/ Refuse(p) \/ Reclaim(p) \/ UnlinkAgain(p)
    \/ ReleaseRead(p) \/ UnlinkOwn(p)
    \/ Die(p)

Next == \E p \in Proc : Step(p)

Spec == Init /\ [][Next]_vars

-----------------------------------------------------------------------------
(* Properties *)

\* docs/sessions.md:22 has the lock prevent concurrent modification.  Two
\* processes that acquire side by side can both get it, so this is not kept
\* (README, section 4).
MutualExclusion ==
    \A p, q \in Proc :
        (pc[p] = "chat" /\ pc[q] = "chat" /\ wants[p] = wants[q]) => p = q

\* What the lock does guarantee: a live process that nobody was in the way of
\* while it acquired keeps its lock, whatever the others do afterwards, race one
\* another for and wherever they die; who chats in its session nonetheless got
\* in by a contended acquire.
LockStands ==
    \A p \in Proc : pc[p] = "chat" /\ ~contended[p] =>
        /\ Contents(wants[p]) = p
        /\ \A q \in Proc \ {p} :
            pc[q] = "chat" /\ wants[q] = wants[p] => contended[q]

\* A crash never locks a session for good: a process is refused because of a
\* live process that took the lock of the session properly, and its attempts run
\* out only when others were in the way.
RefusedBehindOwner ==
    [][\A p \in Proc :
        (pc[p] # "refused" /\ pc'[p] = "refused") =>
            \/ contended[p] /\ attempt[p] = MAX_LOCK_ATTEMPTS
            \/ \E q \in Proc \ {p} :
                wants[q] = wants[p] /\ pc[q] \in {"chat", "unlinkOwn", "gone"}]_vars

=============================================================================
