------------------------------ MODULE DaemonStart ------------------------------
(***************************************************************************)
(* Starting, stopping and restarting the daemon of one port                *)
(* (server-daemon.ts, daemon-ops.ts, cli-daemon.ts).  Clients share two    *)
(* files, the server lock (whose daemon has the port) and the startup lock *)
(* (who is starting one), and probe the port.  One action is one file      *)
(* operation, request, signal or deadline of one client; a poll that       *)
(* changes nothing is no step.                                             *)
(*                                                                         *)
(* The daemon a client spawns is named by the client; Old is one that was  *)
(* there before.  A pid stands for one process.  All builds speak one      *)
(* protocol, so whoever answers a probe is healthy; one process can have   *)
(* the port.                                                               *)
(***************************************************************************)
EXTENDS Integers, FiniteSets

CONSTANTS
    Client, Old, Nobody,
    Build, BuildOf,     \* the build a client, and the daemon it spawns, is of
    Foreign,            \* daemons that do not accept the clients' key
    MaxStartupRetries,  \* MAX_STARTUP_RETRIES
    MaxSlow             \* bound: requests that get no answer in time

Daemon == Client \cup {Old}
Command == {"start", "stop", "restart"}

ASSUME ConstantsAssumption ==
    /\ IsFiniteSet(Client) /\ Old \notin Client /\ Nobody \notin Daemon
    /\ BuildOf \in [Daemon -> Build] /\ Foreign \subseteq Daemon
    /\ MaxStartupRetries \in Nat /\ MaxSlow \in Nat

VARIABLES
    daemon,     \* state of each daemon process
    slow,       \* requests that got no answer
    lock,       \* the server lock: the pid in it
    starting,   \* the startup lock: who made it, and whether the pid is in it
    pc,         \* where each client is
    me          \* its local variables

vars == <<daemon, slow, lock, starting, pc, me>>

NoStart == [by |-> Nobody, written |-> FALSE]
Fresh == [command |-> "start", force |-> FALSE, result |-> "served",
          seen |-> Nobody, attempt |-> 0, retryCount |-> 0]
Ended == {"served", "failed", "stopped", "notRunning", "refused", "unresponsive", "died"}
Starting == {"write", "spawn", "exited", "healthy", "writeLock", "kill", "reap", "release"}
Places == {"new", "readLock", "sweepLock", "reusable", "listening", "claim", "readStale",
           "clearStale", "wait", "waitStale", "clearOld", "recheck", "retry",
           "stop", "knock", "ask", "askAgain", "awaitExit", "signal", "awaitProc",
           "reread", "remove", "status", "statusProbe", "statusAgain"} \cup Starting \cup Ended

TypeOK ==
    /\ daemon \in [Daemon -> {"none", "booting", "listening", "closing", "closed", "dead"}]
    /\ slow \in 0 .. MaxSlow
    /\ lock \in Daemon \cup {Nobody}
    /\ starting \in [by : Client \cup {Nobody}, written : BOOLEAN]
    /\ pc \in [Client -> Places]
    /\ me \in [Client -> [command : Command,
                          force : BOOLEAN,                    \* --force
                          result : Ended,                     \* what it will return
                          seen : Daemon \cup {Nobody},        \* the pid it read from a lock
                          attempt : 0 .. 1,                   \* of tryAcquireStartupLock
                          retryCount : 0 .. MaxStartupRetries]]

Init ==
    /\ daemon \in [Daemon -> {"none", "listening"}]
    /\ \A c \in Client : daemon[c] = "none"
    /\ lock \in {Nobody} \cup {d \in {Old} : daemon[Old] = "listening"}
    /\ slow = 0 /\ starting = NoStart
    /\ pc = [c \in Client |-> "new"]
    /\ me \in [Client -> {[Fresh EXCEPT !.command = x[1], !.force = x[2]] :
                            x \in Command \X BOOLEAN \ {<<"start", TRUE>>}}]

Alive(d) == daemon[d] \in {"booting", "listening", "closing", "closed"}
Holder == {d \in Daemon : daemon[d] \in {"listening", "closing"}}
Healthy == Daemon \ Foreign     \* isServerHealthy
Mine(c) == {d \in Healthy : BuildOf[d] = BuildOf[c]}     \* isServerReusable

At(c, place) == pc[c] = place

\* The client goes to a place with the local variables l, of which none is left
\* when its command ends.
Move(c, place, l) ==
    /\ pc' = [pc EXCEPT ![c] = place]
    /\ me' = [me EXCEPT ![c] = IF place \in Ended THEN Fresh ELSE l]
Goto(c, place) == Move(c, place, me[c])
Read(c, place, pid) == Move(c, place, [me[c] EXCEPT !.seen = pid])
Returning(c, r) == [me[c] EXCEPT !.result = r]

\* A request to the port: a daemon of D answers, or none does, because there is
\* none or because the one there takes too long.
Answered(D) == Holder \cap D # {} /\ UNCHANGED slow
Unanswered(D) ==
    \/ Holder \cap D = {} /\ UNCHANGED slow
    \/ Holder \cap D # {} /\ slow < MaxSlow /\ slow' = slow + 1

-----------------------------------------------------------------------------
(* ensureLocalServer *)

Begin(c) ==
    /\ At(c, "new")
    /\ Goto(c, IF me[c].command = "start" THEN "readLock" ELSE "stop")
    /\ UNCHANGED <<daemon, slow, lock, starting>>

ReadLock(c) ==
    /\ At(c, "readLock") /\ Read(c, "sweepLock", lock)
    /\ UNCHANGED <<daemon, slow, lock, starting>>

SeenDead(c) == me[c].seen # Nobody /\ ~Alive(me[c].seen)

\* The lock of a dead daemon is removed, whatever it says by then.
SweepLock(c) ==
    /\ At(c, "sweepLock")
    /\ lock' = IF SeenDead(c) THEN Nobody ELSE lock
    /\ Read(c, "reusable", Nobody)
    /\ UNCHANGED <<daemon, slow, starting>>

\* isServerReusable, then isServerListening: what listens and is not to be used
\* is asked to stop.
Probe(c) ==
    /\ \/ At(c, "reusable") /\ Answered(Mine(c)) /\ Goto(c, "served")
       \/ At(c, "reusable") /\ Unanswered(Mine(c)) /\ Goto(c, "listening")
       \/ At(c, "listening") /\ Answered(Daemon) /\ Goto(c, "stop")
       \/ At(c, "listening") /\ Unanswered(Daemon) /\ Goto(c, "claim")
    /\ UNCHANGED <<daemon, lock, starting>>

\* tryAcquireStartupLock: an exclusive create, and the pid written after it.
Claim(c) ==
    /\ At(c, "claim")
    /\ IF starting = NoStart
       THEN /\ starting' = [by |-> c, written |-> FALSE]
            /\ Move(c, "write", [me[c] EXCEPT !.attempt = 0])
       ELSE Goto(c, "readStale") /\ UNCHANGED starting
    /\ UNCHANGED <<daemon, slow, lock>>

WritePid(c) ==
    /\ At(c, "write")
    /\ starting' = IF starting.by = c THEN [starting EXCEPT !.written = TRUE] ELSE starting
    /\ Goto(c, "spawn")
    /\ UNCHANGED <<daemon, slow, lock>>

\* clearStaleStartupLock reads the lock; a lock without a readable pid counts as
\* none.  It is called here and, with an age no living owner reaches, from the wait.
ReadStale(c) ==
    /\ pc[c] \in {"readStale", "waitStale"}
    /\ Read(c, IF At(c, "readStale") THEN "clearStale" ELSE "clearOld",
            IF starting.written THEN starting.by ELSE Nobody)
    /\ UNCHANGED <<daemon, slow, lock, starting>>

OwnerLives(c) == me[c].seen \in Client /\ pc[me[c].seen] # "died"

\* ... and removes it, unless its owner lives or there is no file, and whatever
\* it says by then.
ClearStale(c) ==
    /\ pc[c] \in {"clearStale", "clearOld"}
    /\ LET clears == ~OwnerLives(c) /\ (me[c].seen = Nobody => starting # NoStart)
           again == clears /\ At(c, "clearStale") /\ me[c].attempt = 0
       IN  /\ starting' = IF clears THEN NoStart ELSE starting
           /\ Move(c, IF again THEN "claim"
                      ELSE IF clears /\ At(c, "clearOld") THEN "retry" ELSE "wait",
                   [me[c] EXCEPT !.seen = Nobody, !.attempt = IF again THEN 1 ELSE 0])
    /\ UNCHANGED <<daemon, slow, lock>>

\* waitForHealthyServerOrStaleStartupLock: until a daemon answers, the lock turns
\* out stale, or SERVER_START_TIMEOUT_MS has passed; a daemon of another build is
\* not good enough.
Wait(c) ==
    /\ \/ At(c, "wait") /\ Answered(Healthy) /\ Goto(c, "recheck")
       \/ At(c, "wait") /\ Unanswered(Healthy) /\ Goto(c, "waitStale")
       \/ At(c, "recheck") /\ Answered(Mine(c)) /\ Goto(c, "served")
       \/ At(c, "recheck") /\ Unanswered(Mine(c)) /\ Goto(c, "retry")
    /\ UNCHANGED <<daemon, lock, starting>>

ExpiredNever == FALSE
Expired == TRUE     \* a deadline may have passed at any time

GiveUpWaiting(c) ==
    /\ At(c, "wait") /\ Expired /\ Goto(c, "failed")
    /\ UNCHANGED <<daemon, slow, lock, starting>>

MayRetry(c) == me[c].retryCount < MaxStartupRetries

Retry(c) ==
    /\ At(c, "retry")
    /\ IF MayRetry(c)
       THEN Move(c, "readLock", [me[c] EXCEPT !.retryCount = @ + 1])
       ELSE Goto(c, "failed")
    /\ UNCHANGED <<daemon, slow, lock, starting>>

\* The owner of the startup lock spawns a daemon; nobody looks again whether one
\* is there by now.
Spawn(c) ==
    /\ At(c, "spawn")
    /\ \/ daemon' = [daemon EXCEPT ![c] = "booting"] /\ Goto(c, "healthy")
       \/ UNCHANGED daemon /\ Move(c, "release", Returning(c, "failed"))
    /\ UNCHANGED <<slow, lock, starting>>

\* waitForHealthyServerOrSpawnExit: has my process exited?  Does a daemon, mine or
\* not, answer?
AwaitHealthy(c) ==
    /\ \/ At(c, "exited") /\ daemon[c] # "dead" /\ Goto(c, "healthy") /\ UNCHANGED slow
       \/ At(c, "exited") /\ daemon[c] = "dead" /\ Goto(c, "kill") /\ UNCHANGED slow
       \/ At(c, "healthy") /\ Answered(Healthy) /\ Goto(c, "writeLock")
       \/ At(c, "healthy") /\ Unanswered(Healthy) /\ Goto(c, "exited")
    /\ UNCHANGED <<daemon, lock, starting>>

GiveUpStarting(c) ==
    /\ At(c, "exited") /\ Expired /\ Goto(c, "kill")
    /\ UNCHANGED <<daemon, slow, lock, starting>>

WriteServerLock(c) ==
    /\ At(c, "writeLock")
    /\ lock' = c
    /\ Move(c, "release", Returning(c, "served"))
    /\ UNCHANGED <<daemon, slow, starting>>

\* SIGTERM: the handler, if it is installed yet, stops the server.
Terminated(d) ==
    daemon' = [daemon EXCEPT ![d] = CASE @ = "booting" -> "dead"
                                      [] @ \in {"listening", "closing"} -> "closed"
                                      [] OTHER -> @]

KillStarted(c) ==
    /\ At(c, "kill")
    /\ Terminated(c) /\ Goto(c, "reap")
    /\ UNCHANGED <<slow, lock, starting>>

ReapedAtOnce(c) == TRUE
Reaped(c) == ~Alive(c)

Reap(c) ==
    /\ At(c, "reap") /\ Reaped(c)
    /\ Move(c, "release", Returning(c, "failed"))
    /\ UNCHANGED <<daemon, slow, lock, starting>>

\* releaseStartupLock removes the lock, whoever made it.
Release(c) ==
    /\ At(c, "release")
    /\ starting' = NoStart
    /\ Goto(c, me[c].result)
    /\ UNCHANGED <<daemon, slow, lock>>

-----------------------------------------------------------------------------
(* stopLocalServer *)

\* What follows a stop: ensureLocalServer goes on, restartMode starts, asks for the
\* status or ends, stopMode ends.
After(c, r) ==
    LET fresh == [me[c] EXCEPT !.seen = Nobody, !.result = "served"]
    IN  CASE me[c].command = "start" ->
               Move(c, IF r \in {"refused", "unresponsive"} THEN "served" ELSE "claim", fresh)
          [] me[c].command = "restart" /\ r = "stopped" ->
               Move(c, "readLock", Fresh)
          [] me[c].command = "restart" /\ r = "notRunning" -> Move(c, "status", fresh)
          [] OTHER -> Goto(c, r)

Forced(c) == me[c].force /\ me[c].command # "start"

StopReadsLock(c) ==
    /\ At(c, "stop") /\ Read(c, "knock", lock)
    /\ UNCHANGED <<daemon, slow, lock, starting>>

Knock(c) ==
    /\ At(c, "knock")
    /\ \/ Answered(Daemon) /\ Move(c, "ask", Returning(c, "stopped"))
       \/ Unanswered(Daemon) /\ Move(c, "signal", Returning(c, "notRunning"))
    /\ UNCHANGED <<daemon, lock, starting>>

\* The daemon that has the port decides (shutdownServer): it refuses if it has live
\* work, which comes and goes, unless it is forced.
Agrees(d) == daemon' = [daemon EXCEPT ![d] = "closing"]

Ask(c) ==
    /\ At(c, "ask")
    /\ \/ \E d \in Holder \cap Foreign : Goto(c, "signal") /\ UNCHANGED <<daemon, slow>>
       \/ /\ ~Forced(c) /\ Holder \ Foreign # {}
          /\ After(c, "refused") /\ UNCHANGED <<daemon, slow>>
       \/ \E d \in Holder \ Foreign :
             Agrees(d) /\ Goto(c, "awaitExit") /\ UNCHANGED slow
    /\ UNCHANGED <<lock, starting>>

\* No answer, though the request may have been heard: has the port become free?
AskInVain(c) ==
    /\ At(c, "ask") /\ Unanswered(Daemon) /\ Goto(c, "askAgain")
    /\ \/ UNCHANGED daemon
       \/ \E d \in Holder \ Foreign : Agrees(d)
    /\ UNCHANGED <<lock, starting>>

AskAgain(c) ==
    /\ At(c, "askAgain")
    /\ \/ Answered(Daemon) /\ Goto(c, "signal")
       \/ Unanswered(Daemon) /\ Goto(c, "awaitExit")
    /\ UNCHANGED <<daemon, lock, starting>>

\* waitForServerToExit; a replacement on the port looks like the daemon that stays.
AwaitExit(c) ==
    /\ At(c, "awaitExit")
    /\ \/ Unanswered(Daemon) /\ Goto(c, "reread")
       \/ Answered(Daemon) /\ Goto(c, "signal")
    /\ UNCHANGED <<daemon, lock, starting>>

Signal(c) ==
    /\ At(c, "signal")
    /\ \/ /\ me[c].seen = Nobody /\ UNCHANGED daemon
          /\ After(c, IF me[c].result = "notRunning" THEN "notRunning" ELSE "unresponsive")
       \/ SeenDead(c) /\ UNCHANGED daemon /\ Goto(c, "reread")
       \/ /\ me[c].seen # Nobody /\ ~SeenDead(c) /\ Terminated(me[c].seen)
          /\ Move(c, "awaitProc", Returning(c, "stopped"))
    /\ UNCHANGED <<slow, lock, starting>>

AwaitProc(c) ==
    /\ At(c, "awaitProc")
    /\ IF SeenDead(c) THEN Goto(c, "reread") ELSE After(c, "unresponsive")
    /\ UNCHANGED <<daemon, slow, lock, starting>>

\* removeOwnedServerLock: another daemon's lock stays, as far as one can tell.
Reread(c) ==
    /\ At(c, "reread")
    /\ IF me[c].seen = Nobody \/ lock \notin {Nobody, me[c].seen}
       THEN After(c, me[c].result)
       ELSE Goto(c, "remove")
    /\ UNCHANGED <<daemon, slow, lock, starting>>

Remove(c) ==
    /\ At(c, "remove")
    /\ lock' = Nobody /\ After(c, me[c].result)
    /\ UNCHANGED <<daemon, slow, starting>>

\* localServerStatus, for a restart that found nothing to stop.  A lock whose daemon
\* is dead or does not answer is removed, and the port is probed once more.
StatusReadsLock(c) ==
    /\ At(c, "status")
    /\ Read(c, IF lock = Nobody THEN "statusAgain" ELSE "statusProbe", lock)
    /\ UNCHANGED <<daemon, slow, lock, starting>>

StatusProbe(c) ==
    /\ At(c, "statusProbe")
    /\ \/ ~SeenDead(c) /\ Answered(Healthy) /\ Goto(c, "unresponsive") /\ UNCHANGED lock
       \/ ~SeenDead(c) /\ Unanswered(Healthy) /\ Goto(c, "statusAgain") /\ lock' = Nobody
       \/ SeenDead(c) /\ UNCHANGED slow /\ Goto(c, "statusAgain") /\ lock' = Nobody
    /\ UNCHANGED <<daemon, starting>>

StatusAgain(c) ==
    /\ At(c, "statusAgain")
    /\ \/ Answered(Healthy) /\ Goto(c, "unresponsive")
       \/ Unanswered(Healthy) /\ Move(c, "readLock", Fresh)
    /\ UNCHANGED <<daemon, lock, starting>>

-----------------------------------------------------------------------------
(* Daemons, and the end of clients *)

Boot(d) ==
    /\ daemon[d] = "booting"
    /\ daemon' = [daemon EXCEPT ![d] = IF Holder = {} THEN "listening" ELSE "dead"]
    /\ UNCHANGED <<slow, lock, starting, pc, me>>

\* server.stop, in a timer callback of the answer, and the end of the process.
StopServer(d) ==
    /\ daemon[d] = "closing"
    /\ daemon' = [daemon EXCEPT ![d] = "closed"]
    /\ UNCHANGED <<slow, lock, starting, pc, me>>

Exit(d) ==
    /\ daemon[d] = "closed"
    /\ daemon' = [daemon EXCEPT ![d] = "dead"]
    /\ UNCHANGED <<slow, lock, starting, pc, me>>

Crash(d) ==
    /\ Alive(d)
    /\ daemon' = [daemon EXCEPT ![d] = "dead"]
    /\ UNCHANGED <<slow, lock, starting, pc, me>>

Die(c) ==
    /\ pc[c] \notin Ended
    /\ Goto(c, "died")
    /\ UNCHANGED <<daemon, slow, lock, starting>>

Step(c) ==
    \/ ReadLock(c) \/ SweepLock(c) \/ Probe(c) \/ Claim(c) \/ WritePid(c)
    \/ ReadStale(c) \/ ClearStale(c) \/ Wait(c) \/ Retry(c) \/ Spawn(c)
    \/ AwaitHealthy(c) \/ WriteServerLock(c) \/ KillStarted(c) \/ Reap(c) \/ Release(c)
    \/ StopReadsLock(c) \/ Knock(c) \/ Ask(c) \/ AskInVain(c) \/ AskAgain(c)
    \/ AwaitExit(c) \/ Signal(c) \/ AwaitProc(c) \/ Reread(c) \/ Remove(c)
    \/ StatusReadsLock(c) \/ StatusProbe(c) \/ StatusAgain(c)
Deadline(c) == GiveUpWaiting(c) \/ GiveUpStarting(c)
DaemonStep(d) == Boot(d) \/ StopServer(d) \/ Exit(d) \/ Crash(d)

Next ==
    \/ \E c \in Client : Begin(c) \/ Step(c) \/ Deadline(c) \/ Die(c)
    \/ \E d \in Daemon : DaemonStep(d)

\* A client's code goes on while it lives, time passes, and a server that was
\* stopped stops and ends its process.
Fairness ==
    /\ \A c \in Client : WF_vars(Step(c)) /\ SF_vars(Deadline(c))
    /\ \A d \in Daemon : WF_vars(StopServer(d)) /\ WF_vars(Exit(d))

Spec == Init /\ [][Next]_vars /\ Fairness

-----------------------------------------------------------------------------
(* Properties *)

\* The startup lock is in nobody's way for longer than a start takes: who made it
\* is starting a daemon or is dead.  And a start that failed leaves no process of
\* its own behind.
StartCleansUp ==
    \A c \in Client :
        /\ starting.by = c => pc[c] \in Starting \cup {"died"}
        /\ pc[c] = "failed" => ~Alive(c)

\* Every command ends, whatever other clients do, die of, or leave behind.
CallsEnd == \A c \in Client : pc[c] # "new" ~> pc[c] \in Ended

\* docs/updates.md: "A client serves requests only through a daemon of its own
\* build", but for one that refuses to stop.
ServesOwnBuild ==
    [][\A c \in Client :
         At(c, "writeLock") /\ ~At(c, "writeLock")' /\ ~At(c, "died")'
         => Holder \subseteq Mine(c)]_vars

=============================================================================
