------------------------------ MODULE ServerRpc ------------------------------
(***************************************************************************)
(* The daemon's WebSocket RPC layer: src/server-rpc.ts with the queue      *)
(* policy of src/rpc-queue.ts, the task registry it drives (TaskContract)  *)
(* and the shutdown decision of src/server-app.ts.                         *)
(*                                                                         *)
(* The server is one JavaScript thread, so a handler runs to completion    *)
(* and is one action here.  What interleaves is: the messages of several   *)
(* clients, the connections that open and close, the shutdown request, and *)
(* the end of each chat run (runChatRequest settles at some later time,    *)
(* even for a chat that was aborted meanwhile).  runChatRequest awaits     *)
(* nothing between reporting its outcome and settling, so the outcome and  *)
(* the clean-up that follows it are one action.                            *)
(***************************************************************************)
EXTENDS TaskContract, SequencesExt

CONSTANTS
    Conn,        \* WebSocket connections, each used for one socket
    Req,         \* request ids a client may use on a connection
    NoReq,       \* null
    NoTask,      \* no entry in a Map
    Session,     \* session ids a request may name
    NoSession,   \* marks a task id that was not handed out yet
    MaxQueued    \* RPC_MAX_QUEUED_TASKS_PER_CONNECTION

ASSUME FiniteAssumption    == IsFiniteSet(Conn) /\ IsFiniteSet(Task)
ASSUME NoReqAssumption     == NoReq \notin Req
ASSUME NoTaskAssumption    == NoTask \notin Task
ASSUME NoSessionAssumption == NoSession \notin Session
ASSUME MaxQueuedAssumption == MaxQueued \in Nat

VARIABLES
    conn,           \* "new", "open" or "closed"
    activeChats,    \* RpcConnectionState.activeChats: request id -> task
    runningChatId,  \* RpcConnectionState.runningChatId
    queue,          \* RpcConnectionState.queue, first in first out
    queuedCount,    \* rpcQueuedTaskCount, one for the process
    aborted,        \* tasks whose AbortController has fired
    runs,           \* chat runs that have not settled, with their closure
    taskState,      \* the task registry
    sessionOf,      \* the session each accepted request named
    view,           \* the last message the client got about a task
    daemon          \* the life of the process

vars == <<conn, activeChats, runningChatId, queue, queuedCount, aborted,
          runs, taskState, sessionOf, view, daemon>>

Entry == [id : Req, task : Task]              \* QueuedRpcChat
Run   == [conn : Conn, id : Req, task : Task]
Msgs  == {"none", "queued", "started", "done", "error", "aborted"}
View  == [msg : Msgs, pos : 0..MaxQueued]

Told(m)       == [msg |-> m, pos |-> 0]
QueuedAt(i)   == [msg |-> "queued", pos |-> i]
Outcomes      == {"completed", "failed"}

TypeOK ==
    /\ conn \in [Conn -> {"new", "open", "closed"}]
    /\ activeChats \in [Conn -> [Req -> Task \cup {NoTask}]]
    /\ runningChatId \in [Conn -> Req \cup {NoReq}]
    /\ queue \in [Conn -> Seq(Entry)]
    /\ queuedCount \in Nat
    /\ aborted \in SUBSET Task
    /\ runs \in SUBSET Run
    /\ taskState \in [Task -> TaskStates \cup {Absent}]
    /\ sessionOf \in [Task -> Session \cup {NoSession}]
    /\ view \in [Task -> View]
    /\ daemon \in {"serving", "stopping", "forced", "stopped"}

Init ==
    /\ conn = [c \in Conn |-> "new"]
    /\ activeChats = [c \in Conn |-> [r \in Req |-> NoTask]]
    /\ runningChatId = [c \in Conn |-> NoReq]
    /\ queue = [c \in Conn |-> <<>>]
    /\ queuedCount = 0
    /\ aborted = {}
    /\ runs = {}
    /\ taskState = [t \in Task |-> Absent]
    /\ sessionOf = [t \in Task |-> NoSession]
    /\ view = [t \in Task |-> Told("none")]
    /\ daemon = "serving"

-----------------------------------------------------------------------------
(* Helpers *)

Open == {c \in Conn : conn[c] = "open"}

QueuedTasks(q) == {q[i].task : i \in 1..Len(q)}
\* The places taken in the queues of some connections.
Waiting(S) == UNION {{<<c, i>> : i \in 1..Len(queue[c])} : c \in S}

ActiveTasks(c) == {activeChats[c][r] : r \in Req} \ {NoTask}

\* queuePositionUpdates: each entry of q is sent its 1-based position.
WithPositionsStale(v, q) == v

WithPositions(v, q) ==
    [t \in Task |-> IF t \in QueuedTasks(q)
                    THEN QueuedAt(CHOOSE i \in 1..Len(q) : q[i].task = t)
                    ELSE v[t]]

\* Math.max(0, rpcQueuedTaskCount - n)
MinusForgotten(count, n) == count

Minus(count, n) == IF n <= count THEN count - n ELSE 0

\* removeQueuedChatById splices the entry out of the array.
WithoutEntry(q, i) == RemoveAt(q, i)

\* dequeueNextQueuedChat shifts entries until one is not aborted: what it
\* returns is entry i of the queue, or none for i = Len(q) + 1.
DequeueNothing(q) == Len(q) + 1

DequeueLast(q) == IF q = <<>> THEN 1 ELSE Len(q)

DequeueIndex(q) ==
    IF \E i \in 1..Len(q) : q[i].task \notin aborted
    THEN CHOOSE i \in 1..Len(q) :
            /\ q[i].task \notin aborted
            /\ \A j \in 1..(i - 1) : q[j].task \in aborted
    ELSE Len(q) + 1

-----------------------------------------------------------------------------
(* Connections and requests *)

\* upgradeToRpc: an authorised upgrade starts with empty connection state.
Connect(c) ==
    /\ daemon # "stopped"
    /\ conn[c] = "new"
    /\ conn' = [conn EXCEPT ![c] = "open"]
    /\ UNCHANGED <<activeChats, runningChatId, queue, queuedCount, aborted,
                   runs, taskState, sessionOf, view, daemon>>

\* The first check of handleChatStart.  The first is a variant with a bug.
InUseActive(c, r) == activeChats[c][r] # NoTask

InUse(c, r) ==
    \/ activeChats[c][r] # NoTask
    \/ \E i \in 1..Len(queue[c]) : queue[c][i].id = r

\* nextTaskId: an id nobody has; it does not matter which, so one is fixed.
Unused == {t \in Task : sessionOf[t] = NoSession}

\* A request that passes handleChatStart's checks gets a task id.
AcceptRequest(c, r, s, t) ==
    /\ conn[c] = "open"
    /\ ~InUse(c, r)
    /\ t \in Unused
    /\ t = CHOOSE x \in Unused : TRUE
    /\ sessionOf' = [sessionOf EXCEPT ![t] = s]

\* onStart's choice between starting a chat and making it wait.
MustWaitBehindOthers(c) == queue[c] # <<>>

MustWait(c) == runningChatId[c] # NoReq

\* startChat up to the point where the run awaits: the run's closure keeps the
\* connection, the request id and the task.  activeChats' and view' are stated
\* by the caller, which also has other changes to make to them.
ChatStartNow(c, r, s, t) ==
    /\ AcceptRequest(c, r, s, t)
    /\ ~MustWait(c)
    /\ taskState' \in Transitioned(taskState, Only(t, "running"))
    /\ runningChatId' = [runningChatId EXCEPT ![c] = r]
    /\ activeChats' = [activeChats EXCEPT ![c][r] = t]
    /\ runs' = runs \cup {[conn |-> c, id |-> r, task |-> t]}
    /\ view' = [view EXCEPT ![t] = Told("started")]
    /\ UNCHANGED <<conn, queue, queuedCount, aborted, daemon>>

\* The bound onStart puts on the queue.
QueueFull(q) == Len(q) >= MaxQueued

\* onStart: behind a running chat a request waits, or is rejected (no change)
\* when the queue is full.
ChatStartQueued(c, r, s, t) ==
    /\ AcceptRequest(c, r, s, t)
    /\ MustWait(c)
    /\ ~QueueFull(queue[c])
    /\ taskState' \in Transitioned(taskState, Only(t, "queued"))
    /\ queue' = [queue EXCEPT ![c] = Append(@, [id |-> r, task |-> t])]
    /\ queuedCount' = queuedCount + 1
    /\ view' = [view EXCEPT ![t] = QueuedAt(Len(queue[c]) + 1)]
    /\ UNCHANGED <<conn, activeChats, runningChatId, aborted, runs, daemon>>

\* handleChatAbort, first branch: the chat is active, possibly aborted before.
AbortActive(c, r) ==
    /\ conn[c] = "open"
    /\ activeChats[c][r] # NoTask
    /\ LET t == activeChats[c][r]
       IN  /\ aborted' = aborted \cup {t}
           /\ taskState' \in Transitioned(taskState, Only(t, "cancelled"))
           /\ view' = [view EXCEPT ![t] = Told("aborted")]
    /\ UNCHANGED <<conn, activeChats, runningChatId, queue, queuedCount, runs,
                   sessionOf, daemon>>

\* handleChatAbort, second branch: the chat waits in the queue.
AbortQueued(c, r) ==
    /\ conn[c] = "open"
    /\ activeChats[c][r] = NoTask
    /\ \E i \in 1..Len(queue[c]) :
        /\ queue[c][i].id = r
        /\ \A j \in 1..(i - 1) : queue[c][j].id # r
        /\ LET t    == queue[c][i].task
               rest == WithoutEntry(queue[c], i)
           IN  /\ aborted' = aborted \cup {t}
               /\ queue' = [queue EXCEPT ![c] = rest]
               /\ queuedCount' = Minus(queuedCount, 1)
               /\ taskState' \in Transitioned(taskState, Only(t, "cancelled"))
               /\ view' = WithPositions([view EXCEPT ![t] = Told("aborted")], rest)
    /\ UNCHANGED <<conn, activeChats, runningChatId, runs, sessionOf, daemon>>

-----------------------------------------------------------------------------
(* The end of a run *)

\* onDone and onError of runWorkerTask drop the outcome of an aborted chat.
SilencedNever(t) == FALSE

Silenced(t) == t \in aborted

OutcomeMsg(outcome) == IF outcome = "completed" THEN "done" ELSE "error"

\* What the end of run w tells the client and the registry, before the next
\* chat starts.
ViewAtEnd(w, outcome) ==
    IF Silenced(w.task) THEN view ELSE [view EXCEPT ![w.task] = Told(OutcomeMsg(outcome))]

Reported(w) == {t \in {w.task} : ~Silenced(t)}

Settled(w, outcome) == [t \in Reported(w) |-> outcome]

SettledAndNext(w, outcome, next) ==
    [t \in Reported(w) \cup {next} |-> IF t = w.task THEN outcome ELSE "running"]

\* onDone or onError, then the finally block of startChat, when nobody waits:
\* the chat leaves activeChats and the connection is idle.
FinishIdle(w, outcome) ==
    LET c == w.conn
    IN  /\ w \in runs
        /\ DequeueIndex(queue[c]) > Len(queue[c])
        /\ runs' = runs \ {w}
        /\ activeChats' = [activeChats EXCEPT ![c][w.id] = NoTask]
        /\ runningChatId' = [runningChatId EXCEPT ![c] = IF @ = w.id THEN NoReq ELSE @]
        /\ queue' = [queue EXCEPT ![c] = <<>>]
        /\ queuedCount' = Minus(queuedCount, Len(queue[c]))
        /\ taskState' \in Transitioned(taskState, Settled(w, outcome))
        /\ view' = ViewAtEnd(w, outcome)
        /\ UNCHANGED <<conn, aborted, sessionOf, daemon>>

\* The same when a chat waits: startChat starts it at once, and those behind it
\* are told their new positions.
FinishHandOver(w, outcome) ==
    LET c    == w.conn
        i    == DequeueIndex(queue[c])
        next == queue[c][i]
        rest == SubSeq(queue[c], i + 1, Len(queue[c]))
    IN  /\ w \in runs
        /\ i <= Len(queue[c])
        /\ runs' = (runs \ {w}) \cup {[conn |-> c, id |-> next.id, task |-> next.task]}
        /\ activeChats' = [activeChats EXCEPT ![c] =
                [[@ EXCEPT ![w.id] = NoTask] EXCEPT ![next.id] = next.task]]
        /\ runningChatId' = [runningChatId EXCEPT ![c] = next.id]
        /\ queue' = [queue EXCEPT ![c] = rest]
        /\ queuedCount' = Minus(queuedCount, i)
        /\ taskState' \in Transitioned(taskState, SettledAndNext(w, outcome, next.task))
        /\ view' = WithPositions(
                [ViewAtEnd(w, outcome) EXCEPT ![next.task] = Told("started")], rest)
        /\ UNCHANGED <<conn, aborted, sessionOf, daemon>>

-----------------------------------------------------------------------------
(* Connections that end *)

\* The chats close cancels on one connection.
WorkOfActiveOnly(c) == ActiveTasks(c)

WorkOf(c) == ActiveTasks(c) \cup QueuedTasks(queue[c])

AllCancelled(T) == [t \in T |-> "cancelled"]

\* close: every chat of the connection is aborted and cancelled, the queue is
\* dropped.  The runs go on until they settle; activeChats is left to them.
CloseConnections(S) ==
    LET doomed == UNION {WorkOf(c) : c \in S}
    IN  /\ conn' = [c \in Conn |-> IF c \in S THEN "closed" ELSE conn[c]]
        /\ aborted' = aborted \cup doomed
        /\ taskState' \in Transitioned(taskState, AllCancelled(doomed))
        /\ queuedCount' = Minus(queuedCount, Cardinality(Waiting(S)))
        /\ queue' = [c \in Conn |-> IF c \in S THEN <<>> ELSE queue[c]]
        /\ runningChatId' = [c \in Conn |-> IF c \in S THEN NoReq ELSE runningChatId[c]]
        /\ UNCHANGED <<activeChats, runs, sessionOf, view>>

\* The client closes its socket, or the socket is lost.
Close(c) ==
    /\ conn[c] = "open"
    /\ CloseConnections({c})
    /\ UNCHANGED daemon

\* shutdownServer: refused, with no change, while liveTasks is not empty,
\* unless forced.
ShutdownRequest(force) ==
    /\ daemon = "serving"
    /\ force \/ LiveIn(taskState) = {}
    /\ daemon' = IF force THEN "forced" ELSE "stopping"
    /\ UNCHANGED <<conn, activeChats, runningChatId, queue, queuedCount,
                   aborted, runs, taskState, sessionOf, view>>

\* The timer shutdownServer set: server.stop(true) closes every socket.
StopServer ==
    /\ daemon \in {"stopping", "forced"}
    /\ daemon' = "stopped"
    /\ CloseConnections(Open)

-----------------------------------------------------------------------------
ClientStep(c) ==
    \/ Connect(c)
    \/ \E r \in Req, s \in Session, t \in Task :
        \/ ChatStartNow(c, r, s, t)
        \/ ChatStartQueued(c, r, s, t)
    \/ \E r \in Req : AbortActive(c, r) \/ AbortQueued(c, r)
    \/ Close(c)

Settle(w) ==
    \E outcome \in Outcomes : FinishIdle(w, outcome) \/ FinishHandOver(w, outcome)

Next ==
    \/ \E c \in Conn : ClientStep(c)
    \/ \E w \in runs : Settle(w)
    \/ \E force \in BOOLEAN : ShutdownRequest(force)
    \/ StopServer

\* Every chat run settles in the end: a turn is bounded by the step timeout,
\* the tool timeouts and the step budget.  Clients owe nothing.
Fairness == \A w \in Run : WF_vars(Settle(w))

Spec == Init /\ [][Next]_vars /\ Fairness

-----------------------------------------------------------------------------
(* Properties *)

\* rpcQueuedTaskCount, which four handlers adjust by hand and Math.max keeps
\* from going negative, is the number of chats waiting on all connections.
CounterMatchesQueues == queuedCount = Cardinality(Waiting(Conn))

\* An open connection runs at most one chat, it is the one runningChatId names,
\* and chats wait only behind a running one: no request is left in the queue
\* with nothing to start it.
SerialPerConnection ==
    \A c \in Open :
        /\ {w \in runs : w.conn = c} =
             IF runningChatId[c] = NoReq THEN {}
             ELSE {[conn |-> c, id |-> runningChatId[c],
                    task |-> activeChats[c][runningChatId[c]]]}
        /\ queue[c] # <<>> => runningChatId[c] # NoReq

\* The registry's live tasks are exactly the work the connections hold: a
\* record is queued iff an open connection has the task in its queue, running
\* iff an unaborted run has it, and never stays accepted.  A live record nobody
\* owns would make every later shutdown refuse.
LiveTasksOwned ==
    \A t \in Task :
        /\ taskState[t] # "accepted"
        /\ taskState[t] = "queued" <=> \E c \in Open : t \in QueuedTasks(queue[c])
        /\ taskState[t] = "running" <=> \E w \in runs : w.task = t /\ t \notin aborted

\* The position a waiting client was last told is the position it has, through
\* aborts ahead of it, dequeues and disconnects.
PositionsAccurate ==
    \A c \in Open : \A i \in 1..Len(queue[c]) :
        view[queue[c][i].task] = QueuedAt(i)

\* The client and the registry agree about an outcome unless its record was
\* evicted: done means completed, error failed, an acknowledged abort cancelled.
OutcomeAgrees ==
    \A t \in Task :
        /\ view[t].msg = "done"    => taskState[t] \in {"completed", Absent}
        /\ view[t].msg = "error"   => taskState[t] \in {"failed", Absent}
        /\ view[t].msg = "aborted" => taskState[t] \in {"cancelled", Absent}

\* The requests a connection holds have different ids, so that the messages of
\* one are never taken for another's and an abort names one request.
RequestIdsDistinct ==
    \A c \in Open :
        LET q == queue[c]
        IN  \A i \in 1..Len(q) :
                /\ activeChats[c][q[i].id] = NoTask
                /\ \A j \in 1..Len(q) : i # j => q[i].id # q[j].id

\* Once a chat is aborted, by request or by a disconnect, the client never gets
\* an outcome for it, although its run goes on for a while.
NothingAfterAbort ==
    [][\A t \in aborted : view'[t].msg \in {view[t].msg, "aborted"}]_vars

\* The line of a connection as its clients see it: the running chat, then the
\* queue.  A closed connection serves nobody, although runs may go on.
LineOf(c) ==
    (IF runningChatId[c] = NoReq THEN <<>> ELSE <<activeChats[c][runningChatId[c]]>>)
        \o [i \in 1..Len(queue[c]) |-> queue[c][i].task]

Line == INSTANCE RpcLine WITH
    Capacity <- MaxQueued + 1,
    line     <- [c \in Conn |-> LineOf(c)],
    seen     <- Task \ Unused

\* Chats are served in the order they were accepted, one at a time, and none
\* is skipped, served twice or left waiting behind nobody.
ServesInLine == Line!Spec

\* A request that was accepted does not stay live for ever: it completes,
\* fails or is cancelled, provided only that chat runs settle.
EveryTaskEnds ==
    \A t \in Task : taskState[t] \in LiveStates ~> taskState[t] \notin LiveStates

\* The inductive invariant behind CounterMatchesQueues, SerialPerConnection and
\* LiveTasksOwned.  The parts they lack: what a connection that is not open
\* holds, that activeChats and the unsettled runs are the same thing (also on
\* closed connections, whose runs go on), that a queue holds no aborted chat,
\* and that no task is held twice.
ClosedHoldsNothing ==
    \A c \in Conn :
        /\ conn[c] # "open" => queue[c] = <<>> /\ runningChatId[c] = NoReq
        /\ conn[c] = "new" => \A r \in Req : activeChats[c][r] = NoTask

RunsAreActiveChats ==
    \A c \in Conn, r \in Req, t \in Task :
        [conn |-> c, id |-> r, task |-> t] \in runs <=> activeChats[c][r] = t

RunningIsActive ==
    \A c \in Open :
        /\ \A r \in Req : activeChats[c][r] # NoTask => runningChatId[c] = r
        /\ runningChatId[c] # NoReq => activeChats[c][runningChatId[c]] # NoTask
        /\ queue[c] # <<>> => runningChatId[c] # NoReq

QueueHoldsQueued ==
    \A c \in Conn : \A i \in 1..Len(queue[c]) :
        /\ queue[c][i].task \notin aborted
        /\ taskState[queue[c][i].task] = "queued"

QueueBounded == \A c \in Conn : Len(queue[c]) <= MaxQueued

HeldOnce ==
    /\ \A c, d \in Conn : \A i \in 1..Len(queue[c]), j \in 1..Len(queue[d]) :
        queue[c][i].task = queue[d][j].task => c = d /\ i = j
    /\ \A v, w \in runs : v.task = w.task => v = w

RunStates ==
    \A w \in runs :
        /\ w.task \notin aborted => taskState[w.task] = "running" /\ conn[w.conn] = "open"
        /\ w.task \in aborted => taskState[w.task] \in {"cancelled", Absent}

LiveIsHeld ==
    \A t \in LiveIn(taskState) :
        \/ \E c \in Conn : \E i \in 1..Len(queue[c]) : queue[c][i].task = t
        \/ \E w \in runs : w.task = t /\ t \notin aborted

UnusedUntouched ==
    \A t \in Unused :
        /\ taskState[t] = Absent
        /\ t \notin aborted
        /\ \A w \in runs : w.task # t

IInv ==
    /\ TypeOK
    /\ ClosedHoldsNothing
    /\ RunsAreActiveChats
    /\ RunningIsActive
    /\ QueueHoldsQueued
    /\ QueueBounded
    /\ HeldOnce
    /\ RunStates
    /\ LiveIsHeld
    /\ UnusedUntouched

\* A chat whose run has not settled was not given an outcome: its client can
\* still be told one.
UnsettledUntold ==
    \A w \in runs : view[w.task].msg \notin {"done", "error"}

\* The inductive invariant behind what clients are told: positions, outcomes,
\* and requests told apart by their ids.
RpcInv ==
    /\ IInv
    /\ RequestIdsDistinct
    /\ PositionsAccurate
    /\ OutcomeAgrees
    /\ UnsettledUntold

-----------------------------------------------------------------------------
(* What the documents say and the code does not keep (README, section 4) *)

\* docs/protocol.md:32 "every request completes with either a chat.done or
\* chat.error RPC message": what handleChatAbort does is different.
EveryRequestAnswered ==
    \A c \in Conn, t \in Task :
        (\E w \in runs : w.conn = c /\ w.task = t)
            ~> (view[t].msg \in {"done", "error"} \/ conn[c] = "closed")

\* docs/sessions.md:8 "one active task runs at a time per session".
OneRunningPerSession ==
    \A t, u \in Task :
        (taskState[t] = "running" /\ taskState[u] = "running" /\ sessionOf[t] = sessionOf[u])
            => t = u

\* docs/tasks.md:47 "Any unfinished task - accepted, queued, or running -
\* blocks shutdown": an unforced stop finds no work to abandon.
UnforcedStopAbandonsNothing ==
    [][daemon = "stopping" /\ daemon' = "stopped" => LiveIn(taskState) = {}]_vars

=============================================================================
