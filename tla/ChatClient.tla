------------------------------ MODULE ChatClient ------------------------------
(***************************************************************************)
(* The chat client between the composer and the daemon: what a submitted   *)
(* message does (chat-state.ts, chat-submit.ts, chat-message-handler.ts),  *)
(* the socket its turn uses (replyStream of client-rpc.ts), the follow-up  *)
(* of a task whose stream broke (chat-message-handler-task-followup.ts)    *)
(* and the way out (runChat of chat-app.tsx).                              *)
(*                                                                         *)
(* One JavaScript thread: a step runs up to the next await.  What comes    *)
(* between two awaits is the user, the daemon's messages, the network and  *)
(* the renders of the screen.  A render makes a new message handler, whose *)
(* turnState is idle, and shows the queue to the drain at a turn's end,    *)
(* which reads it as of the last render and submits in a microtask, so in  *)
(* the same step.                                                          *)
(*                                                                         *)
(* Messages are numbered as they are typed, turns as they begin.  Slash    *)
(* commands, usage figures, skills and what is on screen are left out      *)
(* (Transcript has the rows).                                              *)
(***************************************************************************)
EXTENDS Naturals, Sequences, SequencesExt

CONSTANTS
    MaxMessages,    \* bound on the messages typed
    MaxPolls        \* MAX_POLL_ITERATIONS

ASSUME MaxMessagesAssumption == MaxMessages \in Nat
ASSUME MaxPollsAssumption == MaxPolls \in Nat \ {0}

Message == 1 .. MaxMessages     \* in the order they are typed
MaxTurns == 2 * MaxMessages     \* bound on the turns; a message may begin twice
Turn == 1 .. MaxTurns           \* in the order they begin
None == 0                       \* no turn

VARIABLES
    typed,      \* how many messages were typed
    text,       \* the message each turn began with
    stage,      \* where a turn is; its socket is open while it streams
    accepted,   \* acceptedTaskId is known
    prose,      \* of its answer: none, streamed, or streamed and sealed by a tool call
    aborted,    \* its AbortController has fired
    outcome,    \* its reply promise: open, aborted, or settled in another way
    polls,      \* iterations of its follow-up
    history,    \* currentSession.messages
    pending,    \* pendingStateRef.current # null
    interrupt,  \* the turn interruptRef aborts
    queue,      \* queuedMessages, every update applied
    shown,      \* queuedMessagesRef.current: the queue at the last render
    fresh,      \* the turn begun since then; the handler's turnState is running
    released    \* RpcClient.released

closure == <<accepted, prose, polls>>
lines == <<typed, text, queue, shown, fresh>>
vars == <<lines, stage, closure, aborted, outcome, history, pending, interrupt, released>>

User(t) == [role |-> "user", of |-> t]
Assistant(t) == [role |-> "assistant", of |-> t]

Underway == {"preparing", "saving", "opening", "streaming", "filing", "asking", "following"}
Stages == Underway \cup {"unused", "over"}

TypeOK ==
    /\ typed \in 0 .. MaxMessages
    /\ text \in Seq(Message)
    /\ stage \in [Turn -> Stages]
    /\ accepted \in [Turn -> BOOLEAN] /\ aborted \in [Turn -> BOOLEAN]
    /\ prose \in [Turn -> {"none", "streamed", "sealed"}]
    /\ outcome \in [Turn -> {"open", "aborted", "settled"}]
    /\ polls \in [Turn -> 0 .. MaxPolls]
    /\ history \in Seq({User(t) : t \in Turn} \cup {Assistant(t) : t \in Turn})
    /\ queue \in Seq(Message) /\ shown \in Seq(Message)
    /\ pending \in BOOLEAN /\ released \in BOOLEAN
    /\ interrupt \in Turn \cup {None} /\ fresh \in Turn \cup {None}

Init ==
    /\ typed = 0 /\ text = <<>>
    /\ stage = [t \in Turn |-> "unused"]
    /\ accepted = [t \in Turn |-> FALSE] /\ aborted = [t \in Turn |-> FALSE]
    /\ prose = [t \in Turn |-> "none"] /\ outcome = [t \in Turn |-> "open"]
    /\ polls = [t \in Turn |-> 0]
    /\ history = <<>> /\ queue = <<>> /\ shown = <<>> /\ fresh = None
    /\ pending = FALSE /\ interrupt = None /\ released = FALSE

-----------------------------------------------------------------------------
(* Beginning and ending a turn *)

\* handleSubmit with an idle handler, and startAssistantTurn up to its first
\* await.
Begin(m, st) ==
    LET t == Len(text) + 1
    IN  /\ t \in Turn
        /\ text' = Append(text, m) /\ stage' = [st EXCEPT ![t] = "preparing"]
        /\ history' = Append(history, User(t))
        /\ pending' = TRUE /\ fresh' = t

\* handleSubmit with a handler that runs a turn already: the message goes to the
\* head of the queue.  (RequeueNothing, and the variants below, are slips the
\* properties must notice.)
RequeueNothing(m, rest) == queue' = rest
Requeue(m, rest) == queue' = <<m>> \o rest

\* handleInputSubmit: a message behind a pending turn queues.
Submit ==
    /\ typed < MaxMessages /\ ~released
    /\ typed' = typed + 1
    /\ \/ /\ pending /\ queue' = Append(queue, typed')
          /\ UNCHANGED <<text, stage, history, pending, fresh>>
       \/ ~pending /\ fresh = None /\ Begin(typed', stage) /\ UNCHANGED queue
       \/ /\ ~pending /\ fresh # None /\ Requeue(typed', queue)
          /\ UNCHANGED <<text, stage, history, pending, fresh>>
    /\ UNCHANGED <<closure, aborted, outcome, interrupt, shown, released>>

\* The screen is drawn: refs are refreshed, and the message handler is a new one.
Render ==
    /\ shown # queue \/ fresh # None
    /\ shown' = queue /\ fresh' = None
    /\ UNCHANGED <<typed, text, queue, stage, closure, aborted, outcome, history, pending,
                   interrupt, released>>

\* onStopPending and drainQueueOnTurnEnd: the head of the queue as it was shown is
\* submitted, and the queue as it is by now loses its head.
NotDrained(st) == stage' = st /\ pending' = FALSE /\ UNCHANGED <<text, history, queue, fresh>>
Drained(st) ==
    LET rest == IF queue = <<>> THEN <<>> ELSE Tail(queue)
    IN  \/ /\ shown = <<>>
           /\ stage' = st /\ pending' = FALSE /\ UNCHANGED <<text, history, queue, fresh>>
        \/ shown # <<>> /\ fresh = None /\ Begin(Head(shown), st) /\ queue' = rest
        \/ /\ shown # <<>> /\ fresh # None /\ Requeue(Head(shown), rest)
           /\ stage' = st /\ pending' = FALSE /\ UNCHANGED <<text, history, fresh>>

\* What the closures of a turn held goes with it.
Over(t) ==
    /\ Drained([stage EXCEPT ![t] = "over"])
    /\ accepted' = [accepted EXCEPT ![t] = FALSE] /\ prose' = [prose EXCEPT ![t] = "none"]
    /\ polls' = [polls EXCEPT ![t] = 0] /\ aborted' = [aborted EXCEPT ![t] = FALSE]
    /\ UNCHANGED <<typed, shown>>

\* After an error: what was streamed since the last tool call is kept as the
\* answer; of an aborted turn with none the user's message is taken back.
WithoutLast(t) == SubSeq(history, 1, Len(history) - 1)
WithoutUser(t) ==
    LET at == {i \in DOMAIN history : history[i] = User(t)}
    IN IF at = {} THEN history ELSE RemoveAt(history, Max(at))
AfterError(t, kind) ==
    IF prose[t] = "streamed" THEN Append(history, Assistant(t))
    ELSE IF kind = "aborted" THEN WithoutUser(t) ELSE history

\* The reply promise rejects.  Only a lost stream names its task, and that is
\* looked into first; otherwise what is to be kept is filed.
Rejected(t, kind) ==
    /\ outcome' = [outcome EXCEPT ![t] = IF kind = "aborted" THEN kind ELSE "settled"]
    /\ IF kind = "lost" /\ accepted[t]
       THEN stage' = [stage EXCEPT ![t] = "asking"] /\ UNCHANGED history
       ELSE stage' = [stage EXCEPT ![t] = "filing"] /\ history' = AfterError(t, kind)
    /\ UNCHANGED <<lines, closure, pending, interrupt, released>>

-----------------------------------------------------------------------------
(* The awaits before the stream *)

\* createAtReferenceSuggestion has looked at the paths: from here on the turn
\* can be interrupted.
Prepared(t) ==
    /\ stage[t] = "preparing"
    /\ stage' = [stage EXCEPT ![t] = "saving"]
    /\ interrupt' = t /\ pending' = TRUE
    /\ UNCHANGED <<lines, closure, aborted, outcome, history, released>>

\* The session is saved and replyStream opens a socket.
Saved(t) ==
    /\ stage[t] = "saving"
    /\ stage' = [stage EXCEPT ![t] = "opening"]
    /\ UNCHANGED <<lines, closure, aborted, outcome, history, pending, interrupt, released>>

\* Assumption: React draws the screen before a turn has looked at paths, saved
\* and opened its socket; a render is due as soon as the turn has begun.
Rendered(t) == fresh # t

\* onOpen: chat.start goes out, unless the turn was aborted meanwhile.
Connected(t) ==
    /\ stage[t] = "opening" /\ Rendered(t) /\ UNCHANGED aborted
    /\ IF aborted[t] THEN Rejected(t, "aborted")
       ELSE /\ stage' = [stage EXCEPT ![t] = "streaming"]
            /\ UNCHANGED <<lines, closure, outcome, history, pending, interrupt, released>>

Refused(t) ==
    stage[t] = "opening" /\ Rendered(t) /\ Rejected(t, "failed") /\ UNCHANGED aborted

-----------------------------------------------------------------------------
(* The stream *)

Accept(t) ==
    /\ stage[t] = "streaming" /\ ~accepted[t]
    /\ accepted' = [accepted EXCEPT ![t] = TRUE]
    /\ UNCHANGED <<lines, stage, prose, polls, aborted, outcome, history, pending,
                   interrupt, released>>

\* chat.event: prose, or a tool call, which seals the prose before it.
Event(t) ==
    /\ stage[t] = "streaming" /\ accepted[t]
    /\ \/ prose' = [prose EXCEPT ![t] = "streamed"]
       \/ prose[t] = "streamed" /\ prose' = [prose EXCEPT ![t] = "sealed"]
    /\ UNCHANGED <<lines, stage, accepted, polls, aborted, outcome, history, pending,
                   interrupt, released>>

\* chat.done: the answer, unless it is blank, joins the history and the pending
\* state is cleared before the session is saved.
Done(t) ==
    /\ stage[t] = "streaming" /\ accepted[t]
    /\ outcome' = [outcome EXCEPT ![t] = "settled"]
    /\ stage' = [stage EXCEPT ![t] = "filing"]
    /\ history' \in {history, Append(history, Assistant(t))}
    /\ pending' = FALSE
    /\ UNCHANGED <<lines, closure, aborted, interrupt, released>>

\* chat.error or error.
Failed(t) == stage[t] = "streaming" /\ Rejected(t, "failed") /\ UNCHANGED aborted

\* onClose.  A release is told apart from a connection that is lost.
ClosedAsLost == "lost"
ClosedAs == IF released THEN "aborted" ELSE "lost"
Closed(t) == stage[t] = "streaming" /\ Rejected(t, ClosedAs) /\ UNCHANGED aborted

\* Escape.  Only a stream listens: onAbort sends chat.abort and rejects.
Interrupt ==
    /\ interrupt # None /\ pending /\ ~released /\ ~aborted[interrupt]
    /\ aborted' = [aborted EXCEPT ![interrupt] = TRUE]
    /\ IF stage[interrupt] = "streaming" THEN Rejected(interrupt, "aborted")
       ELSE UNCHANGED <<lines, stage, closure, outcome, history, pending, interrupt, released>>

-----------------------------------------------------------------------------
(* The awaits after the stream *)

\* The session is saved, or there was nothing to save: the finally block.
Filed(t) ==
    /\ stage[t] = "filing" /\ Over(t) /\ interrupt' = None
    /\ UNCHANGED <<outcome, released>>

\* task.status of a task whose stream broke: still running, or not (also when
\* the request fails).  The follow-up has an AbortController of its own.
Asked(t) ==
    /\ stage[t] = "asking"
    /\ \/ /\ stage' = [stage EXCEPT ![t] = "following"] /\ interrupt' = t
          /\ aborted' = [aborted EXCEPT ![t] = FALSE]
          /\ pending' = TRUE /\ UNCHANGED history
       \/ /\ stage' = [stage EXCEPT ![t] = "filing"]
          /\ history' = AfterError(t, "lost")
          /\ UNCHANGED <<aborted, pending, interrupt>>
    /\ UNCHANGED <<lines, closure, outcome, released>>

\* One iteration of the follow-up.  It ends with the task, the abort, the last
\* iteration or an error, and then the queue is served; interruptRef is left.
Followed(t) ==
    /\ stage[t] = "following"
    /\ \/ /\ ~aborted[t] /\ polls[t] + 1 < MaxPolls
          /\ polls' = [polls EXCEPT ![t] = @ + 1]
          /\ UNCHANGED <<lines, stage, accepted, prose, aborted, history, pending>>
       \/ Over(t)
    /\ UNCHANGED <<outcome, interrupt, released>>

\* Ctrl-C twice: runChat releases the client, which closes its open sockets; the
\* process ends when nothing keeps its event loop busy.
Quit ==
    /\ ~released /\ released' = TRUE
    /\ UNCHANGED <<lines, stage, closure, aborted, outcome, history, pending, interrupt>>

-----------------------------------------------------------------------------
\* What a turn does by itself, each stage leaving it one step or a choice.
GoOn(t) ==
    \/ Prepared(t) \/ Saved(t) \/ Connected(t) \/ Refused(t)
    \/ Done(t) \/ Failed(t) \/ Closed(t) \/ Filed(t) \/ Asked(t) \/ Followed(t)

Next ==
    \/ Submit \/ Render \/ Interrupt \/ Quit
    \/ \E t \in Turn : GoOn(t) \/ Accept(t) \/ Event(t)

\* Awaits on disk and on unary requests resolve, a socket opens or fails, timers
\* fire, the daemon ends a task or the connection goes (AgentRun: TurnEnds), and
\* the screen is drawn.
Fairness == WF_vars(Render) /\ \A t \in Turn : WF_vars(GoOn(t))

Spec == Init /\ [][Next]_vars /\ Fairness

-----------------------------------------------------------------------------
(* Properties *)

SomeTurn == \E t \in Turn : stage[t] \in Underway

\* A message that waits, and is shown to wait, behind a turn leaves the queue in
\* the end, whichever way that turn goes: answered, failed, interrupted, followed
\* up, or overtaken by another.  Every exit of startAssistantTurn and of the
\* follow-up has to drain the queue.
QueueServed ==
    \A m \in Message :
        (m \in ToSet(queue) \cap ToSet(shown) /\ SomeTurn) ~> m \notin ToSet(queue)

\* What is typed is begun or waits in the queue.  Only a drain that comes after
\* another turn began and before the screen is drawn again drops a message, and
\* never the one it submits, which a busy handler puts back (requeueMessage).
Dropped == (1 .. typed) \ (ToSet(text) \cup ToSet(queue))
QueueKept ==
    [][\A m \in Dropped' \ Dropped :
        m \in ToSet(queue) /\ fresh # None /\ m # Head(shown)]_vars

\* The history sent to the model stays sound however turns overlap: an answer
\* has its question before it, nothing is in it twice, and a question leaves it
\* only if its own turn was interrupted.
HistorySound ==
    /\ \A i \in DOMAIN history : history[i].role = "assistant" =>
        \E j \in 1 .. i - 1 : history[j] = User(history[i].of)
    /\ \A i, j \in DOMAIN history : i # j => history[i] # history[j]
    /\ \A t \in Turn : stage[t] # "unused" /\ outcome[t] # "aborted" =>
        \E i \in DOMAIN history : history[i] = User(t)

\* Once the user has quit, no stream that breaks is looked into: the follow-up
\* would open sockets again on the way out (onClose of client-rpc.ts).
NoFollowupAfterQuit ==
    [][released => \A t \in Turn : stage'[t] = "asking" => stage[t] = "asking"]_vars

-----------------------------------------------------------------------------
(* Not kept (README, section 4) *)

\* A message that is queued is begun in the end.  Not if the last turn ends before
\* the screen shows it, nor if a drain drops it.
QueueServedAlways ==
    \A m \in Message : m \in ToSet(queue) ~> m \notin ToSet(queue)

\* "Quitting must not leave work running" (close of client-rpc.ts): after the
\* client has been released no turn begins.  One does: the interrupted turn drains
\* the queue as any other, and openSocket does not look at released.
QuitStartsNothing == [][released => UNCHANGED text]_vars

\* At most one turn is under way (a test title of chat-message-handler says so
\* of concurrent submits).  A turn clears its pending state before it saves the
\* session, so a message typed meanwhile begins beside it.
OneTurn == \A t, u \in Turn : t # u => {stage[t], stage[u]} \cap {"unused", "over"} # {}

\* No message begins twice.  One does when two turns end before the screen is
\* drawn: both submit the head that is shown.
BeginsOnce == \A t, u \in DOMAIN text : text[t] = text[u] => t = u

=============================================================================
