# A TLA+ model of Acolyte

Acolyte is a coding agent: a terminal client talks over WebSocket RPC (or HTTP
with server-sent events) to a local daemon, which runs a *turn* for each chat
request: it calls a model, executes tools in a workspace, and commits memory in
the background. Sessions, locks and checkpoints are files that several
processes share. This directory holds the specifications that say what those
parts must do when requests, aborts, disconnects, failures and crashes
interleave, the TLC configurations that check them on small instances, and
TLAPS proofs for all instances. Paths are relative to the repository root; all
sources meant are under `src/`.

## 1. Inventory

| Part | State it keeps | Operations | What is hard | What makes it correct |
|---|---|---|---|---|
| RPC layer (`server-rpc.ts`, `rpc-queue.ts`) | per connection: active chats, running chat, queue; one queue counter per process | chat.start, chat.abort, end of a run, close | a run outlives its abort and its connection; every handler adjusts several structures by hand | one chat at a time, none lost, books agree with each other |
| Task registry (`task-registry.ts`, `task-contract.ts`, `task-store.ts`) | id -> record | transition, evict, list live | eviction of finished records while live ones overflow the store | live work is never forgotten, oldest finished first |
| Shutdown (`server-app.ts`) | - | refuse or stop | the answer and the stop are two events | an unforced stop abandons nothing |
| Memory commit queue (`task-queue.ts`, `lifecycle.ts`) | key -> last promise | enqueueMany | chains over several keys, failures, clean-up of the map | jobs that share a key never overlap, all run |
| Session lock (`session-lock.ts`, `cli-chat.ts`) | one file per session | acquire, sweep, release | no step of the file protocol is atomic with the next; crashes | one live owner |
| Session store (`session-store.ts`) | `sessions.json` | save, remove, set active | read-modify-write of one file by several processes | no update lost |
| Daemon start and stop (`server-daemon.ts`, `daemon-ops.ts`) | server lock, startup lock, a port | ensure, stop, list | races of clients, stale locks, a daemon that does not answer | one daemon per port, its lock names it |
| HTTP/SSE front end (`server-http.ts`, `server-chat-runtime.ts`) | - | one chat per request | not in the registry | an outcome for each request |
| RPC client (`client-rpc.ts`) | one socket per reply | reply, abort, timeout | timeout against a late answer | one outcome per reply |
| Turn (`lifecycle*.ts`, `agent-stream.ts`, `rate-limiter.ts`) | steps, budgets, tool calls | generate, retry, yield, finalise | inactivity timeout, rate limits, abort | a turn ends, what is committed was delivered |
| Tools and effects (`tool-execution.ts`, `lifecycle-effects.ts`) | step budget, installs | run a tool, install, format, lint | a timed-out tool goes on; shared installs | budget respected, one install at a time |
| Undo checkpoints (`undo-checkpoints.ts`) | numbered directories | capture, commit, restore, prune | crashes between any two file operations, edits meanwhile | ids unique, listed means complete, a restore spares others' work |
| Chat client (`chat-submit.ts`, `chat-message-handler.ts`, `client-rpc.ts`) | history, pending turn, queued messages, sockets | submit, interrupt, drain, follow up, quit | a turn has many exits, and each must serve the queue; quitting looks like a lost daemon | every queued message is begun, the history stays sound |
| Chat transcript (`chat-message-handler-stream.ts`) | rows, prose and lines still to be revealed, parked work | a handler per event, two timers, end of the turn | events overtake the reveal of earlier ones | nothing lost, nothing opened above the wrong row |
| Memory (`memory-*.ts`) | records per scope | commit, supersede, recall | superseding while recalling | a fact has one current version |
| Updates (`update-*.ts`) | staged versions | stage, switch | replaced under a running binary | never a partial version |
| UI, tools' wrappers, cloud, MCP, plugins, configuration, i18n | | | not concurrent, or external | |

Interactions: the RPC layer drives the registry through `transitionTaskState`
and reads nothing back from it; the shutdown decision reads the registry; the
runs (`runChatRequest`) call back into the RPC layer once, at their end; a
finished turn enqueues a memory commit; a write tool of a turn is wrapped by an
undo capture and commit; the chat client holds a session lock for its life time,
saves through the session store, starts the daemon if there is none, and shows
the events of a turn as rows.

The hazards of this code, with the lines where they bite and the properties
that guard against them, are listed in `PROJECT.json`.

## 2. Plan

Done, in this order: `TaskContract`, `TaskRegistry`, `ServerRpc` (with
`RpcLine`), `KeyedJobs` and `TaskQueue`, `SessionLock`, `SessionTable` and
`SessionStore`; then `AgentRun`, `UndoCheckpoints`, `DaemonStart`, `Transcript`
and `ChatClient`. All have proofs.

What is left, most important first:

1. `ToolExecution`: the install-once map of `lifecycle-effects.ts` under several
   turns of one workspace, with an install that fails. `AgentRun` has one wait
   for all effects.
2. The inactivity timer of `replyStream` (`client-rpc.ts:214`), which only the
   `run` and `skill` commands set.
3. `SessionStore`: the cloud store, and the composition with `SessionLock` in
   place of an exact lock.
4. The composition of `ChatClient` with `ServerRpc` over one connection: today
   each has the other as an environment that may do anything the protocol allows.
5. `DaemonStart`: the file operations that throw (`writeFile` of the startup lock,
   `mkdir` of the log directory), which today succeed.

## 3. Modules

**TaskContract** has the task states, `ALLOWED_TRANSITIONS` and
`Transitioned(st, upd)`, the set of registries a batch of transitions may leave
behind. It leaves open which finished records are evicted, so that `ServerRpc`
does not have to carry time stamps.

**TaskRegistry** is `task-registry.ts` exactly, with `createdAt` as the order it
induces. `ImplementsContract` shows that each of its steps is one that
`TaskContract` permits: this is what licenses `ServerRpc` to use the contract.

**ServerRpc** is the RPC layer of one process with all its connections.

| Specification | Code |
|---|---|
| `conn`, `activeChats`, `runningChatId`, `queue` | the socket and its `RpcConnectionState` |
| `queuedCount` | `rpcQueuedTaskCount` |
| `aborted` | tasks whose `AbortController` has fired |
| `runs` | calls of `runWorkerTask` that have not settled, with what their closures hold |
| `taskState`, `sessionOf` | the records of the registry |
| `view` | the last message the client was sent about a task |
| `Connect`, `Close`, `StopServer` | `upgradeToRpc`, `close`, `server.stop(true)` |
| `ChatStartNow`, `ChatStartQueued` | `handleChatStart` with `onStart` and `startChat`; a rejected request changes nothing |
| `AbortActive`, `AbortQueued` | `handleChatAbort`; an unknown id changes nothing |
| `FinishIdle`, `FinishHandOver` | `onDone`/`onError`, then the `finally` block with `onFinished` and the next `startChat` |

A handler runs to completion in one JavaScript turn, so it is one action. The
two or three registry transitions of a handler are one batch: nothing can look
at the registry between them, and evicting after each or after all leaves the
same records out (the eviction of one transition never creates room another
would not have made). `runChatRequest` awaits nothing between reporting its
outcome and settling, so both are one action; that it settles at an arbitrary
later time, also after an abort and after its connection is gone, is what the
model is about.

**RpcLine** is the promise of the RPC layer to the clients of one connection:
a bounded line, served from the head, that one joins once and leaves by being
served, withdrawing or disconnecting. `ServesInLine` is the refinement.

**TaskQueue** is `task-queue.ts`. A promise is known by the number of its job.
`EnqueueMany` is the synchronous part; `Start`, `Finish` and `CleanUp` are the
continuations, and other code may enqueue between any two of them.
**KeyedJobs** is what a caller may rely on: a job runs once every earlier job
it shares a key with is over. `RunsInKeyOrder` is the refinement, with liveness.

**SessionLock** is `session-lock.ts` as the chat processes run it. The functions
are synchronous, but other processes are not stopped by that, so one action is
one system call on the locks directory:

| Specification | Code |
|---|---|
| `creator`, `written` | the lock files, and which of them have a pid in them |
| `Enter`, `SweepRead`, `SweepCheck` | `readdirSync`, `readFileSync`, then the liveness test with `unlinkSync` of `sweepStaleSessionLocks` |
| `Create`, `Write` | `openSync` with `wx`, `writeFileSync` |
| `ReadOwner`, `Refuse`, `Reclaim`, `UnlinkAgain` | the rest of the loop of `acquireSessionLock` |
| `ReleaseRead`, `UnlinkOwn` | `releaseSessionLock` |
| `Die` | the process ends, at any point |

Calls are joined where no other process can tell: a dead process stays dead, so
asking whether it lives can be put together with the unlink that follows, and
`existsSync` with the read after it, as both failures end the function. Files
have no identity apart from their creator, so a process that writes its pid
after its file was unlinked writes to nothing, which is what the file system
does. A pid stands for one process. Nothing in the code keeps processes from
acquiring side by side, and then two may get one lock (section 4). So that the
properties can say how far this goes, `contended` records, for each process,
that during its acquire another one was inside `acquireSessionLock`, or was
releasing after a contended acquire of its own; no step looks at it.
`LockStands` is that the lock of a process whose acquire was not contended is
not taken away by whatever others do later, and `RefusedBehindOwner` that such a
process is refused only because of a live one that got the lock first.

**SessionStore** is the file store under the chat processes that use it:
`chain` is `writeQueue`, and an operation is three steps (`ReadState`,
`WriteTemp`, `Rename`) which other processes, and changes of the session that
is being saved, can get in between; `WriteFails` ends it early. `WriteTemp`
takes the session as it is at that moment, since the object is passed by
reference, and a read of the file may fail at any time, which the code takes for
an empty store. `Load`, `Lock`, `AddTurn`, `Persist`, `Switch` and `Stop` are
what `cli-chat.ts` and the `/resume`, `/new` and picker handlers do with it, and
`TakeBack` is the removal of the user's own message, saved or not, from a turn
that is interrupted before it answered (`chat-message-handler.ts:259`). The
session lock is taken as exact, so that what goes wrong here is the store's
doing. A session is the set of the messages in it; its title, usage and
transcript are left out. Three history variables say why something may be lost:
`said` (who appended a message), `blind` (the operation has not read what the
file now holds) and `unseen` (sessions others wrote to since the process loaded
them). `LossHasACause` is that nothing saved is lost in any other way.
**SessionTable** is what callers rely on: a table whose entries are replaced one
at a time, each from a look at the table that may be old. `ImplementsTable` is
the refinement, for any processes.

**AgentRun** is one turn in the daemon: the agent loop and the reader of its
stream, which share the turn and do not wait for each other.

| Specification | Code |
|---|---|
| `agent`, `queue`, `step`, `prompt`, `retries` | where `createAgentStream`'s loop is, its tool calls still to run, what the model sent in this step, the size of the messages, rate limits so far |
| `reopened`, `prefix`, `answer` | the completion gate: reasons used, `truncatedPrefix`, `answerText` |
| `calls`, `late` | the length of `callLog`; writes that timed out and go on |
| `quiet`, `open`, `error`, `turn`, `committed` | `streamWithTimeout`, the events the client has, `currentError`, and what became of the turn |
| `Call` ... `StreamEnds` | a call of the model, with rate limits, failures and the parts of its stream |
| `RefuseCall`, `EnterCall`, `Execute`, `ToolSucceeds`, `EffectsDone`, `ToolFails`, `ToolTimesOut`, `LateWriteEnds` | `runTool` with its budget, effects and timeout; `RefuseCall` also stands for arguments that do not parse |
| `Continue`, `Reopen`, `FinishTurn` | the end of a step: `classifyTerminalStep`, `decideFinish` |
| `Silence`, `Inactivity` | the inactivity timer |
| `Abort` | the run's abort signal |

The prompt is measured in steps added to it, and a segment of the answer is
named by the prompt that produced it: `AnswerWhole` needs to know which parts
there are, not what they say. When the reader gives up, the agent goes on; that
is in the code and in the model.

**UndoCheckpoints** is `undo-checkpoints.ts` with the effects around a write
tool. A directory is its sequence number, its snapshot and its `meta.json`.

| Specification | Code |
|---|---|
| `pc`, `pending`, `seqNo`, `todo` | where a call is, with what `pendingUndo` and the local variables of `commitUndoCheckpoint` hold for it |
| `Capture`, `ToolRuns`, `Format` | `onBeforeToolAsync`, the tool, the formatter that runs before `onAfterToolAsync` commits |
| `TakeSequence`, `CommitFile`, `CommitMeta` | `commitUndoCheckpoint`: `nextSequence`, the snapshots, `meta.json` |
| `RemoveFile`, `RemoveDir`, `CommitDone` | `pruneOldCheckpoints`, file by file |
| `CallFails`, `RestoreFails`, `Crash` | an operation throws, or the process dies, between any two of these |
| `RestoreBegin`, `RestoreFile` | `restoreUndoCheckpoint`: the look at the file, the write |
| `Uncaptured`, `UserEdits` | writes of which nothing is captured: `file-delete` (section 4), `code-edit` of a directory; and everybody else |

The write tools that are captured name one path, so a checkpoint has one file.
Calls may overlap: an agent nobody reads any more goes on beside the next turn,
and two connections may share a session. Then two commits may take one sequence
number; `raced`, a history variable, has the calls of which this may be true.
`touched` says that the file of the restore under way was changed since it was
verified. Contents are of three sizes, since the code stores small ones, hashes
larger ones and does neither for the rest. `MaxOpen` and `MaxEdits` bound what is
under way at a time and what others change; the proofs need neither.

**DaemonStart** is `ensureLocalServer`, `stopLocalServer` and
`localServerStatus` on one port, under the `start`, `stop` and `restart`
commands.

| Specification | Code |
|---|---|
| `lock`, `starting` | the server lock and the startup lock, as files |
| `daemon` | the daemon processes: one that was there before, and one each client may spawn |
| `pc`, `me` | where a client is in the functions, and their local variables |
| `ReadLock`, `SweepLock`, `Probe` | the head of `ensureLocalServer` |
| `Claim`, `WritePid`, `ReadStale`, `ClearStale` | `tryAcquireStartupLock`, `clearStaleStartupLock` |
| `Wait`, `GiveUpWaiting`, `Retry` | `waitForHealthyServerOrStaleStartupLock` and the retry |
| `Spawn`, `AwaitHealthy`, `GiveUpStarting`, `WriteServerLock`, `KillStarted`, `Reap`, `Release` | the owner's path |
| `StopReadsLock` ... `Remove` | `stopLocalServer` |
| `StatusReadsLock`, `StatusProbe`, `StatusAgain` | `localServerStatus`, as `stop` uses it |
| `Boot`, `StopServer`, `Exit`, `Crash`, `Die` | the daemon's life and a client's death |

A poll that changes nothing is no step; a deadline may pass whenever it is
looked at, which is why `GiveUpWaiting` and `GiveUpStarting` have no guard but
their place. `MaxSlow` bounds how many requests a living daemon fails to answer
in time.

**Transcript** is `createMessageStreamState` on the transcript surface. Its
handlers call each other, and parked work runs handlers again, so they are
functions from one `view` (the closure and the rows) to the next:

| Specification | Code |
|---|---|
| `Open`, `WithItems`, `WithStatus`, `Without` | `upsertRow` with what it is given, `markOutcome`, `removeRows` |
| `DrainBacklog`, `Flush`, `Seal` | `drainBacklog`, `flush`, `sealAgentRow`: prose |
| `Enqueue`, `Update`, `First`, `Place` | `enqueueOutput`; `renderOutput` of a part whose call has a row, and of one whose call has none |
| `Live` | `enqueueOutput` of a transient part, and the `renderOutput` it calls |
| `Result`, `DropCall` | `markToolResult`, the latter when the budget was spent |
| `RevealAll`, `Drain` | `drainOutput` without and with its `releaseParkedWork` |
| `Shifted`, `Then`, `Released` | `releaseOutput` |
| `Park`, `Run`, `RunParked` | `waitForReveal`, `releaseParkedWork` |

In the code `drainOutput` runs parked work, which may call `drainOutput` again.
Where `Flush` and `First` call it, no line is queued, and so nothing is parked
(`NothingStranded`): there it is `RevealAll`, and no handler is recursive. An
action is one event of the daemon (`TextDelta`, `ToolCall`, `Header`, `EditLine`,
`LiveLine`, `CommandTail`, `ToolResult`, `EffectDone`, `TasklistSent`,
`NoticeSent`), one timer (`Tick`, `Reveal`) or the end (`Finalize`, `Dispose`).
`stream` is what the daemon has sent, and makes the events come in an order the
agent stream can emit. Text, output and rows are named by the event that brought
them.

**ChatClient** is what happens to a submitted message.

| Specification | Code |
|---|---|
| `stage`, `text` | where `startAssistantTurn`, `replyStream` or the follow-up of a turn is, each value standing for one `await`; the message it began with |
| `pending`, `interrupt`, `queue` | `pendingStateRef`, `interruptRef`, `queuedMessages` with every update applied |
| `shown`, `fresh` | `queuedMessagesRef.current`, which is the queue as of the last render; `turnState` of the message handler, which a render replaces by a new, idle one |
| `history` | `currentSession.messages` |
| `accepted`, `prose`, `outcome`, `aborted` | the closure of a turn, and how its reply settled |
| `released` | `RpcClient.released` |
| `Submit`, `Begin`, `Requeue` | `handleSubmit`: queue the message behind a pending turn, begin a turn, or put the message at the head of the queue because the handler has a turn running (`requeueMessage`) |
| `Render` | React draws the screen |
| `Prepared`, `Saved`, `Connected`, `Refused`, `Accept`, `Event`, `Done`, `Failed`, `Closed` | the turn, `await` by `await`, and its socket |
| `Filed`, `Asked`, `Followed` | what follows the stream: saving, asking for the status of a lost task, the polls |
| `Over`, `Drained` | the end of a turn with `drainQueueOnTurnEnd` |
| `Interrupt`, `Quit` | Escape, and Ctrl-C twice |

`Drained` takes the head of the queue that is shown, and drops the head of the
queue as it is: the two differ when a message was queued, or another turn
drained, since the last render. It is a microtask, so it is part of the step that
ends the turn. Renders come when the reconciler gets to them, except for one
assumption, `Rendered`: the screen is drawn between the moment a turn begins and
the moment its socket opens or fails, which takes a look at paths, a save to disk
and a connection. Messages are numbered in the order they are typed, turns in the
order they begin; a message may begin twice (section 4).

The `MC` modules give TLC its instances.

## 4. What the runs check

| Run | Instance | States | Shows |
|---|---|---|---|
| `rpc` | 2 connections, 4 tasks, 4 request ids, queue bound 2, store of 2 | 82 288 | the books of the RPC layer and what clients were told agree, through aborts, hand-overs, disconnects and shutdowns |
| `rpc_line` | 1 connection, 4 tasks, 4 ids, bound 2 | 19 222 | the RPC layer implements `RpcLine`, and every accepted request ends |
| `registry` | 4 ids, store of 2 | 151 | eviction and transitions, and the contract |
| `queue` | 3 keys, 3 jobs | 36 136 | exclusion, order, progress and an empty map at the end |
| `lock` | 3 processes, 2 sessions | 64 763 | a lock taken without contention stands, and a crash locks nobody out |
| `store` | 2 processes, 2 sessions, 1 message, 3 saves | 292 149 | what was saved is lost only in the ways named, the store is a table |
| `turn` | budget 2, prompt limit 2, 2 calls a step, 1 rate limit | 829 391 | what a turn begins, tells, answers and commits, and that it ends |
| `undo` | 3 calls on 1 file, 2 at a time, 1 checkpoint kept, 1 change by others | 2 560 059 | ids, complete checkpoints, sparing restores |
| `daemon` | 2 clients of 2 builds, an old daemon with another key, 1 retry, 1 unanswered request | 91 761 | a failed start cleans up, every command ends |
| `transcript` | 2 calls, 2 lines, 1 live line, 2 asides | 2 601 389 | output is kept, rows open and freeze in the right order |
| `client` | 3 messages, 2 polls | 128 336 | what waits on screen behind a turn is served, what is typed is kept, the history is sound, quitting follows nothing up |
| `transcript_prose` | as `transcript` | | prose can be lost |

Bounds. Four tasks on a connection with a queue bound of two let one chat run,
two wait and a fourth be rejected; four request ids let every task have an id
of its own or share one that is free again; a store of two records with four tasks makes
eviction happen while live work overflows the store, and re-creates a record
that was evicted. Two connections are what the process-wide counter and the
registry can confuse; the line and its progress are a connection's own affair,
and run on one. Three jobs over three keys contain every way two jobs
can be joined by a third, and a job with several predecessors. Three processes
are a crashed owner, a live one and one that acquires; two sessions make the
sweep visit locks other than the one wanted, and saves change entries other than
the active one. With the lock, two processes race while the third takes a lock
before, between or after them. In the store, three saves are one that another
process's overtakes, and one that meets what both left.

In a turn, a budget of two with two calls a step lets the budget run out within
a step and across steps; a prompt limit of two allows three steps, so that a cut
answer can be continued after a step with tool calls; a second rate limit leads
nowhere the first does not. Three calls over one kept checkpoint prune a
checkpoint, and one that a crash left unfinished, while a third commits, and two
of them commit or prune side by side. `undo` has no content that is hashed and
not stored: such a file is compared as a small one is and, like a huge one, never
put back, and the proofs cover it. Two clients are the owner of
the startup lock and the one that waits for it, takes it away or stops its
daemon; the retry and the unanswered request each happen once. Two calls with
two lines each are one edit being revealed and one call parked behind it, and
two asides put prose before, between and after them. Three messages are one
under way and two behind it, or one queued too late for the screen; the second is
begun by the first and must itself serve the third. The proofs remove the bounds for the properties they cover.

Deadlock is checked in `registry` and `turn` (where `Done` is the stutter of a
turn that is over). It is not in the others, whose systems stop:
all tasks may be used up or the server be stopped (`rpc`, `rpc_line`), all jobs
be done (`queue`), all processes have ended (`lock`, `store`, `daemon`), all calls and
edits be used (`undo`), the turn or the conversation be over (`transcript`,
`client`). The liveness properties say that nothing stops too early.

### Disagreements with the documents and comments

One is a run. `transcript_prose` checks the comment of `drainBacklog`
(`chat-message-handler-stream.ts:103`: text can never "be lost when the closure
resets"). While an edit is revealed, `flush` parks prose that has no row yet;
`sealAgentRow` then resets the text the parked flush would have read, and the
prose is never shown.

The others are definitions in the modules that the code does not keep. Adding
the name to the cfg of the run (with the constant given here, where one has to
change) gives the counterexample:

| Definition | Where | What the code does, and what says otherwise |
|---|---|---|
| `EveryRequestAnswered` | `ServerRpc`, as a property | an aborted request gets `chat.abort.result` and then nothing; `docs/protocol.md:32` promises `chat.done` or `chat.error` |
| `OneRunningPerSession` | `ServerRpc` | tasks are serial per connection, not per session (`docs/sessions.md:8`) |
| `UnforcedStopAbandonsNothing` | `ServerRpc` | work accepted after an unforced shutdown was granted and before the server's timer fires is cancelled (`docs/tasks.md:47`) |
| `MutualExclusion` | `SessionLock` | a process's sweep reads a lock file before its creator has written its pid, takes it for stale and removes it after the creator has got the lock; then it gets the lock itself, and both chat (`session-lock.ts:51`; `docs/sessions.md:22`: the lock prevents concurrent modification) |
| `SavedTurnsStay` | `SessionStore`, as a property | three ways to lose what was saved, against `docs/sessions.md:22` and the comment at `session-store.ts:82`: two processes read, one writes, and the other replaces what it wrote; a read that fails counts as an empty store, and the next save makes it so; a process saves a session it loaded before another one wrote to it, having taken the lock, or switched to the session, only later. (A turn that takes its question back is a fourth, and meant.) |
| `IdsAlwaysUnique` | `UndoCheckpoints` | two commits that overlap read the directory before either has made its own, and get one id; `undo-restore` takes the first directory that has it |
| `RestoreSparesAll` | `UndoCheckpoints`, as a property | what is written to a file between the look of a restore at it and its write is overwritten |
| `QueueServedAlways` | `ChatClient`, as a property | a message queued just before the last turn ends is not yet in `queuedMessagesRef.current`, so the drain does not see it: it waits on screen with no turn behind it, until the user submits another (`chat-state.ts:339`) |
| `BeginsOnce` | `ChatClient` | two turns that end before the screen is drawn again both submit the head that is shown |
| `EditNeverRacesFormatter` | `AgentRun` | a write that timed out goes on while the next write's formatter runs (the comment on effects in `lifecycle-contract.ts:98`) |
| `ServesOwnBuild` | `DaemonStart`, as a property | a starter takes any healthy answer on the port for its own daemon (`server-daemon.ts:107`); `docs/updates.md:20` has a client use its own build only |
| `QuitStartsNothing` | `ChatClient`, as a property | the turn that a quit interrupts drains the queue as any other, and opens a socket for the next message (`client-rpc.ts:35`) |
| `NothingBeneathReveal` | `Transcript`, `MaxCalls = 3` | two parts of a second edit and the first of a command are parked behind the reveal of a first edit when a live line of the command comes; the line drains the queue: the second edit opens its row and goes on being revealed, the command's part is parked again behind it, and the live line opens the command's row beneath ("nothing opens beneath a row that is still revealing", `chat-message-handler-stream.ts:213`) |
| `OneRowPerCall` | `Transcript` | a command's first part is parked behind an edit when its first live line comes: `renderOutput` has looked for a row and found none, drains, which runs the parked part and opens the row, and then opens a second; the first is never marked ("this cannot reach back here", `chat-message-handler-stream.ts:214`) |
| `OneTurn` | `ChatClient` | a turn clears its pending state before it saves, so that a message typed meanwhile begins beside it (`chat-message-handler.int.test.ts:855`) |

Met on the way, without a sentence that says otherwise: a follow-up that is
already polling when the user quits goes on, over new sockets; Escape between
`startPending` and the moment the turn sets its interrupt handler is lost; a
turn aborted after prose and a tool call removes its question although its prose
stays on screen; a drain that comes after another turn has begun, and before the
screen is drawn again, can drop a message of the queue that it did not submit
(`QueueKept` says that this is the only way to lose one); notices
and task lists open under an edit that is still being revealed, and a paced call
parked at the end of a turn goes on revealing lines after it; a start that finds
a startup lock without a pid clears it although its owner is about to write, and
then both spawn a daemon; a start that gives up kills the process it spawned, of
which others may have become clients; a tool that timed out finishes its side
effect later.

And one that is not a matter of order: `docs/configuration.md:180` says that write
tools create undo checkpoints, but `file-delete` never does, since its argument is
`path` (`file-toolkit.ts:269`) and the effects look for `paths`
(`undo-checkpoints-effects.ts:16`). In the model a delete is `Uncaptured`.

## 5. Fairness

| Module | Assumed | Why |
|---|---|---|
| `ServerRpc` | every run settles (`WF(Settle(w))`); nothing of clients | `runChatRequest` settles when its turn ends, and `TurnEnds` of `AgentRun` is that a turn does |
| `AgentRun` | the timers `Silence` and `Inactivity`; nothing of the provider, the tools or the client | `setTimeout`; the model checker finds that this is enough, because what may come instead of silence is bounded by the prompt and the step |
| `TaskQueue` | continuations run, jobs settle | the microtask queue; a commit is a job of the daemon that resolves or rejects |
| `DaemonStart` | a living client goes on (`WF(Step)`), deadlines that are looked at again and again pass (`SF(Deadline)`), a server told to stop stops and its process ends | polling loops with a clock; nothing is assumed of a daemon that boots or answers |
| `Transcript` | the two timers fire | `setTimeout`; nothing of the events, so the turn need not end |
| `ChatClient` | the screen is drawn (`WF(Render)`), and what is awaited settles: disk, unary requests, a socket that opens or fails, a stream that ends or breaks | `replyStream` itself has no timeout in the chat, so that a stream ends rests on `TurnEnds` of the daemon or on the connection; the reconciler runs what a state update schedules |

`SessionLock`, `SessionStore` and `UndoCheckpoints` promise safety only, and
assume nothing. What `AgentRun` does not count is the length of a step: its
text is one part, and the calls of a step are bounded by `MaxPerStep`, standing
for the provider's output limit; with a provider whose stream never ends and
never pauses, a turn would not end. Rate limits are bounded by `MaxRetries`, but
need not be for the turn to end: no chunk comes in a back-off.

## 6. What is proved

Each module of proofs assumes what its specification's named `ASSUME`s say of
the constants, and nothing else unless it is said here.

`ServerRpcProofs` proves, for every set of connections, tasks and request ids
and every queue bound, `Spec => []IInv`. `IInv` is the part of the argument the
properties themselves lack: `activeChats` and the unsettled runs are the same
relation, also for closed connections whose runs go on; a queue never holds an
aborted chat (so `dequeueNextQueuedChat` never skips one: `DequeueFirst`); no
task is held twice; a live record is held by a queue or by an unaborted run.
Each action has a lemma, with one step per conjunct it can disturb. From `IInv`
follow `TypeCorrect`, `OneAtATime` (`SerialPerConnection`), `NoOrphanedTask`
(`LiveTasksOwned`), `AbortedStaySilent` (`NothingAfterAbort`, an action
property) and, with an induction of its own on the number of waiting places,
`CounterExact` (`CounterMatchesQueues`). `ToldInvariance` adds what clients were
told: request ids of a connection are distinct, every waiting client knows its
position, an outcome that was told is the one on record. Its extra conjunct
`UnsettledUntold` (no outcome is told of a run that has not settled) is what
keeps a late settlement from contradicting an earlier message. `PositionsExact`
and `OutcomesMatch` are its corollaries. `ImplementsLine` is the step simulation
to `RpcLine`: every step joins, serves, withdraws or leaves the line, or
stutters.

`TaskMapsProofs` is about the two maps of the daemon that hold tasks. Of
`TaskQueue` it proves `ChainInv` (a job awaits, for each key, a job no
earlier than any unfinished one with that key, and started only after all of
them), from it `MutualExclusion` and `MapTracksLast`, and the step simulation
from `TaskQueue` to `KeyedJobs`. Of `TaskRegistry` it proves, for any set of ids
(an infinite one too) and any size of the store, that the store is finite and
`createdBefore` a total order of its records (`RegistryInv`; `RegistryTypeOK`
lacks the transitivity). An order numbers a finite set, oldest first
(`Ranking`), so the oldest `n` are `n` (`OldestCount`): from these follow
`EvictsOldestFirst` (`OldestEvictedFirst`), `RegistryContract`
(`ImplementsContract`, by which `ServerRpc` may use the contract in place of
the store) and `StoreBounded` (`OverOnlyWhileLive`): the store is over its size
only while every record is live.

`SessionLockProofs` proves, for any processes and sessions, however their
acquires overlap, that `IInv` is invariant: a lock file has the pid of a process
that chats or is dead, or is empty and its creator is about to write or dead; a
pid that was read belongs to a process that got through its acquire; while a
process acquires without contention nobody else is in the way (`Alone`), from
then on its file is its own (`HoldersHaveFiles`), and nobody is about to remove
it: who read something older from it would have been a rival
(`HoldersAreSpared`). From it follow `LockKept` (`LockStands`) and
`CrashNeverLocksOut` (`RefusedBehindOwner`, an action property).

`SessionStoreProofs` proves, for any processes, sessions and numbers of saves, and
with reads that may fail, that a process which is not blind has read what the
file holds, that what it is about to write differs from it in one entry, and that
it accounts for every message of the file: it has it, took it back, or the
session is one others wrote to (`IInv`). From it follow `LossKnown`
(`LossHasACause`) and `StoreImplementsTable` (`ImplementsTable`, whose
specification has no fairness, so the refinement is proved entirely).

`AgentRunProofs` proves the five safety properties of a turn for every budget,
prompt limit, number of calls and number of rate limits. The invariant says
that the calls of a step are run before the next begins, that one call at a time
is under way and there was room for it (`OneCallAtATime`: the budget counts
calls that are over, so this is why it holds), that the results the client still
lacks are those of the queue (`OpenIsQueued`), that a commit is the last thing a
turn does, that a call begun after the abort was the only one whose effects
were awaited, and that the answer carries what was cut off, or will before it
can be delivered (`AnswerCarries`).

`UndoCheckpointsProofs` proves the three properties of its run for all constants,
however many calls overlap: `RestoreIsSparing` (`RestoreSparesOthers`) from the
fact that a restore's file is as the call left it, unless somebody has been there
since (`StillAsLeft`); `IdsAreUnique` (`IdsUnique`) and `NewestAreComplete`
(`NewestComplete`) from an invariant about numbers. A call has its number from
`TakeSequence` on, before there is a directory (`Number`), and never another one
(`NumberSteps`); who shares one has raced (`Races`). A call is `Superseded` if
enough directories sort after its own. To remove one of those takes that it is
superseded itself, so enough still newer ones are left: what is too old stays too
old (`SupersededKept`). Hence what a pruning has still to remove, though it was
listed long ago, is too old (`PrunedAreOld`), and so is every checkpoint that
lacks its snapshot (`ListedComplete`), also one whose directory was pruned while
it was being filled (`FiledComplete`). That is the reason pruning oldest first,
and writing `meta.json` last, survive a crash anywhere and another call's pruning
at any time.

`DaemonStartProofs` proves `StartsCleanUp` (`StartCleansUp`) for any clients,
builds and retries: who made the startup lock is starting or dead, a client
spawns once, and it returns a failure only after its process is gone.
`CommandsRunDown`, below, is about the same clients.

`ChatProofs` proves, for any number of messages and polls, `QueueIsKept`
(`QueueKept`): a message is begun or in the queue, except for what a drain drops
behind a turn begun since the last render. It rests on an invariant (`IInv`):
whoever makes messages wait is a turn under way (`PendingIsHeld`), a turn that the
screen does not show yet is before its stream (`FreshIsEarly`, from `Rendered`),
and until the next turn begins the head on screen is the head of the queue
(`HeadIsShown`), so that a drain drops the message it submits. From it also
follows `IdleIsServed`, the safety half of `QueueServed`: the last turn to end
leaves nothing on screen waiting. And `ReleasedFollowsNothingUp`
(`NoFollowupAfterQuit`). `HistoryIsSound` is
`HistorySound`, from an invariant that says of each place a turn may be at what
the history may hold of it (`Fits`): a question from when the turn begins, an
answer only once the turn is being filed, so that the error paths, which append
or take back, find what they expect although other turns wrote in between.

Of `Transcript` it proves the four properties of its run, for any number of
calls, lines, live lines and asides: `NothingIsStranded` (`NothingStranded`),
`OutputIsKept` (`OutputKept`), `NothingUnderReveals` (`NothingUnderReveal`) and
`RowsAreFrozen` (`RowsFreeze`). All four follow from one invariant of the view,
`Sound`. What the properties lack is why parked work may be run at all: it is in
the order of the calls, a result after the output it marks (`Lined`); an edit
that has more lines to come has the last place on screen, with no prose and no
other call's output waiting to go before it (`Clear`); and a command that was
heard of and has no row has its first part parked (`Announced`). `OutputSaved`
keeps apart what is shown and what is kept, which differ by live lines; `Settled`
and `Marked` say what a result has done. As parked work is run by
an induction along the list, `Sound` has a parameter `rest`, the works taken from
the list and not yet done: each handler is shown to keep `Sound(v, rest, ...)`
and to leave the rows of other calls as they are (`Onward`), `RunParked` is the
induction, and a state is sound with nothing left to do. A live line that comes
while the first part of its command is parked is the exception to all of this
(the two rows of section 4), and has an argument of its own (`Late`): while the
parked work is run, either that part is still to come, or it has opened the row
and then no line is queued and only parts of the same command are left.
`RowsAreFrozen` is then that a step changes rows of calls which are queued,
parked or being sent (`Moving`), and none of those is over and free.

The liveness properties have a safety half that is proved, for all constants:
that nothing but the fairness of section 5 is missing.

- `TurnRunsDown` (for `TurnEnds`): what a turn may still send (`Left`, counted
  over the rest of the step, the queue and the prompts to come) is a natural
  number, no step raises it, and a chunk that resets the inactivity timer lowers
  it.
- `NobodyWaitsInVain` (for `RunsInKeyOrder`): a commit is held up by its promises
  exactly while `KeyedJobs` holds it up, and while one is unfinished, one runs or
  may: key sets may overlap in a circle, but promises lead back in time, and the
  earliest unfinished commit waits for nobody.
- `LinesAreServed` (for `ServesInLine` and `EveryTaskEnds`): a line that is not
  empty has a run for its head, whose end no abort, disconnect or full registry
  can hinder (the contract always leaves something to evict), that end serves
  the line, and no task is live without being in a line.
- `CommandsRunDown` (for `CallsEnd`): each step of a client lowers its `Rank`, the
  retries and rounds it has left and then its place in the code, except in the
  wait for somebody else's start and in the poll for its own daemon, which both
  have a deadline; and what it waits to be gone has been told to stop, and has
  stopped or died. A restart counts as one round more than the start it becomes.
- `IdleIsServed` (for `QueueServed`), above.

Only model-checked: the liveness properties themselves (`EveryTaskEnds`,
`TurnEnds`, `CallsEnd`, `QueueServed`, and the fairness parts of `ServesInLine`
and `RunsInKeyOrder`), which are out of the prover's reach, as is that the fair
actions are enabled when they should be. Every other property of a passing run is
stated by a theorem.

## 7. What is not modelled

Message contents, logging, authentication and parsing of requests; `status.get`
and `task.status`, which only read; the time stamps of records beyond their
order; the cloud session store, and `removeSession`, which no chat process
calls; the reuse of pids, in session locks and in daemon locks; a daemon of
another protocol, and the listing of the daemons of all ports; what the effects
of a tool run, and the map that makes them run once; the budget notices and
finalisation texts of a turn; snapshots under `after/`, which nothing reads; the
stream surface of the transcript, paragraph breaks and the folding of repeated
notices; slash commands, pickers and usage figures of the chat.

Most of the repository's lines are in parts that have no state of their own to
go wrong: the drawing of the terminal, translations, wrappers around the file
system, processes and the network, configuration and their tests and scripts.
A specification of them would restate them. The components without a module are
in `PROJECT.json` with the reason.
