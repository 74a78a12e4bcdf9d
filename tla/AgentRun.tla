------------------------------- MODULE AgentRun -------------------------------
(***************************************************************************)
(* One turn of the daemon (lifecycle.ts, lifecycle-generate.ts).  Two      *)
(* activities share it.  The agent loop (agent-stream.ts) calls the model, *)
(* runs the tools the model asks for (tool-execution.ts) and writes what   *)
(* happens as chunks into a stream.  The reader (streamWithTimeout) takes  *)
(* the chunks, emits events to the client and, when the stream ends or     *)
(* nothing has come for stepTimeoutMs, ends the turn: runLifecycle accepts *)
(* the result, commits it to memory or drops it, and runChatRequest        *)
(* answers the client.  The reader is never told to stop the agent: only   *)
(* the client's abort signal reaches it.                                   *)
(*                                                                         *)
(* A chunk is read in the microtasks that follow its writing, before any   *)
(* timer or message, so writing and reading are one step.  The prompt is   *)
(* measured in steps added to it; a segment of the answer is named by the  *)
(* prompt that produced it.                                                *)
(***************************************************************************)
EXTENDS Integers, Sequences, FiniteSets

CONSTANTS
    MaxCalls,       \* maxToolCallsPerRequest
    MaxPrompt,      \* preCallInputTokenLimit, in steps
    MaxPerStep,     \* bound: tool calls the model makes in one step
    MaxRetries      \* bound: rate limit errors in one turn

ASSUME ConstantsAssumption ==
    /\ MaxCalls \in Nat /\ MaxPrompt \in Nat
    /\ MaxPerStep \in Nat /\ MaxRetries \in Nat

VARIABLES
    agent,      \* where the agent loop is
    queue,      \* tool calls of the step still to be run
    step,       \* what the model has sent in this step
    prompt,     \* size of the messages
    retries,    \* rate limit errors so far
    reopened,   \* reasons the completion gate has reopened the turn for
    prefix,     \* truncatedPrefix, as a set of segments
    answer,     \* answerText, likewise
    calls,      \* length of callLog
    late,       \* writes that timed out and are still going on
    aborted,    \* runControl.signal.aborted
    quiet,      \* no chunk since the inactivity timer was last near its end
    open,       \* tool-call events the client has no tool-result for
    error,      \* currentError
    turn,       \* what became of the turn
    committed,  \* a memory commit was scheduled
    begun,      \* history: tools begun
    spilled     \* history: tools begun after the abort

loop == <<agent, queue, step>>
text == <<prefix, answer, reopened>>
books == <<calls, late, begun, spilled>>
reader == <<quiet, open, error, turn, committed>>
vars == <<loop, prompt, retries, text, books, aborted, reader>>

Kind == {"read", "write", "unknown"}
Finish == {"none", "stop", "tool-calls", "length", "content-filter", "error"}
NoStep == [text |-> FALSE, tools |-> 0, finish |-> "none"]
Running == turn = "running"

TypeOK ==
    /\ agent \in {"head", "waiting", "backoff", "streaming", "tools",
                  "before", "executing", "after", "closed", "failed"}
    /\ queue \in UNION {[1 .. n -> Kind] : n \in 0 .. MaxPerStep}
    /\ step \in [text : BOOLEAN, tools : 0 .. MaxPerStep, finish : Finish]
    /\ prompt \in 0 .. MaxPrompt + 1
    /\ retries \in 0 .. MaxRetries
    /\ reopened \subseteq {"empty-answer", "truncated"}
    /\ prefix \subseteq 0 .. MaxPrompt /\ answer \subseteq 0 .. MaxPrompt
    /\ calls \in 0 .. MaxCalls /\ late \in 0 .. MaxCalls
    /\ begun \in Nat /\ spilled \in Nat
    /\ aborted \in BOOLEAN /\ quiet \in BOOLEAN
    /\ open \in Nat
    /\ error \in {"none", "blocking", "failed"}
    /\ turn \in {"running", "delivered", "cancelled"}
    /\ committed \in BOOLEAN

Init ==
    /\ agent = "head" /\ queue = <<>> /\ step = NoStep
    /\ prompt = 0 /\ retries = 0
    /\ reopened = {} /\ prefix = {} /\ answer = {}
    /\ calls = 0 /\ late = 0 /\ begun = 0 /\ spilled = 0
    /\ aborted = FALSE /\ quiet = FALSE /\ open = 0
    /\ error = "none" /\ turn = "running" /\ committed = FALSE

-----------------------------------------------------------------------------
(* The end of a turn *)

\* runLifecycle after phaseGenerate has a result, and runChatRequest after it:
\* a turn that yields to queued work is delivered and not committed, an aborted
\* one neither.  The commit looks at blocksCompletion and at the text.
CommitsAborted(err, ans) == err # "blocking" /\ ans # {}
Commits(err, ans) == ~aborted /\ err # "blocking" /\ ans # {}

Settle(err, ans) ==
    \E yields \in BOOLEAN :
        /\ error' = err
        /\ committed' = (~yields /\ Commits(err, ans))
        /\ turn' = IF aborted THEN "cancelled" ELSE "delivered"

\* phaseGenerate without a result: the turn is finalised with the error, and
\* nothing is committed.
GiveUp ==
    /\ error' = "failed"
    /\ turn' = IF aborted THEN "cancelled" ELSE "delivered"
    /\ UNCHANGED committed

\* The agent closes its stream; the reader, if there still is one, settles.
Close(err, ans) ==
    /\ agent' = "closed" /\ queue' = <<>> /\ UNCHANGED step
    /\ IF Running THEN Settle(err, ans) ELSE UNCHANGED <<error, turn, committed>>
    /\ UNCHANGED <<quiet, open>>

\* The agent fails: its promise rejects and its stream errors.  A failure after
\* the abort is the abort itself and closes the stream quietly.
Fail ==
    IF aborted
    THEN Close(error, answer)
    ELSE /\ agent' = "failed" /\ queue' = <<>> /\ UNCHANGED step
         /\ IF Running THEN GiveUp ELSE UNCHANGED <<error, turn, committed>>
         /\ UNCHANGED <<quiet, open>>

\* A chunk reaches the reader, if there still is one, and resets its timer.
Chunk(delta) ==
    /\ quiet' = (quiet /\ ~Running)
    /\ open' = IF Running THEN open + delta ELSE open
    /\ UNCHANGED <<error, turn, committed>>

-----------------------------------------------------------------------------
(* The agent loop *)

TooLongNever == FALSE
TooLong == prompt > MaxPrompt

\* Head of the loop: the abort is looked at, then the size of the prompt.
StopAtHead ==
    /\ agent = "head" /\ aborted
    /\ Close(error, answer)
    /\ UNCHANGED <<prompt, retries, text, books, aborted>>

Overflow ==
    /\ agent = "head" /\ ~aborted /\ TooLong
    /\ Fail
    /\ UNCHANGED <<prompt, retries, text, books, aborted>>

Call ==
    /\ agent = "head" /\ ~aborted /\ ~TooLong
    /\ agent' = "waiting" /\ step' = NoStep /\ UNCHANGED queue
    /\ UNCHANGED <<prompt, retries, text, books, aborted, reader>>

\* The provider answers with a stream, with a rate limit, or with an error; the
\* back-off neither counts its retries nor hears the abort.
ModelAnswers ==
    /\ agent = "waiting"
    /\ agent' = "streaming"
    /\ UNCHANGED <<queue, step, prompt, retries, text, books, aborted, reader>>

RateLimited ==
    /\ agent = "waiting" /\ retries < MaxRetries
    /\ agent' = "backoff" /\ retries' = retries + 1
    /\ UNCHANGED <<queue, step, prompt, text, books, aborted, reader>>

BackoffOver ==
    /\ agent = "backoff"
    /\ agent' = "head"
    /\ UNCHANGED <<queue, step, prompt, retries, text, books, aborted, reader>>

\* The call or its stream fails, because of the abort or of itself.
ModelFails ==
    /\ agent \in {"waiting", "streaming"}
    /\ Fail
    /\ UNCHANGED <<prompt, retries, text, books, aborted>>

\* Parts of the stream.  One text part stands for all text of a step, which the
\* provider's output limit bounds.
TextPart ==
    /\ agent = "streaming" /\ ~step.text
    /\ step' = [step EXCEPT !.text = TRUE]
    /\ Chunk(0)
    /\ UNCHANGED <<agent, queue, prompt, retries, text, books, aborted>>

ToolCallPart(k) ==
    /\ agent = "streaming" /\ step.tools < MaxPerStep
    /\ queue' = Append(queue, k)
    /\ step' = [step EXCEPT !.tools = @ + 1]
    /\ Chunk(1)
    /\ UNCHANGED <<agent, prompt, retries, text, books, aborted>>

\* An error part is no end of the stream for the agent, but the reader throws.
ErrorPart ==
    /\ agent = "streaming" /\ Running
    /\ GiveUp
    /\ UNCHANGED <<loop, prompt, retries, text, books, aborted, quiet, open>>

Segment == {p \in {prompt} : step.text}
AnswerAnew == Segment
AnswerSoFar == prefix \cup Segment

\* The stream ends, with a finish part unless the provider left it out; the
\* usage it reports is a chunk.  A step without tool calls carries the answer.
StreamEnds(f) ==
    /\ agent = "streaming"
    /\ agent' = "tools" /\ step' = [step EXCEPT !.finish = f] /\ UNCHANGED queue
    /\ answer' = IF step.tools = 0
                 THEN AnswerSoFar
                 ELSE answer
    /\ IF f = "none" THEN UNCHANGED reader ELSE Chunk(0)
    /\ UNCHANGED <<prompt, retries, prefix, reopened, books, aborted>>

-----------------------------------------------------------------------------
(* Tool calls, one after another *)

SpentLate == calls > MaxCalls
Spent == calls >= MaxCalls

\* The abort is looked at before each call.
MayCallOn == agent = "tools" /\ queue # <<>>
MayCall == agent = "tools" /\ ~aborted /\ queue # <<>>

NextCallQuiet ==
    /\ agent' = "tools" /\ queue' = Tail(queue) /\ UNCHANGED step
    /\ Chunk(IF open > 0 /\ Head(queue) # "unknown" THEN -1 ELSE 0)

\* A call is over: its result or error goes to the client and to the prompt.
NextCall ==
    /\ agent' = "tools" /\ queue' = Tail(queue) /\ UNCHANGED step
    /\ Chunk(IF open > 0 THEN -1 ELSE 0)

\* A tool nobody knows (or one whose arguments do not parse), or one the budget has
\* no room for: an error for the model, not a call in the log.
RefuseCall ==
    /\ MayCall
    /\ Head(queue) = "unknown" \/ Spent
    /\ NextCall
    /\ UNCHANGED <<prompt, retries, text, books, aborted>>

\* Effects before the tool (install, undo capture) are awaited; the abort is not
\* looked at again after them.
EnterCall ==
    /\ MayCall
    /\ Head(queue) # "unknown" /\ ~Spent
    /\ agent' = "before"
    /\ UNCHANGED <<queue, step, prompt, retries, text, books, aborted, reader>>

Execute ==
    /\ agent = "before"
    /\ agent' = "executing"
    /\ begun' = begun + 1
    /\ spilled' = spilled + (IF aborted THEN 1 ELSE 0)
    /\ UNCHANGED <<queue, step, prompt, retries, text, calls, late, aborted, reader>>

\* The tool returns; a write that succeeded is formatted and linted before its
\* result is assembled.
ToolSucceeds ==
    /\ agent = "executing"
    /\ IF Head(queue) = "write"
       THEN /\ agent' = "after" /\ UNCHANGED <<queue, step, reader, calls>>
       ELSE NextCall /\ calls' = calls + 1
    /\ UNCHANGED <<prompt, retries, text, late, begun, spilled, aborted>>

EffectsDone ==
    /\ agent = "after"
    /\ NextCall
    /\ calls' = calls + 1
    /\ UNCHANGED <<prompt, retries, text, late, begun, spilled, aborted>>

ToolFails ==
    /\ agent = "executing"
    /\ NextCall
    /\ calls' = calls + 1
    /\ UNCHANGED <<prompt, retries, text, late, begun, spilled, aborted>>

\* withTimeout rejects; what it waited for goes on.
ToolTimesOut ==
    /\ agent = "executing"
    /\ NextCall
    /\ calls' = calls + 1
    /\ late' = late + (IF Head(queue) = "write" THEN 1 ELSE 0)
    /\ UNCHANGED <<prompt, retries, text, begun, spilled, aborted>>

LateWriteEnds ==
    /\ late > 0
    /\ late' = late - 1
    /\ UNCHANGED <<loop, prompt, retries, text, calls, begun, spilled, aborted, reader>>

\* The abort is looked at before each call and after the last.
StopAtTools ==
    /\ agent = "tools" /\ aborted
    /\ Close(error, answer)
    /\ UNCHANGED <<prompt, retries, text, books, aborted>>

-----------------------------------------------------------------------------
(* The end of a step *)

StepOver == agent = "tools" /\ ~aborted /\ queue = <<>>
Terminal == step.tools = 0 \/ step.finish \notin {"none", "tool-calls"}
Grown == IF prompt > MaxPrompt THEN prompt ELSE prompt + 1

\* classifyTerminalStep
Verdict ==
    CASE step.finish \in {"content-filter", "error"} -> "failed"
      [] step.finish = "length" -> "truncated"
      [] step.finish \notin {"content-filter", "error", "length"} /\ answer = {} -> "empty-answer"
      [] OTHER -> "accept"

\* decideFinish: each reason reopens the turn once.
Reopens == Verdict \in {"truncated", "empty-answer"} \ reopened

Continue ==
    /\ StepOver /\ ~Terminal
    /\ agent' = "head" /\ prompt' = Grown
    /\ UNCHANGED <<queue, step, retries, text, books, aborted, reader>>

Reopen ==
    /\ StepOver /\ Terminal /\ Reopens
    /\ agent' = "head" /\ prompt' = Grown
    /\ reopened' = reopened \cup {Verdict}
    /\ prefix' = IF step.tools = 0 /\ step.finish = "length"
                 THEN AnswerSoFar
                 ELSE prefix
    /\ UNCHANGED <<queue, step, answer, retries, books, aborted, reader>>

FinishTurn ==
    /\ StepOver /\ Terminal /\ ~Reopens
    /\ Close(IF Verdict = "accept" THEN error ELSE "blocking", answer)
    /\ UNCHANGED <<prompt, retries, text, books, aborted>>

-----------------------------------------------------------------------------
(* The client and the timers *)

\* chat.abort, a disconnect or a shutdown aborts a run that is still active.
Abort ==
    /\ Running /\ ~aborted
    /\ aborted' = TRUE
    /\ UNCHANGED <<loop, prompt, retries, text, books, reader>>

\* The inactivity timer: time passes without a chunk, then it fires.
Silence ==
    /\ Running /\ ~quiet
    /\ quiet' = TRUE
    /\ UNCHANGED <<loop, prompt, retries, text, books, aborted, open, error, turn, committed>>

Inactivity ==
    /\ Running /\ quiet
    /\ GiveUp
    /\ UNCHANGED <<loop, prompt, retries, text, books, aborted, quiet, open>>

Done == ~Running /\ agent \in {"closed", "failed"} /\ late = 0 /\ UNCHANGED vars

Model == ModelAnswers \/ RateLimited \/ ModelFails \/ TextPart \/ ErrorPart
         \/ (\E k \in Kind : ToolCallPart(k)) \/ (\E f \in Finish : StreamEnds(f))
Tools == RefuseCall \/ EnterCall \/ Execute \/ ToolSucceeds \/ EffectsDone
         \/ ToolFails \/ ToolTimesOut \/ LateWriteEnds
Loop == StopAtHead \/ Overflow \/ Call \/ BackoffOver \/ StopAtTools
        \/ Continue \/ Reopen \/ FinishTurn

Next == Model \/ Tools \/ Loop \/ Abort \/ Silence \/ Inactivity \/ Done

\* Timers fire; nothing is assumed of the provider, the tools or the client.
Spec == Init /\ [][Next]_vars /\ WF_vars(Silence) /\ WF_vars(Inactivity)

-----------------------------------------------------------------------------
(* Properties *)

\* docs/lifecycle.md, "Tool-call budget": no turn begins more tools than its
\* ceiling.  The count is of calls that are over (recordCall), so it holds only
\* as long as one call at a time is under way, in the turn and after its end.
BudgetKept == begun <= MaxCalls

\* The client of a turn that was answered without a failure has a result for
\* every tool call it was told of: refused, unknown, failed and timed-out calls
\* (agent-stream.ts) all close theirs.
ResultsComplete == turn = "delivered" /\ error # "failed" => open = 0

\* docs/lifecycle.md, "Run control": an answer reaches memory only when the
\* client gets it, as an answer: not when the run was aborted, when the gate
\* withheld it, when the reader gave up or when there is no text.
CommitMatchesDelivery ==
    committed => turn = "delivered" /\ error = "none" /\ answer # {}

\* docs/lifecycle.md, "Run control": the signal is looked at before each tool
\* call.  A call whose effects were under way when the abort came still runs,
\* and none behind it does.
AbortLetsOneThrough == spilled <= 1

\* agent-stream.ts: an answer that was cut off and continued is delivered with
\* everything that came before the cuts, whatever steps came in between.
AnswerWhole == turn = "delivered" /\ error = "none" => prefix \subseteq answer

\* Every turn ends: the reader's timer sees to it while nothing comes, and what
\* can come is bounded by the prompt.  ServerRpc assumes this of a run.
TurnEnds == <>(turn # "running")

\* lifecycle-contract.ts: "an edit can never race the formatter rewriting the
\* file underneath it".  The code does not keep this (README, section 4): a write
\* that timed out goes on while the next one is formatted.
EditNeverRacesFormatter == ~(agent = "after" /\ late > 0)

=============================================================================
