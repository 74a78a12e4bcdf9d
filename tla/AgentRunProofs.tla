---------------------------- MODULE AgentRunProofs ----------------------------
(***************************************************************************)
(* AgentRun for any budget, prompt limit, number of calls in a step and    *)
(* number of rate limits: what a turn begins, tells, answers and commits,  *)
(* and that what it can still send runs down.                              *)
(***************************************************************************)
EXTENDS AgentRun, TLAPS

\* Places of the agent loop where no call of a step is left, and where one is
\* under way.
Between == {"head", "waiting", "backoff", "closed", "failed"}
InCall == {"before", "executing", "after"}

Types ==
    /\ agent \in Between \cup InCall \cup {"streaming", "tools"}
    /\ queue \in Seq(Kind)
    /\ step \in [text : BOOLEAN, tools : 0 .. MaxPerStep, finish : Finish]
    /\ prompt \in 0 .. MaxPrompt + 1
    /\ retries \in 0 .. MaxRetries
    /\ reopened \subseteq {"empty-answer", "truncated"}
    /\ prefix \subseteq 0 .. MaxPrompt /\ answer \subseteq 0 .. MaxPrompt
    /\ calls \in Nat /\ late \in Nat /\ begun \in Nat /\ spilled \in Nat
    /\ aborted \in BOOLEAN /\ quiet \in BOOLEAN /\ committed \in BOOLEAN
    /\ open \in Nat
    /\ error \in {"none", "blocking", "failed"}
    /\ turn \in {"running", "delivered", "cancelled"}

\* The calls of a step are run before the next one begins, on a prompt that was
\* measured.
StepByStep ==
    /\ Len(queue) <= step.tools
    /\ agent \in Between => queue = <<>>
    /\ agent \in InCall => queue # <<>>
    /\ agent \notin {"head", "closed", "failed"} => prompt <= MaxPrompt

\* One call at a time is under way, and there was room for it.
OneCallAtATime ==
    /\ calls <= MaxCalls /\ late <= calls
    /\ begun = calls + (IF agent \in {"executing", "after"} THEN 1 ELSE 0)
    /\ agent \in InCall => calls < MaxCalls

\* What the client was told of and has no result for is what is still in the queue.
OpenIsQueued ==
    /\ Running => open = Len(queue) /\ error = "none"
    /\ turn = "delivered" /\ error # "failed" => open = 0

\* Nothing changes an answer that was committed.
CommitIsLast ==
    committed => agent = "closed" /\ turn = "delivered" /\ error = "none" /\ answer # {}

\* A call begun after the abort is the one whose effects were under way.
OneSpills ==
    /\ spilled <= 1
    /\ spilled > 0 => aborted /\ agent # "before"

\* The answer holds what was carried over, and after a step without tool calls
\* it is what the next one would carry over.
AnswerCarries ==
    /\ prefix \subseteq answer
    /\ agent = "tools" /\ step.tools = 0 => answer = AnswerSoFar

IInv == Types /\ StepByStep /\ OneCallAtATime /\ OpenIsQueued /\ CommitIsLast
        /\ OneSpills /\ AnswerCarries

-----------------------------------------------------------------------------
(* The end of a turn *)

LEMMA InitHolds == Init => IInv
<1> SUFFICES ASSUME Init PROVE IInv
  OBVIOUS
<1> USE ConstantsAssumption DEF Init
<1>1. NoStep \in [text : BOOLEAN, tools : 0 .. MaxPerStep, finish : Finish]
  BY DEF NoStep, Finish
<1>2. Types
  <2>1. queue \in Seq(Kind)
    OBVIOUS
  <2>2. step \in [text : BOOLEAN, tools : 0 .. MaxPerStep, finish : Finish]
    BY <1>1
  <2>3. prompt \in 0 .. MaxPrompt + 1 /\ retries \in 0 .. MaxRetries
    OBVIOUS
  <2> QED BY <2>1, <2>2, <2>3 DEF Types, Between
<1>3. StepByStep /\ OneCallAtATime /\ OpenIsQueued
  BY DEF StepByStep, OneCallAtATime, OpenIsQueued, Between, InCall, Running, NoStep
<1>4. CommitIsLast /\ OneSpills /\ AnswerCarries
  BY DEF CommitIsLast, OneSpills, AnswerCarries
<1> QED BY <1>2, <1>3, <1>4 DEF IInv

\* The agent closes its stream: after the abort, or with no call left.
LEMMA CloseKeeps ==
  ASSUME IInv, NEW err \in {error, "blocking"}, Close(err, answer),
         aborted \/ queue = <<>>, agent \notin InCall,
         UNCHANGED <<prompt, retries, text, books, aborted>>
  PROVE  IInv'
<1> USE DEF Close, text, books
<1>1. error' \in {"none", "blocking", "failed"}
      /\ turn' \in {"running", "delivered", "cancelled"} /\ committed' \in BOOLEAN
  BY DEF IInv, Types, Settle
<1>2. Types'
  BY <1>1 DEF IInv, Types, Between
<1>3. StepByStep' /\ OneCallAtATime'
  BY DEF IInv, Types, StepByStep, OneCallAtATime, Between, InCall
<1>4. OpenIsQueued'
  BY DEF IInv, Types, OpenIsQueued, Settle, Running
<1>5. CommitIsLast'
  BY DEF IInv, Types, CommitIsLast, OpenIsQueued, Settle, Commits, Running
<1>6. OneSpills' /\ AnswerCarries'
  BY DEF IInv, OneSpills, AnswerCarries
<1> QED BY <1>2, <1>3, <1>4, <1>5, <1>6 DEF IInv

\* The agent fails at the head of the loop, at the call or in its stream.
LEMMA FailKeeps ==
  ASSUME IInv, Fail, agent \in {"head", "waiting", "streaming"},
         UNCHANGED <<prompt, retries, text, books, aborted>>
  PROVE  IInv'
<1>1. CASE aborted
  <2>1. agent \notin InCall
    BY DEF InCall
  <2> QED BY <1>1, <2>1, CloseKeeps DEF Fail
<1>2. CASE ~aborted
  <2> USE <1>2 DEF Fail, GiveUp, text, books
  <2>1. Types'
    BY DEF IInv, Types, Between, Running, Kind
  <2>2. StepByStep' /\ OneCallAtATime'
    BY DEF IInv, Types, StepByStep, OneCallAtATime, Between, InCall
  <2>3. OpenIsQueued' /\ CommitIsLast'
    BY DEF IInv, Types, OpenIsQueued, CommitIsLast, Running
  <2>4. OneSpills' /\ AnswerCarries'
    BY DEF IInv, OneSpills, AnswerCarries
  <2> QED BY <2>1, <2>2, <2>3, <2>4 DEF IInv
<1> QED BY <1>1, <1>2

-----------------------------------------------------------------------------
(* The model's stream *)

LEMMA TextPartKeeps == IInv /\ TextPart => IInv'
<1> SUFFICES ASSUME IInv, TextPart PROVE IInv'
  OBVIOUS
<1> USE DEF TextPart, Chunk, text, books
<1>1. step' \in [text : BOOLEAN, tools : 0 .. MaxPerStep, finish : Finish]
      /\ step'.tools = step.tools
  BY DEF IInv, Types
<1>2. Types'
  BY <1>1 DEF IInv, Types, Running
<1>3. StepByStep' /\ OneCallAtATime'
  BY <1>1 DEF IInv, StepByStep, OneCallAtATime
<1>4. OpenIsQueued' /\ CommitIsLast'
  BY DEF IInv, Types, OpenIsQueued, CommitIsLast, Running
<1>5. OneSpills' /\ AnswerCarries'
  BY DEF IInv, OneSpills, AnswerCarries
<1> QED BY <1>2, <1>3, <1>4, <1>5 DEF IInv

LEMMA ToolCallPartKeeps == ASSUME IInv, NEW k \in Kind, ToolCallPart(k) PROVE IInv'
<1> USE DEF ToolCallPart, Chunk, text, books
<1>1. step' \in [text : BOOLEAN, tools : 0 .. MaxPerStep, finish : Finish]
      /\ step'.tools = step.tools + 1
  <2>1. step \in [text : BOOLEAN, tools : 0 .. MaxPerStep, finish : Finish]
    BY DEF IInv, Types
  <2>2. step.tools + 1 \in 0 .. MaxPerStep
    BY <2>1, ConstantsAssumption
  <2> QED BY <2>1, <2>2
<1>2. queue' \in Seq(Kind) /\ Len(queue') = Len(queue) + 1 /\ queue' # <<>>
  BY DEF IInv, Types
<1>3. Types'
  BY <1>1, <1>2 DEF IInv, Types, Running
<1>4. StepByStep' /\ OneCallAtATime'
  BY <1>1, <1>2 DEF IInv, Types, StepByStep, OneCallAtATime, Between, InCall
<1>5. OpenIsQueued' /\ CommitIsLast'
  BY <1>2 DEF IInv, Types, OpenIsQueued, CommitIsLast, Running
<1>6. OneSpills' /\ AnswerCarries'
  BY DEF IInv, OneSpills, AnswerCarries
<1> QED BY <1>3, <1>4, <1>5, <1>6 DEF IInv

LEMMA StreamEndsKeeps == ASSUME IInv, NEW f \in Finish, StreamEnds(f) PROVE IInv'
  BY ConstantsAssumption, SMTT(30)
  DEF IInv, Types, StepByStep, OneCallAtATime, OpenIsQueued, CommitIsLast, OneSpills,
      AnswerCarries, Between, InCall, StreamEnds, Chunk, Segment, AnswerSoFar,
      text, books, reader, Running, Finish

LEMMA ModelKeeps == IInv /\ Model => IInv'
<1> SUFFICES ASSUME IInv, Model PROVE IInv'
  OBVIOUS
<1> USE DEF IInv, Types, StepByStep, OneCallAtATime, OpenIsQueued, CommitIsLast,
            OneSpills, AnswerCarries, Between, InCall, text, books, reader, Running
<1>1. CASE ModelAnswers
  BY <1>1 DEF ModelAnswers
<1>2. CASE RateLimited
  BY <1>2, ConstantsAssumption DEF RateLimited
<1>3. CASE ModelFails
  BY <1>3, FailKeeps DEF ModelFails
<1>4. CASE TextPart
  BY <1>4, TextPartKeeps
<1>5. CASE ErrorPart
  BY <1>5 DEF ErrorPart, GiveUp, loop
<1>6. CASE \E k \in Kind : ToolCallPart(k)
  BY <1>6, ToolCallPartKeeps
<1>7. CASE \E f \in Finish : StreamEnds(f)
  BY <1>7, StreamEndsKeeps
<1> QED BY <1>1, <1>2, <1>3, <1>4, <1>5, <1>6, <1>7 DEF Model

-----------------------------------------------------------------------------
(* The tools *)

LEMMA ToolsKeep == IInv /\ Tools => IInv'
<1> SUFFICES ASSUME IInv, Tools PROVE IInv'
  OBVIOUS
<1> USE DEF IInv, Types, StepByStep, OneCallAtATime, OpenIsQueued, CommitIsLast,
            OneSpills, AnswerCarries, Between, InCall, text, books, reader, Running,
            Segment, AnswerSoFar
<1>1. CASE RefuseCall
  BY <1>1 DEF RefuseCall, MayCall, NextCall, Chunk
<1>2. CASE EnterCall
  BY <1>2, ConstantsAssumption DEF EnterCall, MayCall, Spent
<1>3. CASE Execute
  BY <1>3 DEF Execute
<1>4. CASE ToolSucceeds
  <2>1. CASE Head(queue) = "write"
    BY <1>4, <2>1 DEF ToolSucceeds
  <2>2. CASE Head(queue) # "write"
    BY <1>4, <2>2, ConstantsAssumption DEF ToolSucceeds, NextCall, Chunk
  <2> QED BY <2>1, <2>2
<1>5. CASE EffectsDone
  BY <1>5, ConstantsAssumption DEF EffectsDone, NextCall, Chunk
<1>6. CASE ToolFails
  BY <1>6, ConstantsAssumption DEF ToolFails, NextCall, Chunk
<1>7. CASE ToolTimesOut
  BY <1>7, ConstantsAssumption DEF ToolTimesOut, NextCall, Chunk
<1>8. CASE LateWriteEnds
  BY <1>8 DEF LateWriteEnds, loop
<1> QED BY <1>1, <1>2, <1>3, <1>4, <1>5, <1>6, <1>7, <1>8 DEF Tools

-----------------------------------------------------------------------------
(* The loop and the end of a step *)

LEMMA ReopenKeeps == IInv /\ Reopen => IInv'
<1> SUFFICES ASSUME IInv, Reopen PROVE IInv'
  OBVIOUS
<1> USE DEF Reopen, StepOver, books, reader
<1>1. Verdict \in {"truncated", "empty-answer"}
  BY DEF Reopens
<1>2. prefix' \subseteq answer /\ prefix' \subseteq 0 .. MaxPrompt
  BY DEF IInv, Types, AnswerCarries, AnswerSoFar
<1>3. prompt' \in 0 .. MaxPrompt + 1
  BY ConstantsAssumption DEF IInv, Types, StepByStep, Grown
<1>4. Types'
  BY <1>1, <1>2, <1>3 DEF IInv, Types, Between
<1>5. StepByStep' /\ OneCallAtATime'
  BY DEF IInv, Types, StepByStep, OneCallAtATime, InCall
<1>6. OpenIsQueued' /\ CommitIsLast' /\ OneSpills'
  BY DEF IInv, OpenIsQueued, CommitIsLast, OneSpills, Running
<1>7. AnswerCarries'
  BY <1>2 DEF AnswerCarries
<1> QED BY <1>4, <1>5, <1>6, <1>7 DEF IInv

LEMMA LoopKeeps == IInv /\ Loop => IInv'
<1> SUFFICES ASSUME IInv, Loop PROVE IInv'
  OBVIOUS
<1>1. CASE StopAtHead
  BY <1>1, CloseKeeps DEF StopAtHead, InCall
<1>2. CASE Overflow
  BY <1>2, FailKeeps DEF Overflow
<1>3. CASE Call
  BY <1>3, ConstantsAssumption
  DEF Call, TooLong, NoStep, IInv, Types, StepByStep, OneCallAtATime, OpenIsQueued,
      CommitIsLast, OneSpills, AnswerCarries, Between, InCall, text, books, reader,
      Running, Finish
<1>4. CASE BackoffOver
  BY <1>4
  DEF BackoffOver, IInv, Types, StepByStep, OneCallAtATime, OpenIsQueued,
      CommitIsLast, OneSpills, AnswerCarries, Between, InCall, text, books, reader, Running
<1>5. CASE StopAtTools
  BY <1>5, CloseKeeps DEF StopAtTools, InCall
<1>6. CASE Continue
  BY <1>6, ConstantsAssumption
  DEF Continue, StepOver, Grown, IInv, Types, StepByStep, OneCallAtATime, OpenIsQueued,
      CommitIsLast, OneSpills, AnswerCarries, Between, InCall, text, books, reader, Running
<1>7. CASE Reopen
  BY <1>7, ReopenKeeps
<1>8. CASE FinishTurn
  BY <1>8, CloseKeeps DEF FinishTurn, StepOver, InCall
<1> QED BY <1>1, <1>2, <1>3, <1>4, <1>5, <1>6, <1>7, <1>8 DEF Loop

-----------------------------------------------------------------------------
(* The invariant and what it says of a turn *)

LEMMA NextKeeps == IInv /\ [Next]_vars => IInv'
<1> SUFFICES ASSUME IInv, [Next]_vars PROVE IInv'
  OBVIOUS
<1> USE DEF IInv, Types, StepByStep, OneCallAtATime, OpenIsQueued, CommitIsLast,
            OneSpills, AnswerCarries, loop, text, books, reader, Running, Segment,
            AnswerSoFar
<1>1. CASE Abort
  BY <1>1 DEF Abort
<1>2. CASE Silence
  BY <1>2 DEF Silence
<1>3. CASE Inactivity
  BY <1>3 DEF Inactivity, GiveUp
<1>4. CASE UNCHANGED vars
  BY <1>4 DEF vars
<1> QED
  BY <1>1, <1>2, <1>3, <1>4, ModelKeeps, ToolsKeep, LoopKeeps DEF Next, Done

\* Every reachable state of a turn satisfies the inductive invariant.
THEOREM Invariance == Spec => []IInv
<1> QED BY InitHolds, NextKeeps, PTL DEF Spec

\* The state keeps its type: in particular the calls of a step, those that are
\* over and the late writes stay within their bounds.
THEOREM TypeCorrect == Spec => []TypeOK
<1>1. ASSUME IInv PROVE TypeOK
  <2>1. queue \in [1 .. Len(queue) -> Kind] /\ Len(queue) \in 0 .. MaxPerStep
    BY <1>1, ConstantsAssumption DEF IInv, Types, StepByStep
  <2>2. queue \in UNION {[1 .. n -> Kind] : n \in 0 .. MaxPerStep}
    BY <2>1
  <2>3. calls \in 0 .. MaxCalls /\ late \in 0 .. MaxCalls
    BY <1>1, ConstantsAssumption DEF IInv, Types, OneCallAtATime
  <2> QED BY <1>1, <2>2, <2>3 DEF IInv, Types, TypeOK, Between, InCall
<1> QED BY <1>1, Invariance, PTL

\* However many calls a step asks for, and whatever becomes of them, a turn
\* begins no more tools than its budget: the count is taken when a call is over,
\* and that is enough because the next one begins only then.
THEOREM TurnKeepsBudget == Spec => []BudgetKept
<1>1. IInv => BudgetKept
  BY ConstantsAssumption DEF IInv, Types, OneCallAtATime, BudgetKept, InCall
<1> QED BY <1>1, Invariance, PTL

\* The client of a turn that did not fail has a result for every call it saw.
THEOREM ClientHasEveryResult == Spec => []ResultsComplete
<1>1. IInv => ResultsComplete
  BY DEF IInv, OpenIsQueued, ResultsComplete
<1> QED BY <1>1, Invariance, PTL

\* Only what the client was given as an answer reaches memory.  Not the other way
\* round: what is delivered after a yield is not committed.
THEOREM MemoryGetsWhatTheClientGets == Spec => []CommitMatchesDelivery
<1>1. IInv => CommitMatchesDelivery
  BY DEF IInv, CommitIsLast, CommitMatchesDelivery
<1> QED BY <1>1, Invariance, PTL

\* After an abort at most the call whose effects were under way still runs.
THEOREM AbortStopsTheRest == Spec => []AbortLetsOneThrough
<1>1. IInv => AbortLetsOneThrough
  BY DEF IInv, OneSpills, AbortLetsOneThrough
<1> QED BY <1>1, Invariance, PTL

\* An answer that was cut off and continued is delivered whole.
THEOREM AnswerIsWhole == Spec => []AnswerWhole
<1>1. IInv => AnswerWhole
  BY DEF IInv, AnswerCarries, AnswerWhole
<1> QED BY <1>1, Invariance, PTL

-----------------------------------------------------------------------------
(* What a turn can still send *)

\* Bounds on the chunks of one step of the model, of the step under way and of the
\* turn: text, and for each tool call the call and its result; the end of the
\* stream; and the usage.
PerStep == 2 * MaxPerStep + 2

LeftInStep ==
    CASE agent \in {"head", "waiting", "backoff"} -> PerStep
      [] agent = "streaming" -> (IF step.text THEN 1 ELSE 2)
                                + 2 * (MaxPerStep - step.tools) + Len(queue)
      [] agent \in {"tools"} \cup InCall -> Len(queue)
      [] OTHER -> 0

LeftInLaterSteps == (MaxPrompt - prompt) * PerStep
Left == IF prompt > MaxPrompt THEN 0 ELSE LeftInLaterSteps + LeftInStep

\* What the agent can still send never grows, and a chunk that resets the timer
\* is one less to come.
RunsDown == Left' <= Left /\ (quiet /\ ~quiet' => Left' < Left)

LEMMA PerStepIsNat == PerStep \in Nat
  BY ConstantsAssumption DEF PerStep

LEMMA LeftInStepIsNat == IInv => LeftInStep \in Nat
<1> SUFFICES ASSUME IInv PROVE LeftInStep \in Nat
  OBVIOUS
<1>1. Len(queue) \in Nat /\ MaxPerStep - step.tools \in Nat
  BY ConstantsAssumption DEF IInv, Types
<1>2. \A n \in {1, 2} : n + 2 * (MaxPerStep - step.tools) + Len(queue) \in Nat
  BY <1>1
<1>3. (IF step.text THEN 1 ELSE 2) \in {1, 2}
  OBVIOUS
<1>4. \/ LeftInStep = PerStep \/ LeftInStep = Len(queue) \/ LeftInStep = 0
      \/ LeftInStep = (IF step.text THEN 1 ELSE 2) + 2 * (MaxPerStep - step.tools) + Len(queue)
  BY DEF LeftInStep
<1> QED BY <1>1, <1>2, <1>3, <1>4, PerStepIsNat

LEMMA LeftInStepIsNatNext == IInv' => LeftInStep' \in Nat
<1> SUFFICES ASSUME IInv' PROVE LeftInStep' \in Nat
  OBVIOUS
<1>1. Len(queue') \in Nat /\ MaxPerStep - step'.tools \in Nat
  BY ConstantsAssumption DEF IInv, Types
<1>2. \A n \in {1, 2} : n + 2 * (MaxPerStep - step'.tools) + Len(queue') \in Nat
  BY <1>1
<1>3. (IF step'.text THEN 1 ELSE 2) \in {1, 2}
  OBVIOUS
<1>4. \/ LeftInStep' = PerStep \/ LeftInStep' = Len(queue') \/ LeftInStep' = 0
      \/ LeftInStep' = (IF step'.text THEN 1 ELSE 2) + 2 * (MaxPerStep - step'.tools) + Len(queue')
  BY DEF LeftInStep
<1> QED BY <1>1, <1>2, <1>3, <1>4, PerStepIsNat

LEMMA LeftIsNat == IInv => Left \in Nat
<1> SUFFICES ASSUME IInv, prompt <= MaxPrompt PROVE Left \in Nat
  BY ConstantsAssumption DEF IInv, Types, Left
<1>1. MaxPrompt - prompt \in Nat
  BY ConstantsAssumption DEF IInv, Types
<1>2. LeftInLaterSteps \in Nat
  BY <1>1, PerStepIsNat DEF LeftInLaterSteps
<1> QED BY <1>2, LeftInStepIsNat, ConstantsAssumption DEF Left, IInv, Types

\* Within a step of the model it is enough to look at that step.
LEMMA SamePrompt ==
  ASSUME IInv, IInv', prompt' = prompt, LeftInStep' <= LeftInStep,
         quiet /\ ~quiet' => prompt <= MaxPrompt /\ LeftInStep' < LeftInStep
  PROVE  RunsDown
<1>1. CASE prompt > MaxPrompt
  BY <1>1, ConstantsAssumption DEF RunsDown, Left, IInv, Types
<1>2. CASE ~(prompt > MaxPrompt)
  <2>1. LeftInLaterSteps' = LeftInLaterSteps /\ LeftInLaterSteps \in Int
    BY LeftInStepIsNat, ConstantsAssumption DEF LeftInLaterSteps, IInv, Types, PerStep
  <2>2. LeftInStep \in Nat /\ LeftInStep' \in Nat
    BY LeftInStepIsNat, LeftInStepIsNatNext
  <2>3. prompt \in Int /\ MaxPrompt \in Int
    BY ConstantsAssumption DEF IInv, Types
  <2>4. Left = LeftInLaterSteps + LeftInStep /\ Left' = LeftInLaterSteps + LeftInStep'
    BY <1>2, <2>1, <2>3 DEF Left
  <2>5. PICK n \in Nat : n = LeftInStep'
    BY <2>2
  <2>6. LeftInLaterSteps + n <= Left /\ (n < LeftInStep => LeftInLaterSteps + n < Left)
    <3>1. n <= LeftInStep
      BY <2>5
    <3> QED BY <2>1, <2>2, <2>4, <3>1
  <2>7. Left' <= Left /\ (LeftInStep' < LeftInStep => Left' < Left)
    BY <2>4, <2>5, <2>6
  <2> QED BY <2>7 DEF RunsDown
<1> QED BY <1>1, <1>2

\* The next step of the model has what it may send set aside for it.
LEMMA NextStep ==
  ASSUME IInv, StepOver, prompt' = Grown, agent' = "head", quiet' = quiet
  PROVE  RunsDown
<1>1. LeftInStep = 0 /\ LeftInStep' = PerStep
  BY DEF LeftInStep, StepOver, InCall
<1>2. prompt \in Nat /\ prompt <= MaxPrompt /\ prompt' = prompt + 1 /\ PerStep \in Nat
  BY PerStepIsNat, ConstantsAssumption DEF IInv, Types, StepByStep, StepOver, Grown
<1>3. MaxPrompt - prompt \in Nat /\ MaxPrompt \in Nat
  BY <1>2, ConstantsAssumption
<1>4. LeftInLaterSteps = LeftInLaterSteps' + PerStep /\ LeftInLaterSteps \in Nat
  <2>1. LeftInLaterSteps' = (MaxPrompt - prompt - 1) * PerStep
    BY <1>2, <1>3 DEF LeftInLaterSteps, PerStep
  <2> QED BY <1>2, <1>3, <2>1 DEF LeftInLaterSteps
<1>5. Left = LeftInLaterSteps
  BY <1>1, <1>2, <1>3, <1>4 DEF Left
<1>6. CASE prompt' > MaxPrompt
  BY <1>4, <1>5, <1>6 DEF RunsDown, Left
<1>7. CASE ~(prompt' > MaxPrompt)
  BY <1>1, <1>4, <1>5, <1>7 DEF RunsDown, Left
<1> QED BY <1>6, <1>7

LEMMA NextRunsDown == IInv /\ [Next]_vars => RunsDown
<1> SUFFICES ASSUME IInv, [Next]_vars PROVE RunsDown
  OBVIOUS
<1>1. IInv'
  BY NextKeeps
<1>2. CASE Continue \/ Reopen
  BY <1>2, NextStep DEF Continue, Reopen, reader
<1>3. ASSUME prompt' = prompt, LeftInStep' <= LeftInStep,
             quiet /\ ~quiet' => prompt <= MaxPrompt /\ LeftInStep' < LeftInStep
      PROVE  RunsDown
  BY <1>1, <1>3, SamePrompt
<1>4. /\ queue \in Seq(Kind) /\ Len(queue) \in Nat /\ step.text \in BOOLEAN
      /\ step.tools \in 0 .. MaxPerStep
      /\ step \in [text : BOOLEAN, tools : 0 .. MaxPerStep, finish : Finish]
      /\ MaxPerStep \in Nat /\ quiet \in BOOLEAN
      /\ agent \in Between => queue = <<>>
      /\ agent \in InCall => queue # <<>>
      /\ agent \notin {"head", "closed", "failed"} => prompt <= MaxPrompt
  BY ConstantsAssumption DEF IInv, Types, StepByStep
<1> USE <1>4 DEF LeftInStep, PerStep, Between, InCall
<1>5. ASSUME NEW err, NEW ans, Close(err, ans), prompt' = prompt PROVE RunsDown
  BY <1>3, <1>5 DEF Close
<1>6. ASSUME Fail, prompt' = prompt PROVE RunsDown
  BY <1>3, <1>5, <1>6 DEF Fail
<1>7. CASE StopAtHead \/ Overflow \/ StopAtTools \/ FinishTurn \/ ModelFails
  BY <1>5, <1>6, <1>7 DEF StopAtHead, Overflow, StopAtTools, FinishTurn, ModelFails
<1>8. CASE Call \/ BackoffOver \/ ModelAnswers \/ RateLimited
  BY <1>3, <1>8 DEF Call, BackoffOver, ModelAnswers, RateLimited, NoStep, reader
<1>9. CASE TextPart
  BY <1>3, <1>9 DEF TextPart, Chunk
<1>10. ASSUME NEW k \in Kind, ToolCallPart(k) PROVE RunsDown
  BY <1>3, <1>10 DEF ToolCallPart, Chunk
<1>11. ASSUME NEW f \in Finish, StreamEnds(f) PROVE RunsDown
  BY <1>3, <1>11 DEF StreamEnds, Chunk, reader
<1>12. ASSUME NextCall, prompt' = prompt, agent = "tools" \/ agent \in InCall, queue # <<>>
       PROVE  RunsDown
  BY <1>3, <1>12 DEF NextCall, Chunk
<1>13. CASE RefuseCall \/ EffectsDone \/ ToolFails \/ ToolTimesOut
  BY <1>12, <1>13 DEF RefuseCall, MayCall, EffectsDone, ToolFails, ToolTimesOut
<1>14. CASE ToolSucceeds
  BY <1>3, <1>12, <1>14 DEF ToolSucceeds, reader
<1>15. CASE EnterCall \/ Execute
  BY <1>3, <1>15 DEF EnterCall, Execute, MayCall, reader
<1>16. CASE ErrorPart \/ LateWriteEnds \/ Abort \/ Silence \/ Inactivity \/ Done \/ UNCHANGED vars
  BY <1>3, <1>16
  DEF ErrorPart, LateWriteEnds, Abort, Silence, Inactivity, Done, vars, loop, reader, GiveUp
<1> QED
  BY <1>2, <1>7, <1>8, <1>9, <1>10, <1>11, <1>13, <1>14, <1>15, <1>16
  DEF Next, Model, Tools, Loop

\* TurnEnds without its fairness: what can still keep the inactivity timer from
\* running out is bounded when the turn begins, and is used up by whatever
\* resets the timer.  So only a timer that does not fire can keep a turn open.
THEOREM TurnRunsDown == Spec => [](Left \in Nat) /\ [][RunsDown]_vars
<1> QED BY Invariance, LeftIsNat, NextRunsDown, PTL DEF Spec

=============================================================================
