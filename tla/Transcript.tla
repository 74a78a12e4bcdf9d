------------------------------ MODULE Transcript ------------------------------
(***************************************************************************)
(* The rows the chat client shows of a turn while its events stream in     *)
(* (chat-message-handler-stream.ts).  Prose is dripped on one timer, the   *)
(* lines of an edit on another; work that would open a row under an edit   *)
(* still being revealed is parked until the reveal ends.  The handlers     *)
(* are functions from one view of the transcript to the next, and a step   *)
(* applies one of them.  In the code they reach one another through        *)
(* drainOutput; where nothing is being revealed, nothing is parked, and    *)
(* that call is RevealAll here, so that none is recursive.                 *)
(*                                                                         *)
(* Events come in the order the daemon emits them (agent-stream.ts): prose *)
(* and tool calls while the model speaks, then each call's output and      *)
(* result, one call after the other.  A piece of text, a part of output    *)
(* and a row of another kind are named by the number of the event that     *)
(* brought them; a call by its place among the calls of the turn; a row by *)
(* its place in the order of opening, which is the order on screen.  The   *)
(* stream surface, paragraph breaks and folding of repeated notices are    *)
(* left out.                                                               *)
(***************************************************************************)
EXTENDS Naturals, Sequences, FiniteSets

CONSTANTS
    MaxCalls,   \* bound: tool calls in a turn
    MaxLines,   \* bound: lines of an edit after its header
    MaxLive,    \* bound: live lines of a command
    MaxAsides   \* bound: pieces of prose, effects, task lists and notices in a turn

ASSUME ConstantsAssumption ==
    {MaxCalls, MaxLines, MaxLive, MaxAsides} \subseteq Nat

VARIABLES
    view,       \* the closure of createMessageStreamState and the rows it sets
    stream,     \* what the daemon has sent so far
    phase       \* the turn: open, finalized or disposed

transcriptVars == <<view, stream, phase>>

Calls == 1 .. MaxCalls
Kind == {"edit", "command"}
Nil == 0

\* Work parked behind a reveal.
FlushLater == [do |-> "flush", call |-> Nil, item |-> Nil, edit |-> FALSE, outcome |-> "none"]
OutputLater(c, n, e) == [do |-> "output", call |-> c, item |-> n, edit |-> e, outcome |-> "none"]
ResultLater(c, o) == [do |-> "result", call |-> c, item |-> Nil, edit |-> FALSE, outcome |-> o]

TranscriptInit ==
    /\ view = [rows |-> [id \in {} |-> Nil], made |-> 0,
               active |-> Nil, content |-> <<>>, pending |-> <<>>,
               ticking |-> FALSE, fresh |-> FALSE,
               kept |-> [c \in Calls |-> <<>>],
               rowOf |-> [c \in Calls |-> Nil], tasks |-> Nil,
               unresolved |-> {}, dropped |-> {}, paced |-> {}, held |-> {},
               backlog |-> [c \in Calls |-> <<>>], parked |-> <<>>, revealing |-> FALSE]
    /\ stream = [calls |-> <<>>, at |-> 1, sent |-> 0, busy |-> FALSE, block |-> FALSE,
                 said |-> {}, put |-> {}, asides |-> 0, clock |-> 0]
    /\ phase = "open"

-----------------------------------------------------------------------------
(* Rows *)

Open(v, kind, c, items, status) ==
    [v EXCEPT !.made = @ + 1,
              !.rows = [id \in DOMAIN @ \cup {v.made + 1} |->
                  IF id \in DOMAIN @ THEN @[id]
                  ELSE [kind |-> kind, call |-> c, items |-> items, status |-> status]]]

WithItems(rows, row, items) ==
    [id \in DOMAIN rows |-> IF id = row THEN [rows[id] EXCEPT !.items = items] ELSE rows[id]]

\* markOutcome
WithStatus(rows, ids, status) ==
    [id \in DOMAIN rows |-> IF id \in ids THEN [rows[id] EXCEPT !.status = status] ELSE rows[id]]

\* removeRows
Without(v, ids) == [v EXCEPT !.rows = [id \in DOMAIN @ \ ids |-> @[id]]]

Queued(v) == {c \in Calls : v.backlog[c] # <<>>}
InFlight(v) == Queued(v) # {}
Park(v, work) == [v EXCEPT !.parked = Append(@, work)]

-----------------------------------------------------------------------------
(* Prose and output *)

\* drainBacklog
DrainBacklog(v) ==
    [v EXCEPT !.content = @ \o v.pending, !.pending = <<>>, !.ticking = FALSE]

\* The rows of the calls with queued parts, once the tool's state is kept.
Refreshed(v, kept) ==
    [id \in DOMAIN v.rows |->
        IF v.rows[id].call \in Queued(v) /\ v.rowOf[v.rows[id].call] = id
        THEN [v.rows[id] EXCEPT !.items = kept[v.rows[id].call]]
        ELSE v.rows[id]]

\* drainOutput but for the parked work: a queued part has a row, so all of them
\* are shown in place, and every call is released.
RevealHeads(v) ==
    LET kept == [c \in Calls |-> IF c \in Queued(v) THEN Append(v.kept[c], Head(v.backlog[c]))
                                                    ELSE v.kept[c]]
    IN [v EXCEPT !.kept = kept, !.rows = Refreshed(v, kept), !.backlog = [c \in Calls |-> <<>>],
                 !.revealing = FALSE, !.paced = @ \ v.held, !.held = {}]
RevealAll(v) ==
    LET kept == [c \in Calls |-> v.kept[c] \o v.backlog[c]]
    IN [v EXCEPT !.kept = kept, !.rows = Refreshed(v, kept), !.backlog = [c \in Calls |-> <<>>],
                 !.revealing = FALSE, !.paced = @ \ v.held, !.held = {}]

\* flush: prose that has no row yet waits for a reveal.
FlushAtOnce(v) ==
    IF v.content = <<>> THEN v
    ELSE IF v.active # Nil THEN [v EXCEPT !.rows = WithItems(@, v.active, v.content)]
    ELSE [Open(v, "prose", Nil, v.content, "active") EXCEPT !.active = v.made + 1]
Flush(v) ==
    IF v.content = <<>> THEN v
    ELSE IF v.active # Nil THEN [v EXCEPT !.rows = WithItems(@, v.active, v.content)]
    ELSE IF InFlight(v) THEN Park(v, FlushLater)
    ELSE LET d == RevealAll(v)
         IN [Open(d, "prose", Nil, d.content, "active") EXCEPT !.active = d.made + 1]

\* sealAgentRow
Seal(v) ==
    LET f == Flush(DrainBacklog(v))
    IN [f EXCEPT !.rows = WithStatus(@, {f.active}, "complete"), !.active = Nil, !.content = <<>>]

\* renderOutput of a part whose call has a row.
Update(v, c, n) ==
    LET kept == Append(v.kept[c], n)
    IN [v EXCEPT !.kept[c] = kept, !.rows = WithItems(@, v.rowOf[c], kept)]

\* renderOutput of a part whose call has none, once the prose is sealed and what
\* is queued is drained.
Place(v, c, items) ==
    [Open(v, "tool", c, items, "active") EXCEPT
        !.rowOf[c] = v.made + 1, !.unresolved = @ \cup {c}]
First(v, c, n) ==
    LET kept == Append(v.kept[c], n)
    IN Place(RevealAll(Seal([v EXCEPT !.kept[c] = kept])), c, kept)

\* enqueueOutput
Enqueue(v, c, n, edit) ==
    LET p == IF edit THEN [v EXCEPT !.paced = @ \cup {c}] ELSE v IN
    IF c \in v.dropped THEN v
    ELSE IF v.rowOf[c] = Nil
    THEN IF InFlight(v) THEN Park(p, OutputLater(c, n, edit)) ELSE First(p, c, n)
    ELSE IF c \notin p.paced THEN Update(p, c, n)
    ELSE [p EXCEPT !.backlog[c] = Append(@, n), !.revealing = TRUE]

\* markToolResult, an ordinary result: the outcome shows at once, and a row with
\* parts in the queue is held out of scrollback until they are out.
HoldsNever(v, c) == FALSE
Holds(v, c) == c \in Queued(v)
Result(v, c, outcome) ==
    IF v.rowOf[c] = Nil
    THEN IF InFlight(v) THEN Park(v, ResultLater(c, outcome)) ELSE v
    ELSE LET m == [v EXCEPT !.rows = WithStatus(@, {v.rowOf[c]}, outcome), !.unresolved = @ \ {c}]
         IN IF Holds(v, c) THEN [m EXCEPT !.held = @ \cup {c}]
                           ELSE [m EXCEPT !.paced = @ \ {c}]

\* markToolResult, a call that found the budget spent: it leaves no row.
DropCall(v, c) ==
    Without([v EXCEPT !.backlog[c] = <<>>, !.held = @ \ {c}, !.paced = @ \ {c},
                      !.dropped = @ \cup {c}, !.rowOf[c] = Nil,
                      !.unresolved = @ \ {c}, !.kept[c] = <<>>],
            {v.rowOf[c]})

\* releaseParkedWork: the work in order, from the view it was parked in.
Run(v, w) ==
    CASE w.do = "flush" -> Flush(v)
      [] w.do = "output" -> Enqueue(v, w.call, w.item, w.edit)
      [] w.do = "result" -> Result(v, w.call, w.outcome)
RunParked(v) ==
    LET after[i \in 0 .. Len(v.parked)] ==
            IF i = 0 THEN [v EXCEPT !.parked = <<>>] ELSE Run(after[i - 1], v.parked[i])
    IN after[Len(v.parked)]

\* drainOutput
Drain(v) == RunParked(RevealAll(v))

\* enqueueOutput, a line of a command still running: not paced, not parked.  It
\* is shown under what is kept, and not kept; what the drain opens comes first.
Live(v, c, n) ==
    LET shown == Append(v.kept[c], n) IN
    IF c \in v.dropped THEN v
    ELSE IF v.rowOf[c] # Nil THEN [v EXCEPT !.rows = WithItems(@, v.rowOf[c], shown)]
    ELSE Place(Drain(Seal(v)), c, shown)

-----------------------------------------------------------------------------
(* The remaining handlers *)

Delta(v, n) == [v EXCEPT !.pending = Append(@, n), !.fresh = TRUE, !.ticking = TRUE]
TextEnd(v) == Flush(DrainBacklog(v))

\* renderEffect
Effect(v, n) == Open(Drain(Seal(v)), "effect", Nil, <<n>>, "complete")

\* onTasklist: one row for the list, revised in place.
Tasklist(v, n) ==
    IF v.tasks # Nil THEN [v EXCEPT !.rows = WithItems(@, v.tasks, <<n>>)]
    ELSE LET s == Seal(v)
         IN [Open(s, "tasks", Nil, <<n>>, "active") EXCEPT !.tasks = s.made + 1]

\* onProgressError, onProgressNotice
Notice(v, n) == Open(Seal(v), "notice", Nil, <<n>>, "complete")

\* cancelUnresolvedCalls
CancelUnresolved(v) ==
    [v EXCEPT !.unresolved = {},
              !.rows = WithStatus(@, {v.rowOf[c] : c \in v.unresolved}, "cancelled")]

Finalized(v) ==
    LET c == CancelUnresolved(Seal(Drain(v))) IN [Without(c, {c.tasks}) EXCEPT !.tasks = Nil]

\* dispose: the prose of the turn goes, the rows of its tools stay.
Disposed(v) ==
    LET c == [CancelUnresolved(Drain(v)) EXCEPT !.ticking = FALSE]
        prose == {id \in DOMAIN c.rows : c.rows[id].kind = "prose"}
    IN [Without(c, prose \cup {c.tasks}) EXCEPT
            !.tasks = Nil, !.active = Nil, !.content = <<>>, !.pending = <<>>]

\* tick reveals the first cut pieces, or all once nothing has come for a frame,
\* and runs again while any are left.
Ticked(v, cut) ==
    LET out == IF cut = 0 THEN Len(v.pending) ELSE cut IN
    IF v.pending = <<>> THEN [v EXCEPT !.ticking = FALSE]
    ELSE IF cut = 0 /\ v.fresh THEN [v EXCEPT !.fresh = FALSE]
    ELSE Flush([v EXCEPT !.content = @ \o SubSeq(v.pending, 1, out),
                         !.pending = SubSeq(@, out + 1, Len(@)),
                         !.ticking = out < Len(v.pending), !.fresh = FALSE])

\* The end of releaseOutput.
ThenNothing(v) == IF InFlight(v) THEN v ELSE RunParked(v)
Then(v) == IF InFlight(v) THEN [v EXCEPT !.revealing = TRUE] ELSE RunParked(v)

\* releaseOutput: one part of every queue; a call whose queue is out is released,
\* and when all are out the parked work runs.
Shifted(v) ==
    LET kept == [c \in Calls |-> IF c \in Queued(v) THEN Append(v.kept[c], Head(v.backlog[c]))
                                                    ELSE v.kept[c]]
        out == {c \in Queued(v) : Len(v.backlog[c]) = 1}
    IN [v EXCEPT !.kept = kept, !.rows = Refreshed(v, kept), !.revealing = FALSE,
                 !.backlog = [c \in Calls |-> IF c \in Queued(v) THEN Tail(@[c]) ELSE <<>>],
                 !.paced = @ \ out, !.held = @ \ out]
Released(v) == Then(Shifted(v))

-----------------------------------------------------------------------------
(* Steps: an event of the stream, a timer, or the end of the turn *)

Now == stream.clock + 1
Room == Cardinality(stream.said) + stream.asides < MaxAsides
Received(v, next) ==
    /\ phase = "open"
    /\ view' = v
    /\ stream' = [next EXCEPT !.clock = Now]
    /\ UNCHANGED phase

\* The call whose output comes next.
Running == stream.at <= Len(stream.calls)
Kinds(k) == Running /\ stream.calls[stream.at] = k
Sent(n) == [stream EXCEPT !.busy = TRUE, !.sent = n, !.put = @ \cup {Now}]

TextDelta ==
    /\ ~stream.busy /\ Room
    /\ Received(Delta(view, Now), [stream EXCEPT !.said = @ \cup {Now}, !.block = TRUE])

TextDone ==
    /\ ~stream.busy /\ stream.block
    /\ Received(TextEnd(view), [stream EXCEPT !.block = FALSE])

ToolCall ==
    /\ ~stream.busy /\ Len(stream.calls) < MaxCalls
    /\ \E k \in Kind : Received(Seal(view), [stream EXCEPT !.calls = Append(@, k)])

Header ==
    /\ Running /\ stream.sent = 0
    /\ Received(Enqueue(view, stream.at, Now, Kinds("edit")), Sent(1))

\* Lines of an edit are further parts; only its header is of kind edit-header.
EditLine ==
    /\ Kinds("edit") /\ stream.sent \in 1 .. MaxLines
    /\ Received(Enqueue(view, stream.at, Now, FALSE), Sent(stream.sent + 1))

LiveLine ==
    /\ Kinds("command") /\ stream.sent \in 1 .. MaxLive
    /\ Received(Live(view, stream.at, Now), [stream EXCEPT !.sent = @ + 1])

CommandTail ==
    /\ Kinds("command") /\ stream.sent \in 1 .. MaxLive + 1
    /\ Received(Enqueue(view, stream.at, Now, FALSE), Sent(MaxLive + 2))

\* The result ends the call; the model speaks again after the last of the step.
Answered ==
    [stream EXCEPT !.sent = 0, !.at = @ + 1, !.busy = stream.at < Len(stream.calls)]
ToolResult ==
    /\ Running
    /\ \/ \E o \in {"success", "error"} : Received(Result(view, stream.at, o), Answered)
       \/ stream.sent = 0 /\ Received(DropCall(view, stream.at), Answered)

Aside(v) == Room /\ Received(v, [stream EXCEPT !.asides = @ + 1])
EffectDone == Kinds("edit") /\ stream.sent > 0 /\ Aside(Effect(view, Now))
TasklistSent == stream.busy /\ Aside(Tasklist(view, Now))
NoticeSent == Aside(Notice(view, Now))

Tick ==
    /\ view.ticking
    /\ \E cut \in 0 .. Len(view.pending) :
        /\ cut < Len(view.pending) \/ cut = 0
        /\ view' = Ticked(view, cut)
    /\ UNCHANGED <<stream, phase>>

Reveal ==
    /\ view.revealing
    /\ view' = Released(view)
    /\ UNCHANGED <<stream, phase>>

\* The reply, an abort or a turn followed from afar.
Finalize ==
    /\ phase = "open" /\ phase' = "finalized"
    /\ view' = Finalized(view) /\ UNCHANGED stream

\* A turn that failed.
Dispose ==
    /\ phase = "open" /\ phase' = "disposed"
    /\ view' = Disposed(view) /\ UNCHANGED stream

TranscriptNext ==
    \/ TextDelta \/ TextDone \/ ToolCall \/ Header \/ EditLine \/ LiveLine \/ CommandTail
    \/ ToolResult \/ EffectDone \/ TasklistSent \/ NoticeSent
    \/ Tick \/ Reveal \/ Finalize \/ Dispose

\* Timers of the event loop fire; the turn ends (AgentRun).
TranscriptSpec ==
    /\ TranscriptInit /\ [][TranscriptNext]_transcriptVars
    /\ WF_transcriptVars(Tick) /\ WF_transcriptVars(Reveal)

-----------------------------------------------------------------------------
(* Properties *)

Items(seq) == {seq[j] : j \in DOMAIN seq}
Shown == UNION {Items(view.rows[id].items) : id \in DOMAIN view.rows}
Growing == {view.rowOf[c] : c \in Queued(view)}
Held == {view.rowOf[c] : c \in view.held}
Overtaken == {w.call : w \in {u \in Items(view.parked) : u.do = "output"}}

\* "Nothing opens beneath a row that is still revealing, or that row would grow
\* and push this one down" (renderOutput).
NothingBeneathReveal ==
    \A above, below \in DOMAIN view.rows :
        (above < below /\ above \in Growing) => view.rows[below].kind \notin {"prose", "tool"}

\* The same but for what the code does not keep: the row of a command may, when a
\* live line of it comes while its first part is parked behind two edits.
NothingUnderReveal ==
    \A above, below \in DOMAIN view.rows :
        (above < below /\ above \in Growing) =>
            \/ view.rows[below].kind \notin {"prose", "tool"}
            \/ view.rows[below].call \in Overtaken

\* "A queued part only updates a row that exists, so this cannot reach back here"
\* (renderOutput): a call has one row.
OneRowPerCall ==
    \A c \in Calls : Cardinality({id \in DOMAIN view.rows : view.rows[id].call = c}) <= 1

\* Nothing a tool has put out is lost on the way to the screen: it is shown, in
\* a queue or parked, whatever order results, timers and other calls come in.
OutputKept ==
    stream.put \subseteq Shown
        \cup (UNION {Items(view.backlog[c]) : c \in Calls})
        \cup {w.item : w \in Items(view.parked)}

\* Whatever waits for a timer has that timer running: prose for the first, lines
\* and parked work for the second, which runs only while a line is queued.
NothingStranded ==
    /\ view.pending # <<>> => view.ticking
    /\ view.parked # <<>> => InFlight(view)
    /\ InFlight(view) => view.revealing

\* "The single chokepoint every seal/read path routes through, so
\* dripped-but-unrevealed text can never render after a later row (reorder) or be
\* lost when the closure resets" (drainBacklog): prose that came in is on screen
\* or still to be shown, unless the turn failed.
NoProseLost ==
    phase # "disposed" =>
        stream.said \subseteq Shown \cup Items(view.pending) \cup Items(view.content)

\* A row whose call is over and that is not held out of the scrollback gains no
\* line while the turn is open: scrolled back, it could not show it.  A command
\* whose first part was overtaken is not covered.
RowsFreeze ==
    [][\A id \in DOMAIN view.rows \cap DOMAIN view'.rows :
        (/\ phase = "open" /\ view.rows[id].kind = "tool"
         /\ view.rows[id].status # "active" /\ id \notin Held
         /\ view.rows[id].call \notin Overtaken)
        => view.rows[id].items = view'.rows[id].items]_transcriptVars

=============================================================================
