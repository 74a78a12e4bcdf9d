----------------------------- MODULE ChatProofs -----------------------------
(***************************************************************************)
(* The chat client's two halves.  ChatClient, for any number of messages   *)
(* and polls: what is typed is begun or waits in the queue, up to the one  *)
(* drain that may drop a message, the last turn to end leaves nothing on   *)
(* screen waiting, a client that was released follows no task up, and the  *)
(* history stays sound however turns overlap.  Transcript, for any number  *)
(* of calls, lines and asides: no output is lost, nothing waits for a      *)
(* timer that does not run, rows open below a reveal only where the code   *)
(* lets them, and a row that is out of it freezes.                         *)
(***************************************************************************)
EXTENDS ChatClient, Transcript, WellFoundedInduction, NaturalsInduction, SequenceTheorems,
        TLAPS

Types ==
    /\ typed \in 0 .. MaxMessages
    /\ stage \in [Turn -> Stages]
    /\ text \in Seq(Message) /\ queue \in Seq(Message) /\ shown \in Seq(Message)
    /\ interrupt \in Turn \cup {None} /\ fresh \in Turn \cup {None}

\* Turns are numbered as they begin.
TurnsInOrder == \A t \in Turn : stage[t] = "unused" <=> t > Len(text)

\* A message is made to wait only while a turn is under way.
PendingIsHeld == pending => SomeTurn

\* A turn begun since the last render is not yet at its stream.
Early == {"preparing", "saving", "opening"}
FreshIsEarly == fresh # None => stage[fresh] \in Early

\* Until the next turn begins, the head on screen is the head of the queue.
HeadIsShown == fresh = None /\ shown # <<>> => queue # <<>> /\ Head(queue) = Head(shown)

IInv == Types /\ TurnsInOrder /\ PendingIsHeld /\ FreshIsEarly /\ HeadIsShown

\* The last turn to end leaves no message on screen waiting.
LastTurnServes == [][SomeTurn /\ ~SomeTurn' => shown = <<>>]_vars

-----------------------------------------------------------------------------
(* Steps that leave the queue alone *)

\* A turn goes from one place to another, and stays under way.
LEMMA TurnGoesOn ==
  ASSUME IInv, NEW t \in Turn, stage[t] \in Underway,
         NEW s \in Underway, t = fresh => s \in Early,
         stage' = [stage EXCEPT ![t] = s], UNCHANGED lines,
         interrupt' \in Turn \cup {None}
  PROVE  IInv'
<1>1. stage' \in [Turn -> Stages] /\ \A u \in Turn : stage'[u] = IF u = t THEN s ELSE stage[u]
  BY DEF IInv, Types, Stages
<1>2. Types' /\ HeadIsShown'
  BY <1>1 DEF IInv, Types, HeadIsShown, lines
<1>3. TurnsInOrder'
  BY <1>1 DEF IInv, TurnsInOrder, Underway, lines
<1>4. PendingIsHeld'
  BY <1>1 DEF PendingIsHeld, SomeTurn
<1>5. FreshIsEarly'
  BY <1>1 DEF IInv, Types, FreshIsEarly, lines
<1> QED BY <1>2, <1>3, <1>4, <1>5 DEF IInv

LEMMA NothingMoves ==
  ASSUME IInv, UNCHANGED <<lines, stage>>, pending' => pending,
         interrupt' \in Turn \cup {None}
  PROVE  IInv'
  BY DEF IInv, Types, TurnsInOrder, PendingIsHeld, SomeTurn, FreshIsEarly, HeadIsShown, lines

LEMMA RenderKeeps == IInv /\ Render => IInv'
  BY DEF Render, IInv, Types, TurnsInOrder, PendingIsHeld, SomeTurn, FreshIsEarly, HeadIsShown,
         Turn, None

-----------------------------------------------------------------------------
(* The queue *)

LEMMA NewTurn == IInv => Len(text) \in Nat /\ Len(text) + 1 # None
  BY DEF IInv, Types, None

\* A turn begins, at once or because another one has ended.
LEMMA BeginKeeps ==
  ASSUME IInv, NEW m \in Message, NEW st \in [Turn -> Stages],
         \A t \in Turn : st[t] = "unused" <=> stage[t] = "unused",
         Begin(m, st), queue' \in Seq(Message), UNCHANGED shown,
         typed' \in 0 .. MaxMessages, interrupt' \in Turn \cup {None}
  PROVE  IInv'
<1> DEFINE t == Len(text) + 1
<1>1. /\ t \in Turn /\ stage' = [st EXCEPT ![t] = "preparing"] /\ fresh' = t
      /\ text' = Append(text, m)
  BY DEF Begin
<1>2. t # None /\ text' \in Seq(Message) /\ Len(text') = t /\ t \in Nat /\ Len(text) \in Nat
  BY <1>1, NewTurn DEF IInv, Types
<1> HIDE DEF t
<1>3. stage' \in [Turn -> Stages] /\ \A u \in Turn : stage'[u] = IF u = t THEN "preparing" ELSE st[u]
  BY <1>1 DEF Stages, Underway
<1>4. Types' /\ HeadIsShown'
  BY <1>1, <1>2, <1>3 DEF IInv, Types, HeadIsShown
<1>5. TurnsInOrder'
  <2> SUFFICES ASSUME NEW u \in Turn PROVE stage'[u] = "unused" <=> u > Len(text')
    BY DEF TurnsInOrder
  <2>1. u \in Nat /\ (stage[u] = "unused" <=> u > Len(text))
    BY DEF Turn, MaxTurns, IInv, TurnsInOrder
  <2>2. CASE u = t
    BY <1>2, <1>3, <2>1, <2>2
  <2>3. CASE u # t
    <3>1. u > Len(text) <=> u > t
      BY <1>2, <2>1, <2>3 DEF t
    <3> QED BY <1>2, <1>3, <2>1, <2>3, <3>1
  <2> QED BY <2>2, <2>3
<1>6. PendingIsHeld' /\ FreshIsEarly'
  BY <1>1, <1>3 DEF PendingIsHeld, SomeTurn, FreshIsEarly, Early, Underway
<1> QED BY <1>4, <1>5, <1>6 DEF IInv

LEMMA SubmitKeeps == IInv /\ Submit => IInv'
<1> SUFFICES ASSUME IInv, Submit PROVE IInv'
  OBVIOUS
<1>1. /\ typed' \in Message /\ typed' \in 0 .. MaxMessages
      /\ UNCHANGED <<interrupt, shown>> /\ interrupt \in Turn \cup {None}
  BY MaxMessagesAssumption DEF Submit, IInv, Types, Message
<1>2. CASE pending /\ queue' = Append(queue, typed') /\ UNCHANGED <<text, stage, pending, fresh>>
  <2>1. queue' \in Seq(Message) /\ queue' # <<>> /\ (queue # <<>> => Head(queue') = Head(queue))
    BY <1>1, <1>2 DEF IInv, Types
  <2> QED BY <1>1, <1>2, <2>1
      DEF IInv, Types, TurnsInOrder, PendingIsHeld, SomeTurn, FreshIsEarly, HeadIsShown
<1>3. CASE Begin(typed', stage) /\ UNCHANGED queue
  BY <1>1, <1>3, BeginKeeps DEF IInv, Types
<1>4. CASE fresh # None /\ Requeue(typed', queue) /\ UNCHANGED <<text, stage, pending, fresh>>
  <2>1. queue' \in Seq(Message)
    BY <1>1, <1>4 DEF Requeue, IInv, Types
  <2> QED BY <1>1, <1>4, <2>1
      DEF IInv, Types, TurnsInOrder, PendingIsHeld, SomeTurn, FreshIsEarly, HeadIsShown
<1> QED BY <1>2, <1>3, <1>4 DEF Submit

LEMMA OverKeeps ==
  ASSUME IInv, NEW t \in Turn, stage[t] \in {"filing", "following"}, Over(t),
         interrupt' \in Turn \cup {None}
  PROVE  IInv'
<1> DEFINE st == [stage EXCEPT ![t] = "over"]
           rest == IF queue = <<>> THEN <<>> ELSE Tail(queue)
<1>1. /\ st \in [Turn -> Stages]
      /\ \A u \in Turn : st[u] = "unused" <=> stage[u] = "unused"
      /\ fresh # None => st[fresh] \in Early
  BY DEF IInv, Types, Stages, FreshIsEarly, Early
<1>2. Drained(st) /\ UNCHANGED <<typed, shown>>
  BY DEF Over
<1>3. rest \in Seq(Message) /\ (shown # <<>> => Head(shown) \in Message)
  BY DEF IInv, Types
<1> HIDE DEF st, rest
<1>4. CASE stage' = st /\ ~pending' /\ UNCHANGED <<text, fresh>>
           /\ queue' \in Seq(Message) /\ (fresh = None => shown = <<>>)
  BY <1>1, <1>2, <1>4
  DEF IInv, Types, TurnsInOrder, PendingIsHeld, FreshIsEarly, HeadIsShown
<1>5. CASE shown = <<>> /\ stage' = st /\ pending' = FALSE /\ UNCHANGED <<text, history, queue, fresh>>
  BY <1>4, <1>5 DEF IInv, Types
<1>6. CASE shown # <<>> /\ Begin(Head(shown), st) /\ queue' = rest
  BY <1>1, <1>2, <1>3, <1>6, BeginKeeps DEF IInv, Types
<1>7. CASE shown # <<>> /\ fresh # None /\ Requeue(Head(shown), rest)
           /\ stage' = st /\ pending' = FALSE /\ UNCHANGED <<text, history, fresh>>
  <2>1. queue' \in Seq(Message)
    BY <1>1, <1>3, <1>7 DEF Requeue
  <2> QED BY <1>4, <1>7, <2>1
<1> QED BY <1>2, <1>5, <1>6, <1>7 DEF Drained, rest

-----------------------------------------------------------------------------
(* The steps of a turn *)

LEMMA RejectedKeeps ==
  ASSUME IInv, NEW t \in Turn, NEW kind, stage[t] \in Underway, fresh # t, Rejected(t, kind)
  PROVE  IInv'
<1>1. {"asking", "filing"} \subseteq Underway
  BY DEF Underway
<1> QED BY <1>1, TurnGoesOn DEF Rejected, IInv, Types

LEMMA TurnKeeps ==
  ASSUME IInv, NEW t \in Turn, GoOn(t) \/ Accept(t) \/ Event(t)
  PROVE  IInv'
<1>0. /\ interrupt \in Turn \cup {None} /\ t # None
      /\ t = fresh => stage[t] \in Early
  BY DEF IInv, Types, Turn, None, FreshIsEarly
<1> USE DEF Underway, Early
<1>1. CASE Prepared(t)
  BY <1>0, <1>1, TurnGoesOn DEF Prepared
<1>2. CASE Saved(t)
  BY <1>0, <1>2, TurnGoesOn DEF Saved
<1>3. CASE Connected(t)
  BY <1>0, <1>3, TurnGoesOn, RejectedKeeps DEF Connected, Rendered
<1>4. CASE Refused(t) \/ Failed(t) \/ Closed(t)
  BY <1>0, <1>4, RejectedKeeps DEF Refused, Failed, Closed, Rendered
<1>5. CASE Accept(t) \/ Event(t)
  BY <1>0, <1>5, NothingMoves DEF Accept, Event
<1>6. CASE Done(t)
  BY <1>0, <1>6, TurnGoesOn DEF Done
<1>7. CASE Filed(t)
  BY <1>0, <1>7, OverKeeps DEF Filed
<1>8. CASE Asked(t)
  BY <1>0, <1>8, TurnGoesOn DEF Asked
<1>9. CASE Followed(t)
  BY <1>0, <1>9, OverKeeps, NothingMoves DEF Followed
<1> QED BY <1>1, <1>2, <1>3, <1>4, <1>5, <1>6, <1>7, <1>8, <1>9 DEF GoOn

LEMMA InterruptKeeps == IInv /\ Interrupt => IInv'
<1> SUFFICES ASSUME IInv, Interrupt PROVE IInv'
  OBVIOUS
<1>1. interrupt \in Turn
  BY DEF Interrupt, IInv, Types
<1>2. CASE stage[interrupt] = "streaming"
  BY <1>1, <1>2, RejectedKeeps DEF Interrupt, IInv, FreshIsEarly, Early, Underway, Turn, None
<1>3. CASE stage[interrupt] # "streaming"
  BY <1>1, <1>3, NothingMoves DEF Interrupt
<1> QED BY <1>2, <1>3

-----------------------------------------------------------------------------

\* However turns overlap: nothing is held back without a turn that ends it, a turn
\* the screen has not shown yet is not at its stream, and only such a turn lets the
\* head on screen and the head of the queue differ (drainQueueOnTurnEnd).
THEOREM Invariance == Spec => []IInv
<1>1. Init => IInv
  <2> SUFFICES ASSUME Init PROVE IInv
    OBVIOUS
  <2>1. text = <<>> /\ queue = <<>> /\ shown = <<>> /\ Len(text) = 0
    BY DEF Init
  <2>2. \A t \in Turn : stage[t] = "unused" /\ t > 0
    BY DEF Init, Turn
  <2>3. Types
    BY <2>1, MaxMessagesAssumption DEF Init, Types, Stages
  <2> QED BY <2>1, <2>2, <2>3
      DEF Init, IInv, TurnsInOrder, PendingIsHeld, FreshIsEarly, HeadIsShown
<1>2. IInv /\ [Next]_vars => IInv'
  <2>1. IInv /\ (Quit \/ UNCHANGED vars) => IInv'
    BY NothingMoves DEF Quit, vars, IInv, Types
  <2> QED BY <2>1, SubmitKeeps, RenderKeeps, TurnKeeps, InterruptKeeps DEF Next
<1> QED BY <1>1, <1>2, PTL DEF Spec

-----------------------------------------------------------------------------
(* What a drain does to the queue *)

LEMMA SetOfAppended ==
  ASSUME NEW q \in Seq(Message), NEW x \in Message
  PROVE  ToSet(Append(q, x)) = ToSet(q) \cup {x}
<1> DEFINE t == Append(q, x)
<1>1. /\ DOMAIN t = 1 .. Len(q) + 1 /\ t[Len(q) + 1] = x
      /\ \A i \in 1 .. Len(q) : t[i] = q[i]
      /\ Len(q) \in Nat /\ DOMAIN q = 1 .. Len(q)
  OBVIOUS
<1>2. 1 .. Len(q) + 1 = (1 .. Len(q)) \cup {Len(q) + 1}
  BY <1>1
<1> HIDE DEF t
<1>3. ToSet(t) = ToSet(q) \cup {x}
  BY <1>1, <1>2 DEF ToSet
<1> QED BY <1>3 DEF t

LEMMA SetOfPrepended ==
  ASSUME NEW q \in Seq(Message), NEW x \in Message
  PROVE  ToSet(<<x>> \o q) = ToSet(q) \cup {x}
<1> DEFINE t == <<x>> \o q
<1>1. /\ DOMAIN t = 1 .. Len(q) + 1 /\ t[1] = x
      /\ \A i \in 1 .. Len(q) : t[i + 1] = q[i]
      /\ Len(q) \in Nat /\ DOMAIN q = 1 .. Len(q)
  OBVIOUS
<1> HIDE DEF t
<1>2. ToSet(t) \subseteq ToSet(q) \cup {x}
  <2> SUFFICES ASSUME NEW i \in DOMAIN t PROVE t[i] \in ToSet(q) \cup {x}
    BY DEF ToSet
  <2>1. CASE i = 1
    BY <1>1, <2>1
  <2>2. CASE i # 1
    <3>1. i - 1 \in 1 .. Len(q) /\ (i - 1) + 1 = i
      BY <1>1, <2>2
    <3>2. t[i] = q[i - 1]
      BY <1>1, <3>1
    <3> QED BY <1>1, <3>1, <3>2 DEF ToSet
  <2> QED BY <2>1, <2>2
<1>3. ToSet(q) \cup {x} \subseteq ToSet(t)
  <2>1. 1 \in DOMAIN t /\ \A i \in 1 .. Len(q) : i + 1 \in DOMAIN t
    BY <1>1
  <2> QED BY <1>1, <2>1 DEF ToSet
<1> QED BY <1>2, <1>3 DEF t

LEMMA SetOfTail ==
  ASSUME NEW q \in Seq(Message), q # <<>>
  PROVE  ToSet(q) \subseteq {Head(q)} \cup ToSet(Tail(q))
<1> DEFINE t == Tail(q)
<1>1. /\ Head(q) = q[1] /\ Len(q) \in Nat /\ DOMAIN q = 1 .. Len(q)
      /\ DOMAIN t = 1 .. Len(q) - 1 /\ \A i \in 1 .. Len(q) - 1 : t[i] = q[i + 1]
  OBVIOUS
<1> HIDE DEF t
<1>2. ASSUME NEW i \in DOMAIN q PROVE q[i] = q[1] \/ q[i] \in ToSet(t)
  <2>1. CASE i # 1
    <3>1. i - 1 \in DOMAIN t /\ (i - 1) + 1 = i
      BY <1>1, <2>1
    <3>2. t[i - 1] = q[i]
      BY <1>1, <3>1
    <3> QED BY <3>1, <3>2 DEF ToSet
  <2> QED BY <2>1
<1> QED BY <1>1, <1>2 DEF ToSet, t

\* Of what was typed, only the head of the queue can be dropped, and only by a drain
\* while the screen is behind.
LEMMA DrainDrops ==
  ASSUME IInv, NEW st, Drained(st), UNCHANGED typed, NEW m \in Dropped' \ Dropped
  PROVE  m \in ToSet(queue) /\ fresh # None /\ m # Head(shown)
<1> DEFINE rest == IF queue = <<>> THEN <<>> ELSE Tail(queue)
<1>1. queue \in Seq(Message) /\ text \in Seq(Message) /\ rest \in Seq(Message)
  BY DEF IInv, Types
<1>2. queue # <<>> => ToSet(queue) \subseteq {Head(queue)} \cup ToSet(rest)
  BY <1>1, SetOfTail
<1>3. m \in ToSet(text) \/ m \in ToSet(queue)
  BY DEF Dropped
<1>4. m \notin ToSet(text') /\ m \notin ToSet(queue')
  BY DEF Dropped
<1>5. queue = <<>> => ToSet(queue) = {}
  BY DEF ToSet
<1>6. shown # <<>> => Head(shown) \in Message
  BY DEF IInv, Types
<1>7. CASE UNCHANGED <<text, queue>>
  BY <1>3, <1>4, <1>7 DEF ToSet
<1>8. CASE shown # <<>> /\ Begin(Head(shown), st) /\ queue' = rest
  <2>1. ToSet(text') = ToSet(text) \cup {Head(shown)}
    BY <1>1, <1>6, <1>8, SetOfAppended DEF Begin
  <2>2. m \in ToSet(queue) /\ m = Head(queue) /\ m # Head(shown)
    BY <1>2, <1>3, <1>4, <1>5, <1>8, <2>1
  <2> QED BY <1>8, <2>2 DEF IInv, HeadIsShown
<1>9. CASE shown # <<>> /\ fresh # None /\ Requeue(Head(shown), rest) /\ UNCHANGED text
  <2>1. ToSet(queue') = ToSet(rest) \cup {Head(shown)}
    BY <1>1, <1>6, <1>9, SetOfPrepended DEF Requeue
  <2> QED BY <1>2, <1>3, <1>4, <1>5, <1>9, <2>1
<1> QED BY <1>7, <1>8, <1>9 DEF Drained

\* A message typed is begun or in the queue, until a drain behind a turn the screen
\* has not shown drops the head of the queue in place of the one it submits
\* (drainQueueOnTurnEnd), which it never drops (requeueMessage).
THEOREM QueueIsKept == Spec => QueueKept
<1>1. ASSUME IInv, [Next]_vars, NEW m \in Dropped' \ Dropped
      PROVE  m \in ToSet(queue) /\ fresh # None /\ m # Head(shown)
  <2>1. ASSUME UNCHANGED <<typed, text, queue>> PROVE FALSE
    BY <1>1, <2>1 DEF Dropped, ToSet
  <2>2. ASSUME NEW t \in Turn, Over(t)
        PROVE  m \in ToSet(queue) /\ fresh # None /\ m # Head(shown)
    BY <1>1, <2>2, DrainDrops DEF Over
  <2>3. CASE Submit
    <3>1. /\ queue \in Seq(Message) /\ text \in Seq(Message) /\ typed' \in Message
          /\ typed \in Nat /\ typed' = typed + 1
      BY <1>1, <2>3, MaxMessagesAssumption DEF IInv, Types, Submit, Message
    <3>2. ToSet(text) \subseteq ToSet(text') /\ ToSet(queue) \subseteq ToSet(queue')
          /\ typed' \in ToSet(text') \cup ToSet(queue')
      <4>1. /\ ToSet(Append(text, typed')) = ToSet(text) \cup {typed'}
            /\ ToSet(Append(queue, typed')) = ToSet(queue) \cup {typed'}
            /\ ToSet(<<typed'>> \o queue) = ToSet(queue) \cup {typed'}
        BY <3>1, SetOfAppended, SetOfPrepended
      <4>2. CASE queue' = Append(queue, typed') /\ text' = text
        BY <4>1, <4>2
      <4>3. CASE Begin(typed', stage) /\ queue' = queue
        BY <4>1, <4>3 DEF Begin
      <4>4. CASE Requeue(typed', queue) /\ text' = text
        BY <4>1, <4>4 DEF Requeue
      <4> QED BY <2>3, <4>2, <4>3, <4>4 DEF Submit
    <3>3. 1 .. typed' = (1 .. typed) \cup {typed'}
      BY <3>1
    <3> QED BY <1>1, <3>2, <3>3 DEF Dropped
  <2>4. CASE Render \/ Interrupt \/ Quit \/ UNCHANGED vars
    BY <2>1, <2>4 DEF Render, Interrupt, Rejected, Quit, vars, lines
  <2>5. ASSUME NEW t \in Turn, GoOn(t) \/ Accept(t) \/ Event(t)
        PROVE  m \in ToSet(queue) /\ fresh # None /\ m # Head(shown)
    BY <2>1, <2>2, <2>5
    DEF GoOn, Prepared, Saved, Connected, Refused, Rejected, Accept, Event, Done, Failed, Closed,
        Filed, Asked, Followed, lines
  <2> QED BY <1>1, <2>3, <2>4, <2>5 DEF Next
<1>2. IInv /\ [Next]_vars =>
        [\A m \in Dropped' \ Dropped : m \in ToSet(queue) /\ fresh # None /\ m # Head(shown)]_vars
  BY <1>1
<1> QED BY <1>2, Invariance, PTL DEF Spec, QueueKept

\* When the last turn under way ends, no message is on screen that still waits: its
\* drain begins the head (onStopPending), unless a later turn is under way.
THEOREM IdleIsServed == Spec => LastTurnServes
<1>1. ASSUME IInv, [Next]_vars, SomeTurn, ~SomeTurn' PROVE shown = <<>>
  <2>0. \A u \in Turn : stage'[u] \notin Underway
    BY <1>1 DEF SomeTurn
  <2>1. ASSUME UNCHANGED stage PROVE FALSE
    BY <1>1, <2>1 DEF SomeTurn
  <2>2. ASSUME NEW t \in Turn, NEW s \in Underway, stage' = [stage EXCEPT ![t] = s] PROVE FALSE
    BY <1>1, <2>0, <2>2 DEF IInv, Types
  <2>3. ASSUME NEW m, NEW st \in [Turn -> Stages], Begin(m, st) PROVE FALSE
    BY <2>0, <2>3 DEF Begin, Underway
  <2>4. ASSUME NEW t \in Turn, stage[t] \in {"filing", "following"}, Over(t) PROVE shown = <<>>
    <3> DEFINE st == [stage EXCEPT ![t] = "over"]
    <3>1. /\ st \in [Turn -> Stages]
          /\ fresh # None => fresh \in Turn /\ st[fresh] \in Early
      BY <1>1, <2>4 DEF IInv, Types, Stages, FreshIsEarly, Early
    <3>2. Drained(st)
      BY <2>4 DEF Over
    <3> HIDE DEF st
    <3> QED BY <2>0, <2>3, <3>1, <3>2 DEF Drained, Early, Underway
  <2>5. CASE Submit
    BY <1>1, <2>1, <2>3, <2>5 DEF Submit, IInv, Types
  <2>6. ASSUME NEW t \in Turn, NEW kind, Rejected(t, kind) PROVE FALSE
    BY <2>2, <2>6 DEF Rejected, Underway
  <2>7. CASE Render \/ Interrupt \/ Quit \/ UNCHANGED vars
    BY <1>1, <2>1, <2>6, <2>7 DEF Render, Interrupt, Quit, vars, IInv, Types
  <2>8. ASSUME NEW t \in Turn, GoOn(t) \/ Accept(t) \/ Event(t) PROVE shown = <<>>
    BY <2>1, <2>2, <2>4, <2>6, <2>8
    DEF GoOn, Prepared, Saved, Connected, Refused, Accept, Event, Done, Failed, Closed,
        Filed, Asked, Followed, Underway
  <2> QED BY <1>1, <2>5, <2>7, <2>8 DEF Next
<1>2. IInv /\ [Next]_vars => [SomeTurn /\ ~SomeTurn' => shown = <<>>]_vars
  BY <1>1
<1> QED BY <1>2, Invariance, PTL DEF Spec, LastTurnServes

\* Once the client was released, no stream that breaks is looked into.
THEOREM ReleasedFollowsNothingUp == Spec => NoFollowupAfterQuit
<1>1. ASSUME IInv, [Next]_vars, released, NEW t \in Turn, stage'[t] = "asking"
      PROVE  stage[t] = "asking"
  <2>0. stage \in [Turn -> Stages]
    BY <1>1 DEF IInv, Types
  <2>1. ASSUME NEW u \in Turn, NEW kind \in {"aborted", "failed"}, Rejected(u, kind)
        PROVE  stage[t] = "asking"
    BY <1>1, <2>0, <2>1 DEF Rejected
  <2>2. CASE Submit
    BY <1>1, <2>2 DEF Submit
  <2>3. ASSUME NEW u \in Turn, Over(u) PROVE stage[t] = "asking"
    BY <1>1, <2>0, <2>3 DEF Over, Drained, Begin
  <2>4. ASSUME NEW u \in Turn, GoOn(u) \/ Accept(u) \/ Event(u) PROVE stage[t] = "asking"
    BY <1>1, <2>0, <2>1, <2>3, <2>4
    DEF GoOn, Prepared, Saved, Connected, Refused, Accept, Event, Done, Failed, Closed,
        ClosedAs, Filed, Asked, Followed
  <2>5. CASE Interrupt
    BY <1>1, <2>1, <2>5 DEF Interrupt, IInv, Types
  <2>6. CASE Render \/ Quit \/ UNCHANGED vars
    BY <1>1, <2>6 DEF Render, Quit, vars
  <2> QED BY <1>1, <2>2, <2>4, <2>5, <2>6 DEF Next
<1>2. IInv /\ [Next]_vars =>
        [released => \A t \in Turn : stage'[t] = "asking" => stage[t] = "asking"]_vars
  BY <1>1
<1>3. [][Next]_vars /\ []IInv =>
        [][released => \A t \in Turn : stage'[t] = "asking" => stage[t] = "asking"]_vars
  BY <1>2, PTL
<1> QED BY <1>3, Invariance, PTL DEF Spec, NoFollowupAfterQuit

-----------------------------------------------------------------------------
(* The history: sequences of questions and answers *)

Entry == {User(u) : u \in Turn} \cup {Assistant(u) : u \in Turn}
In(h, x) == \E i \in 1 .. Len(h) : h[i] = x

\* Nothing is said twice, and an answer comes after its question.
Orderly(h) ==
    /\ \A i, j \in 1 .. Len(h) : h[i] = h[j] => i = j
    /\ \A i \in 1 .. Len(h), u \in Turn :
          h[i] = Assistant(u) => \E j \in 1 .. i - 1 : h[j] = User(u)

LEMMA EntriesDiffer ==
  \A u, n \in Turn : /\ User(u) # Assistant(n) /\ User(u) \in Entry /\ Assistant(u) \in Entry
                     /\ User(u) = User(n) => u = n
                     /\ Assistant(u) = Assistant(n) => u = n
  BY DEF User, Assistant, Entry

LEMMA Appended ==
  ASSUME NEW h \in Seq(Entry), NEW x \in Entry
  PROVE  LET t == Append(h, x)
         IN  /\ t \in Seq(Entry) /\ Len(t) = Len(h) + 1 /\ Len(h) \in Nat
             /\ \A i \in 1 .. Len(h) : t[i] = h[i]
             /\ t[Len(h) + 1] = x
             /\ \A i \in 1 .. Len(t) : i \in 1 .. Len(h) \/ i = Len(h) + 1
             /\ \A y : In(t, y) <=> In(h, y) \/ y = x
<1> DEFINE t == Append(h, x)
<1>1. /\ t \in Seq(Entry) /\ Len(t) = Len(h) + 1 /\ Len(h) \in Nat
      /\ \A i \in 1 .. Len(h) : t[i] = h[i]
      /\ t[Len(h) + 1] = x
  OBVIOUS
<1> HIDE DEF t
<1>2. \A i \in 1 .. Len(t) : i \in 1 .. Len(h) \/ i = Len(h) + 1
  BY <1>1
<1>3. 1 .. Len(h) \subseteq 1 .. Len(t) /\ Len(h) + 1 \in 1 .. Len(t)
  BY <1>1
<1>4. \A y : In(t, y) <=> In(h, y) \/ y = x
  BY <1>1, <1>2, <1>3 DEF In
<1> QED BY <1>1, <1>2, <1>4 DEF t

\* What may be appended: a question that is not there, or the answer to one that is.
LEMMA AppendedOrderly ==
  ASSUME NEW h \in Seq(Entry), Orderly(h), NEW x \in Entry, ~In(h, x),
         \A u \in Turn : x = Assistant(u) => In(h, User(u))
  PROVE  Orderly(Append(h, x))
<1> DEFINE t == Append(h, x)
<1>1. /\ Len(t) = Len(h) + 1 /\ Len(h) \in Nat
      /\ \A i \in 1 .. Len(h) : t[i] = h[i]
      /\ t[Len(h) + 1] = x
      /\ \A i \in 1 .. Len(t) : i \in 1 .. Len(h) \/ i = Len(h) + 1
  BY Appended
<1> HIDE DEF t
<1>2. ASSUME NEW i \in 1 .. Len(t), NEW j \in 1 .. Len(t), t[i] = t[j] PROVE i = j
  <2>1. \A k \in 1 .. Len(h) : h[k] # x
    BY DEF In
  <2>2. CASE i \in 1 .. Len(h) /\ j \in 1 .. Len(h)
    BY <1>1, <1>2, <2>2 DEF Orderly
  <2> QED BY <1>1, <1>2, <2>1, <2>2
<1>3. ASSUME NEW i \in 1 .. Len(t), NEW u \in Turn, t[i] = Assistant(u)
      PROVE  \E j \in 1 .. i - 1 : t[j] = User(u)
  <2>1. CASE i \in 1 .. Len(h)
    <3>1. PICK j \in 1 .. i - 1 : h[j] = User(u)
      BY <1>1, <1>3, <2>1 DEF Orderly
    <3>2. j \in 1 .. Len(h)
      BY <1>1, <2>1, <3>1
    <3> QED BY <1>1, <3>1, <3>2
  <2>2. CASE i = Len(h) + 1
    <3>1. PICK j \in 1 .. Len(h) : h[j] = User(u)
      BY <1>1, <1>3, <2>2 DEF In
    <3>2. j \in 1 .. i - 1
      BY <1>1, <2>2, <3>1
    <3> QED BY <1>1, <3>1, <3>2
  <2> QED BY <1>1, <2>1, <2>2
<1>4. Orderly(t)
  BY <1>2, <1>3 DEF Orderly
<1> QED BY <1>4 DEF t

\* splice(i, 1): the entries behind i move up by one.
LEMMA Removed ==
  ASSUME NEW h \in Seq(Entry), NEW k \in 1 .. Len(h)
  PROVE  LET t == RemoveAt(h, k)
         IN  /\ t \in Seq(Entry) /\ Len(t) = Len(h) - 1 /\ Len(h) \in Nat
             /\ \A i \in 1 .. Len(t) : t[i] = h[IF i < k THEN i ELSE i + 1]
<1> DEFINE a == SubSeq(h, 1, k - 1)
           b == SubSeq(h, k + 1, Len(h))
<1>0. Len(h) \in Nat /\ k \in Nat /\ 1 <= k /\ k <= Len(h)
  OBVIOUS
<1>1. a \in Seq(Entry) /\ Len(a) = k - 1 /\ \A i \in 1 .. k - 1 : a[i] = h[i]
  <2>1. 1 \in 1 .. Len(h) + 1 /\ k - 1 \in 1 - 1 .. Len(h)
    BY <1>0
  <2> QED BY <1>0, <2>1, SubSeqProperties
<1>2. b \in Seq(Entry) /\ Len(b) = Len(h) - k /\ \A i \in 1 .. Len(h) - k : b[i] = h[k + i]
  <2>1. k + 1 \in 1 .. Len(h) + 1 /\ Len(h) \in (k + 1) - 1 .. Len(h)
    BY <1>0
  <2>2. b \in Seq(Entry) /\ Len(b) = Len(h) - (k + 1) + 1
        /\ \A i \in 1 .. Len(h) - (k + 1) + 1 : b[i] = h[(k + 1) + i - 1]
    BY <2>1, SubSeqProperties
  <2>3. ASSUME NEW i \in 1 .. Len(h) - k PROVE b[i] = h[k + i]
    <3>1. i \in 1 .. Len(h) - (k + 1) + 1 /\ (k + 1) + i - 1 = k + i
      BY <1>0
    <3> HIDE DEF b
    <3> QED BY <2>2, <3>1
  <2>4. Len(h) - (k + 1) + 1 = Len(h) - k
    BY <1>0
  <2> HIDE DEF b
  <2> QED BY <2>2, <2>3, <2>4
<1> HIDE DEF a, b
<1>3. LET t == a \o b
      IN  /\ t \in Seq(Entry) /\ Len(t) = Len(a) + Len(b)
          /\ \A i \in 1 .. Len(a) + Len(b) : t[i] = IF i <= Len(a) THEN a[i] ELSE b[i - Len(a)]
  BY <1>1, <1>2, ConcatProperties
<1> DEFINE t == a \o b
<1>4. t \in Seq(Entry) /\ Len(t) = Len(h) - 1
  BY <1>0, <1>1, <1>2, <1>3
<1>5. ASSUME NEW i \in 1 .. Len(t) PROVE t[i] = h[IF i < k THEN i ELSE i + 1]
  <2>1. CASE i < k
    <3>1. i \in 1 .. Len(a) /\ i \in 1 .. k - 1
      BY <1>0, <1>1, <2>1
    <3> QED BY <1>1, <1>3, <2>1, <3>1
  <2>2. CASE ~(i < k)
    <3>1. /\ ~(i <= Len(a)) /\ i \in 1 .. Len(a) + Len(b)
          /\ i - Len(a) \in 1 .. Len(h) - k /\ k + (i - Len(a)) = i + 1
      BY <1>0, <1>1, <1>2, <1>4, <2>2
    <3>2. t[i] = b[i - Len(a)]
      BY <1>3, <3>1
    <3>3. b[i - Len(a)] = h[i + 1]
      BY <1>2, <3>1
    <3> QED BY <2>2, <3>2, <3>3
  <2> QED BY <2>1, <2>2
<1> QED BY <1>0, <1>4, <1>5 DEF RemoveAt, a, b

\* Positions before and after the removal of the k-th of n.
LEMMA Positions ==
  ASSUME NEW n \in Nat, NEW k \in 1 .. n
  PROVE  LET old(i) == IF i < k THEN i ELSE i + 1
             new(i) == IF i < k THEN i ELSE i - 1
         IN  /\ \A i \in 1 .. n - 1 : old(i) \in 1 .. n /\ old(i) # k
             /\ \A i, j \in 1 .. n - 1 : old(i) = old(j) => i = j
             /\ \A i \in 1 .. n : i # k => new(i) \in 1 .. n - 1 /\ old(new(i)) = i
             /\ \A i \in 1 .. n - 1 : \A j \in 1 .. old(i) - 1 : j # k => new(j) \in 1 .. i - 1
  OBVIOUS

\* A question that has no answer may be taken back (lastIndexOf and splice).
LEMMA TakenBack ==
  ASSUME NEW h \in Seq(Entry), Orderly(h), NEW u \in Turn, ~In(h, Assistant(u)),
         NEW t, t = LET at == {i \in DOMAIN h : h[i] = User(u)}
                    IN IF at = {} THEN h ELSE RemoveAt(h, Max(at))
  PROVE  /\ t \in Seq(Entry) /\ Orderly(t)
         /\ \A x : In(t, x) <=> In(h, x) /\ x # User(u)
<1> DEFINE at == {i \in DOMAIN h : h[i] = User(u)}
<1>0. Len(h) \in Nat /\ DOMAIN h = 1 .. Len(h)
  OBVIOUS
<1>1. CASE at = {}
  BY <1>0, <1>1 DEF In
<1>2. CASE at # {}
  <2> DEFINE k == Max(at)
  <2>1. PICK j \in 1 .. Len(h) : h[j] = User(u)
    BY <1>0, <1>2
  <2>2. at = {j}
    BY <1>0, <2>1 DEF Orderly
  <2>3. k = j
    BY <2>1, <2>2 DEF Max
  <2> HIDE DEF k
  <2>4. t = RemoveAt(h, k) /\ k \in 1 .. Len(h) /\ h[k] = User(u)
    BY <1>2, <2>1, <2>3 DEF k
  <2> HIDE DEF at
  <2> DEFINE old(i) == IF i < k THEN i ELSE i + 1
             new(i) == IF i < k THEN i ELSE i - 1
  <2>5. /\ t \in Seq(Entry) /\ Len(t) = Len(h) - 1
        /\ \A i \in 1 .. Len(t) : t[i] = h[old(i)]
    BY <2>4, Removed
  <2>a. Len(h) \in Nat /\ k \in 1 .. Len(h) /\ Len(t) = Len(h) - 1
    BY <1>0, <2>4, <2>5
  <2>6. \A i \in 1 .. Len(t) : old(i) \in 1 .. Len(h) /\ old(i) # k
    BY <2>a, Positions
  <2>7. \A i, j2 \in 1 .. Len(t) : old(i) = old(j2) => i = j2
    BY <2>a, Positions
  <2>8. \A i \in 1 .. Len(h) : i # k =>
            new(i) \in 1 .. Len(t) /\ old(new(i)) = i
    BY <2>a, Positions
  <2>9. \A i \in 1 .. Len(t) : \A j2 \in 1 .. old(i) - 1 : j2 # k => new(j2) \in 1 .. i - 1
    BY <2>a, Positions
  <2> HIDE DEF old, new
  <2>10. \A i \in 1 .. Len(h) : i # k => t[new(i)] = h[i]
    BY <2>5, <2>8
  <2>11. \A x : In(t, x) <=> In(h, x) /\ x # User(u)
    <3>1. ASSUME NEW x, In(t, x) PROVE In(h, x) /\ x # User(u)
      <4>1. PICK i \in 1 .. Len(t) : t[i] = x
        BY <3>1 DEF In
      <4>2. h[old(i)] = x /\ old(i) \in 1 .. Len(h) /\ old(i) # k
        BY <2>5, <2>6, <4>1
      <4> QED BY <2>4, <4>2 DEF In, Orderly
    <3>2. ASSUME NEW x, In(h, x), x # User(u) PROVE In(t, x)
      <4>1. PICK i \in 1 .. Len(h) : h[i] = x
        BY <3>2 DEF In
      <4>2. i # k
        BY <2>4, <3>2, <4>1
      <4> QED BY <2>8, <2>10, <4>1, <4>2 DEF In
    <3> QED BY <3>1, <3>2
  <2>12. ASSUME NEW i \in 1 .. Len(t), NEW j2 \in 1 .. Len(t), t[i] = t[j2] PROVE i = j2
    <3>1. h[old(i)] = h[old(j2)] /\ old(i) \in 1 .. Len(h) /\ old(j2) \in 1 .. Len(h)
      BY <2>5, <2>6, <2>12
    <3>2. old(i) = old(j2)
      BY <3>1 DEF Orderly
    <3> QED BY <2>7, <3>2
  <2>13. ASSUME NEW i \in 1 .. Len(t), NEW n \in Turn, t[i] = Assistant(n)
         PROVE  \E j2 \in 1 .. i - 1 : t[j2] = User(n)
    <3>1. h[old(i)] = Assistant(n) /\ old(i) \in 1 .. Len(h)
      BY <2>5, <2>6, <2>13
    <3>2. PICK j2 \in 1 .. old(i) - 1 : h[j2] = User(n)
      BY <3>1 DEF Orderly
    <3>3. n # u
      BY <3>1 DEF In
    <3>4. j2 # k /\ j2 \in 1 .. Len(h)
      <4>1. j2 # k
        BY <2>4, <3>2, <3>3, EntriesDiffer
      <4>2. j2 \in 1 .. Len(h)
        BY <1>0, <3>1, <3>2
      <4> QED BY <4>1, <4>2
    <3> QED BY <2>9, <2>10, <3>2, <3>4
  <2>14. Orderly(t)
    BY <2>12, <2>13 DEF Orderly
  <2> QED BY <2>5, <2>11, <2>14
<1> QED BY <1>1, <1>2

-----------------------------------------------------------------------------
(* The history and the turns *)

Fresh == {"unused"}
Closing == {"filing", "over"}   \* the turn has had its answer, or none

\* What the history h may hold of a turn that is at s with outcome o.
Fits(h, u, s, o) ==
    /\ In(h, User(u)) => s \notin Fresh
    /\ In(h, Assistant(u)) => s \in Closing
    /\ s \notin Fresh /\ o # "aborted" => In(h, User(u))
    /\ o = "aborted" => s \in Closing

HistoryInv ==
    /\ history \in Seq(Entry) /\ Orderly(history)
    /\ outcome \in [Turn -> {"open", "aborted", "settled"}]
    /\ \A u \in Turn : Fits(history, u, stage[u], outcome[u])

\* A step of the turn of u, with s and o what it comes to.
LEMMA TurnFits ==
  ASSUME IInv, HistoryInv, NEW u \in Turn, NEW s, NEW o,
         \A n \in Turn : /\ stage'[n] = IF n = u THEN s ELSE stage[n]
                         /\ outcome'[n] = IF n = u THEN o ELSE outcome[n],
         outcome' \in [Turn -> {"open", "aborted", "settled"}],
         history' \in Seq(Entry), Orderly(history'),
         \A n \in Turn \ {u} : /\ In(history', User(n)) <=> In(history, User(n))
                               /\ In(history', Assistant(n)) <=> In(history, Assistant(n)),
         Fits(history', u, s, o)
  PROVE  HistoryInv'
<1>1. ASSUME NEW n \in Turn PROVE Fits(history', n, stage'[n], outcome'[n])
  <2>1. CASE n = u
    BY <2>1
  <2>2. CASE n # u
    <3>1. Fits(history, n, stage[n], outcome[n])
      BY DEF HistoryInv
    <3> QED BY <2>2, <3>1 DEF Fits
  <2> QED BY <2>1, <2>2
<1> QED BY <1>1 DEF HistoryInv

\* Nothing of a turn changes.
LEMMA NothingSaid ==
  ASSUME HistoryInv, UNCHANGED <<stage, outcome, history>>
  PROVE  HistoryInv'
  BY DEF HistoryInv

\* What a message is filed with after an error.
LEMMA Kept ==
  ASSUME IInv, HistoryInv, NEW u \in Turn, NEW kind,
         stage[u] \in {"opening", "streaming", "asking"},
         history' = AfterError(u, kind)
  PROVE  /\ history' \in Seq(Entry) /\ Orderly(history')
         /\ \A n \in Turn \ {u} : /\ In(history', User(n)) <=> In(history, User(n))
                                  /\ In(history', Assistant(n)) <=> In(history, Assistant(n))
         /\ kind # "aborted" => In(history', User(u))
<1>1. /\ history \in Seq(Entry) /\ Orderly(history)
      /\ In(history, User(u)) /\ ~In(history, Assistant(u))
  BY DEF HistoryInv, Fits, Fresh, Closing
<1>2. CASE prose[u] = "streamed"
  <2>1. history' = Append(history, Assistant(u))
    BY <1>2 DEF AfterError
  <2>2. Orderly(history')
    <3>1. \A n \in Turn : Assistant(u) = Assistant(n) => In(history, User(n))
      BY <1>1, EntriesDiffer
    <3>2. Assistant(u) \in Entry
      BY EntriesDiffer
    <3> QED BY <1>1, <2>1, <3>1, <3>2, AppendedOrderly
  <2>3. history' \in Seq(Entry) /\ \A y : In(history', y) <=> In(history, y) \/ y = Assistant(u)
    BY <1>1, <2>1, EntriesDiffer, Appended
  <2> QED BY <1>1, <2>2, <2>3, EntriesDiffer
<1>3. CASE prose[u] # "streamed" /\ kind = "aborted"
  <2>1. history' = WithoutUser(u)
    BY <1>3 DEF AfterError
  <2>2. /\ history' \in Seq(Entry) /\ Orderly(history')
        /\ \A x : In(history', x) <=> In(history, x) /\ x # User(u)
    BY <1>1, <2>1, TakenBack DEF WithoutUser
  <2> QED BY <1>3, <2>2, EntriesDiffer
<1>4. CASE prose[u] # "streamed" /\ kind # "aborted"
  BY <1>1, <1>4 DEF AfterError
<1> QED BY <1>2, <1>3, <1>4

LEMMA RejectedFits ==
  ASSUME IInv, HistoryInv, NEW u \in Turn, NEW kind \in {"aborted", "failed", "lost"},
         stage[u] \in {"opening", "streaming"}, Rejected(u, kind)
  PROVE  HistoryInv'
<1> USE DEF Rejected
<1> DEFINE o == IF kind = "aborted" THEN kind ELSE "settled"
<1>1. /\ outcome' = [outcome EXCEPT ![u] = o] /\ o \in {"aborted", "settled"}
      /\ o = "aborted" <=> kind = "aborted"
      /\ stage \in [Turn -> Stages]
      /\ outcome \in [Turn -> {"open", "aborted", "settled"}]
  BY DEF IInv, Types, HistoryInv
<1>2. /\ outcome' \in [Turn -> {"open", "aborted", "settled"}]
      /\ \A n \in Turn : outcome'[n] = IF n = u THEN o ELSE outcome[n]
  BY <1>1
<1> HIDE DEF o
<1>3. CASE kind = "lost" /\ accepted[u]
  <2>1. /\ \A n \in Turn : stage'[n] = IF n = u THEN "asking" ELSE stage[n]
        /\ history' = history
    BY <1>1, <1>3
  <2>2. history \in Seq(Entry) /\ Orderly(history) /\ Fits(history, u, stage[u], outcome[u])
    BY DEF HistoryInv
  <2>3. Fits(history', u, "asking", o)
    BY <1>1, <1>3, <2>1, <2>2 DEF Fits, Fresh, Closing
  <2> QED BY <1>2, <2>1, <2>2, <2>3, TurnFits
<1>4. CASE ~(kind = "lost" /\ accepted[u])
  <2>1. /\ \A n \in Turn : stage'[n] = IF n = u THEN "filing" ELSE stage[n]
        /\ history' = AfterError(u, kind)
    BY <1>1, <1>4
  <2>2. Fits(history', u, "filing", o)
    BY <1>1, <2>1, Kept DEF Fits, Fresh, Closing
  <2> QED BY <1>2, <2>1, <2>2, Kept, TurnFits
<1> QED BY <1>3, <1>4

\* A turn that goes on without a word: from s to t, neither of them final.
LEMMA GoesOnFits ==
  ASSUME IInv, HistoryInv, NEW u \in Turn, NEW t,
         stage[u] \notin Fresh \cup Closing,
         t \notin Fresh,
         stage' = [stage EXCEPT ![u] = t], UNCHANGED <<outcome, history>>
  PROVE  HistoryInv'
<1>1. stage \in [Turn -> Stages] /\ history \in Seq(Entry) /\ Orderly(history)
      /\ outcome \in [Turn -> {"open", "aborted", "settled"}]
      /\ Fits(history, u, stage[u], outcome[u])
  BY DEF IInv, Types, HistoryInv
<1>2. \A n \in Turn : /\ stage'[n] = IF n = u THEN t ELSE stage[n]
                      /\ outcome'[n] = IF n = u THEN outcome[u] ELSE outcome[n]
  BY <1>1
<1>3. Fits(history', u, t, outcome[u])
  BY <1>1 DEF Fits
<1> QED BY <1>1, <1>2, <1>3, TurnFits

\* A question is asked when its turn begins.
LEMMA BeginFits ==
  ASSUME IInv, HistoryInv, NEW x, NEW st \in [Turn -> Stages],
         \A n \in Turn : /\ st[n] \in Fresh <=> stage[n] \in Fresh
                         /\ stage[n] \in Closing => st[n] \in Closing,
         Begin(x, st), UNCHANGED outcome
  PROVE  HistoryInv'
<1> DEFINE u == Len(text) + 1
<1>1. u \in Turn /\ stage' = [st EXCEPT ![u] = "preparing"] /\ history' = Append(history, User(u))
  BY DEF Begin
<1>2. stage[u] \in Fresh
  <2>1. u > Len(text)
    BY NewTurn
  <2> QED BY <1>1, <2>1 DEF IInv, TurnsInOrder, Fresh
<1> HIDE DEF u
<1>3. \A n \in Turn : stage'[n] = IF n = u THEN "preparing" ELSE st[n]
  BY <1>1
<1>4. /\ history \in Seq(Entry) /\ Orderly(history)
      /\ ~In(history, User(u)) /\ ~In(history, Assistant(u)) /\ outcome[u] # "aborted"
  BY <1>1, <1>2 DEF HistoryInv, Fits, Fresh, Closing
<1>5. history' \in Seq(Entry) /\ \A y : In(history', y) <=> In(history, y) \/ y = User(u)
  BY <1>1, <1>4, EntriesDiffer, Appended
<1>6. Orderly(history')
  <2>1. User(u) \in Entry /\ \A n \in Turn : User(u) # Assistant(n)
    BY <1>1, EntriesDiffer
  <2> QED BY <1>1, <1>4, <2>1, AppendedOrderly
<1>7. ASSUME NEW n \in Turn PROVE Fits(history', n, stage'[n], outcome'[n])
  <2>1. Fits(history, n, stage[n], outcome[n])
    BY DEF HistoryInv
  <2>2. CASE n = u
    <3>1. stage'[n] = "preparing" /\ outcome'[n] # "aborted" /\ ~In(history', Assistant(n))
          /\ In(history', User(n))
      BY <1>3, <1>4, <1>5, <2>2, EntriesDiffer
    <3> QED BY <3>1 DEF Fits, Fresh
  <2>3. CASE n # u
    <3>1. /\ In(history', User(n)) <=> In(history, User(n))
          /\ In(history', Assistant(n)) <=> In(history, Assistant(n))
      BY <1>1, <1>5, <2>3, EntriesDiffer
    <3> QED BY <1>3, <2>1, <2>3, <3>1 DEF Fits
  <2> QED BY <2>2, <2>3
<1> QED BY <1>5, <1>6, <1>7 DEF HistoryInv

-----------------------------------------------------------------------------
(* The history: one lemma per step that touches it *)

LEMMA SubmitFits == IInv /\ HistoryInv /\ Submit => HistoryInv'
<1> SUFFICES ASSUME IInv, HistoryInv, Submit PROVE HistoryInv'
  OBVIOUS
<1>1. UNCHANGED outcome /\ stage \in [Turn -> Stages]
  BY DEF Submit, IInv, Types
<1>2. CASE UNCHANGED <<stage, history>>
  BY <1>1, <1>2, NothingSaid
<1>3. CASE Begin(typed', stage)
  BY <1>1, <1>3, BeginFits
<1> QED BY <1>2, <1>3 DEF Submit

LEMMA OverFits ==
  ASSUME IInv, HistoryInv, NEW u \in Turn, stage[u] \in {"filing", "following"},
         Over(u), UNCHANGED outcome
  PROVE  HistoryInv'
<1> DEFINE st == [stage EXCEPT ![u] = "over"]
<1>1. st \in [Turn -> Stages] /\ \A n \in Turn : st[n] = IF n = u THEN "over" ELSE stage[n]
  BY DEF IInv, Types, Stages
<1>2. Drained(st)
  BY DEF Over
<1> HIDE DEF st
<1>3. CASE stage' = st /\ UNCHANGED history
  <2>1. ASSUME NEW n \in Turn PROVE Fits(history', n, stage'[n], outcome'[n])
    <3>1. Fits(history, n, stage[n], outcome[n])
      BY DEF HistoryInv
    <3> QED BY <1>1, <1>3, <3>1 DEF Fits, Fresh, Closing
  <2> QED BY <1>3, <2>1 DEF HistoryInv
<1>4. CASE Begin(Head(shown), st)
  BY <1>1, <1>4, BeginFits DEF Fresh, Closing
<1> QED BY <1>2, <1>3, <1>4 DEF Drained

\* The answer joins the history, or was blank.
LEMMA DoneFits == ASSUME IInv, HistoryInv, NEW u \in Turn, Done(u) PROVE HistoryInv'
<1>1. /\ stage \in [Turn -> Stages] /\ stage[u] = "streaming"
      /\ outcome \in [Turn -> {"open", "aborted", "settled"}]
      /\ stage' = [stage EXCEPT ![u] = "filing"] /\ outcome' = [outcome EXCEPT ![u] = "settled"]
  BY DEF IInv, Types, HistoryInv, Done
<1>2. /\ \A n \in Turn : /\ stage'[n] = IF n = u THEN "filing" ELSE stage[n]
                         /\ outcome'[n] = IF n = u THEN "settled" ELSE outcome[n]
      /\ outcome' \in [Turn -> {"open", "aborted", "settled"}]
  BY <1>1
<1>3. /\ history \in Seq(Entry) /\ Orderly(history)
      /\ In(history, User(u)) /\ ~In(history, Assistant(u))
  BY <1>1 DEF HistoryInv, Fits, Fresh, Closing
<1>4. CASE history' = history
  <2>1. Fits(history', u, "filing", "settled")
    BY <1>3, <1>4 DEF Fits, Fresh, Closing
  <2> QED BY <1>2, <1>3, <1>4, <2>1, TurnFits
<1>5. CASE history' = Append(history, Assistant(u))
  <2>1. Assistant(u) \in Entry /\ \A n \in Turn : Assistant(u) = Assistant(n) => In(history, User(n))
    BY <1>3, EntriesDiffer
  <2>2. Orderly(history')
    BY <1>3, <1>5, <2>1, AppendedOrderly
  <2>3. history' \in Seq(Entry) /\ \A y : In(history', y) <=> In(history, y) \/ y = Assistant(u)
    BY <1>3, <1>5, <2>1, Appended
  <2>4. /\ In(history', User(u))
        /\ \A n \in Turn \ {u} : /\ In(history', User(n)) <=> In(history, User(n))
                                 /\ In(history', Assistant(n)) <=> In(history, Assistant(n))
    BY <1>3, <2>3, EntriesDiffer
  <2>5. Fits(history', u, "filing", "settled")
    BY <2>4 DEF Fits, Fresh, Closing
  <2> QED BY <1>2, <2>2, <2>3, <2>4, <2>5, TurnFits
<1> QED BY <1>4, <1>5 DEF Done

\* The task is not running any more: the turn is filed with what it has.
LEMMA AskedFits == ASSUME IInv, HistoryInv, NEW u \in Turn, Asked(u) PROVE HistoryInv'
<1>1. /\ stage \in [Turn -> Stages] /\ stage[u] = "asking" /\ outcome' = outcome
      /\ outcome \in [Turn -> {"open", "aborted", "settled"}]
      /\ outcome[u] # "aborted"
  BY DEF IInv, Types, HistoryInv, Fits, Closing, Asked
<1>2. CASE stage' = [stage EXCEPT ![u] = "following"] /\ UNCHANGED history
  BY <1>1, <1>2, GoesOnFits DEF Fresh, Closing
<1>3. CASE stage' = [stage EXCEPT ![u] = "filing"] /\ history' = AfterError(u, "lost")
  <2>1. \A n \in Turn : /\ stage'[n] = IF n = u THEN "filing" ELSE stage[n]
                        /\ outcome'[n] = IF n = u THEN outcome[u] ELSE outcome[n]
    BY <1>1, <1>3
  <2>2. Fits(history', u, "filing", outcome[u])
    BY <1>1, <1>3, Kept DEF Fits, Fresh, Closing
  <2> QED BY <1>1, <1>3, <2>1, <2>2, Kept, TurnFits
<1> QED BY <1>2, <1>3 DEF Asked

LEMMA TurnsFit == ASSUME IInv, HistoryInv, NEW u \in Turn,
         GoOn(u) \/ Accept(u) \/ Event(u)
  PROVE  HistoryInv'
<1> USE DEF Fresh, Closing
<1>1. CASE Prepared(u)
  BY <1>1, GoesOnFits DEF Prepared
<1>2. CASE Saved(u)
  BY <1>2, GoesOnFits DEF Saved
<1>3. CASE Connected(u)
  BY <1>3, GoesOnFits, RejectedFits DEF Connected
<1>4. CASE Refused(u) \/ Failed(u)
  BY <1>4, RejectedFits DEF Refused, Failed
<1>5. CASE Closed(u)
  BY <1>5, RejectedFits DEF Closed, ClosedAs
<1>6. CASE Accept(u) \/ Event(u)
  BY <1>6, NothingSaid DEF Accept, Event
<1>7. CASE Filed(u)
  BY <1>7, OverFits DEF Filed
<1>8. CASE Followed(u)
  BY <1>8, OverFits, NothingSaid DEF Followed
<1> QED BY <1>1, <1>2, <1>3, <1>4, <1>5, <1>6, <1>7, <1>8, DoneFits, AskedFits DEF GoOn

LEMMA InterruptFits == ASSUME IInv, HistoryInv, Interrupt PROVE HistoryInv'
<1>1. interrupt \in Turn
  BY DEF Interrupt, IInv, Types
<1>2. CASE stage[interrupt] = "streaming"
  BY <1>1, <1>2, RejectedFits DEF Interrupt
<1>3. CASE stage[interrupt] # "streaming"
  BY <1>3, NothingSaid DEF Interrupt
<1> QED BY <1>2, <1>3

\* The history stays in step with the turns, however they overlap: a question is in
\* it from when its turn begins (handleInputSubmit), an answer once its turn is being
\* filed, and only an interrupted turn takes its question back (AfterError).
THEOREM HistoryInvariance == Spec => []HistoryInv
<1>1. Init => HistoryInv
  <2> SUFFICES ASSUME Init PROVE HistoryInv
    OBVIOUS
  <2>1. history \in Seq(Entry) /\ 1 .. Len(history) = {}
    BY DEF Init
  <2>2. ASSUME NEW u \in Turn PROVE Fits(history, u, stage[u], outcome[u])
    BY <2>1 DEF Init, Fits, In, Fresh
  <2> QED BY <2>1, <2>2 DEF Init, HistoryInv, Orderly
<1>2. IInv /\ HistoryInv /\ [Next]_vars => HistoryInv'
  <2>1. IInv /\ HistoryInv /\ (Quit \/ Render \/ UNCHANGED vars) => HistoryInv'
    BY NothingSaid DEF Quit, Render, vars
  <2> QED BY <2>1, SubmitFits, TurnsFit, InterruptFits DEF Next
<1> QED BY <1>1, <1>2, Invariance, PTL DEF Spec

\* What the model is sent stays sound however turns overlap: answers after their
\* questions, nothing twice, no question lost unless its turn was interrupted.
THEOREM HistoryIsSound == Spec => []HistorySound
<1>1. ASSUME HistoryInv PROVE HistorySound
  <2>1. /\ DOMAIN history = 1 .. Len(history) /\ Len(history) \in Nat
        /\ \A i \in 1 .. Len(history) : history[i] \in Entry
    BY <1>1 DEF HistoryInv
  <2>2. ASSUME NEW i \in DOMAIN history, history[i].role = "assistant"
        PROVE  \E j \in 1 .. i - 1 : history[j] = User(history[i].of)
    <3>1. PICK u \in Turn : history[i] = User(u) \/ history[i] = Assistant(u)
      BY <2>1 DEF Entry
    <3>2. history[i] = Assistant(u) /\ history[i].of = u
      BY <2>2, <3>1 DEF User, Assistant
    <3> QED BY <1>1, <2>1, <3>2 DEF HistoryInv, Orderly
  <2>3. ASSUME NEW u \in Turn, stage[u] # "unused", outcome[u] # "aborted"
        PROVE  \E i \in DOMAIN history : history[i] = User(u)
    BY <1>1, <2>1, <2>3 DEF HistoryInv, Fits, Fresh, In
  <2>4. \A i, j \in DOMAIN history : i # j => history[i] # history[j]
    BY <1>1, <2>1 DEF HistoryInv, Orderly
  <2> QED BY <2>2, <2>3, <2>4 DEF HistorySound
<1> QED BY <1>1, HistoryInvariance, PTL

-----------------------------------------------------------------------------
(* Transcript *)

Row == [kind : {"prose", "tool", "effect", "tasks", "notice"}, call : Calls \cup {Nil},
        items : Seq(Nat),
        status : {"active", "complete", "success", "error", "cancelled"}]
Work == {FlushLater} \cup {OutputLater(c, n, e) : c \in Calls, n \in Nat, e \in BOOLEAN}
            \cup {ResultLater(c, o) : c \in Calls, o \in {"success", "error"}}
Tables == UNION {[D -> Row] : D \in SUBSET Nat}

\* The type of a view.
View(v) ==
    /\ DOMAIN v = {"rows", "made", "active", "content", "pending", "ticking", "fresh", "kept",
                   "rowOf", "tasks", "unresolved", "dropped", "paced", "held", "backlog",
                   "parked", "revealing"}
    /\ v.rows \in Tables /\ v.made \in Nat /\ v.active \in Nat /\ v.tasks \in Nat
    /\ v.content \in Seq(Nat) /\ v.pending \in Seq(Nat)
    /\ v.ticking \in BOOLEAN /\ v.fresh \in BOOLEAN /\ v.revealing \in BOOLEAN
    /\ v.kept \in [Calls -> Seq(Nat)] /\ v.rowOf \in [Calls -> Nat]
    /\ v.backlog \in [Calls -> Seq(Nat)]
    /\ v.unresolved \subseteq Calls /\ v.dropped \subseteq Calls
    /\ v.paced \subseteq Calls /\ v.held \subseteq Calls
    /\ v.parked \in Seq(Work)

SameProse(w, v) ==
    /\ w.active = v.active /\ w.content = v.content /\ w.pending = v.pending
    /\ w.ticking = v.ticking /\ w.fresh = v.fresh
SameTools(w, v) ==
    /\ w.kept = v.kept /\ w.rowOf = v.rowOf /\ w.dropped = v.dropped /\ w.paced = v.paced
    /\ w.held = v.held /\ w.backlog = v.backlog /\ w.revealing = v.revealing

\* Pointers lead to rows of the right kind.
Wired(v) ==
    /\ DOMAIN v.rows \subseteq 1 .. v.made
    /\ v.active # Nil => v.active \in DOMAIN v.rows /\ v.rows[v.active].kind = "prose"
    /\ v.tasks # Nil => v.tasks \in DOMAIN v.rows /\ v.rows[v.tasks].kind = "tasks"
    /\ \A c \in Calls : v.rowOf[c] # Nil =>
        /\ v.rowOf[c] \in DOMAIN v.rows
        /\ v.rows[v.rowOf[c]].kind = "tool" /\ v.rows[v.rowOf[c]].call = c

\* What waits has its timer running.
Timed(v) ==
    /\ v.pending # <<>> => v.ticking
    /\ v.parked # <<>> => InFlight(v)
    /\ v.revealing = InFlight(v)
    /\ v.held \subseteq Queued(v)
    /\ \A c \in Queued(v) : v.rowOf[c] # Nil

\* Calls of which some output has been sent, or that are over.
Heard(st) == {c \in Calls : c < st.at \/ (c = st.at /\ st.sent > 0)}
Known(v, st) ==
    /\ \A c \in Calls : v.rowOf[c] # Nil => c \in Heard(st) /\ c \notin v.dropped
    /\ \A c \in v.dropped : c < st.at

\* Parked work, and work taken from the list that is still to be done (rest), is
\* in the order of the calls, a result after the output of its call.
HasOutput(works, c) == \E w \in works : w.do = "output" /\ w.call = c
Edit(st, c) == st.calls[c] = "edit"
Before(a, b) ==
    b.do = "output" => /\ a.do = "output" => a.call <= b.call
                       /\ a.do = "result" => a.call < b.call
Due(w, v, st) ==
    /\ w.item <= st.clock
    /\ w.do = "output" => /\ w.call \in Heard(st) /\ w.call \notin v.dropped
                          /\ w.edit => Edit(st, w.call)
    /\ w.do = "result" => w.call \in Calls /\ w.call < st.at /\ w.outcome # "none"
Lined(v, rest, st) ==
    /\ \A w \in Items(v.parked) \cup rest : Due(w, v, st)
    /\ \A j, k \in DOMAIN v.parked : j < k => Before(v.parked[j], v.parked[k])
    /\ \A a \in Items(v.parked), b \in rest : Before(a, b)
    /\ \A c \in Calls : v.rowOf[c] # Nil /\ Edit(st, c) => ~HasOutput(Items(v.parked), c)
    /\ \A c \in v.paced : c \in Heard(st) /\ Edit(st, c)

\* An edit that has a row and more output to come keeps the last place on screen.
Below(v, id) == {r \in DOMAIN v.rows : r > id /\ v.rows[r].kind \in {"prose", "tool"}}
Expects(v, rest, st, c) ==
    v.rowOf[c] # Nil /\ Edit(st, c) /\ (c = st.at \/ HasOutput(rest, c))
HasTheFloor(v, rest, c) ==
    /\ v.content = <<>> /\ v.pending = <<>>
    /\ \A w \in Items(v.parked) : w.do # "output"
    /\ \A w \in rest : w.do = "output" => c <= w.call
    /\ Below(v, v.rowOf[c]) = {}
Clear(v, rest, st) == \A c \in Calls : Expects(v, rest, st, c) => HasTheFloor(v, rest, c)

\* A command that was heard of and has no row has its first part parked.
Announced(v, rest, st) ==
    (st.at \in Heard(st) /\ ~Edit(st, st.at) /\ v.rowOf[st.at] = Nil)
        => HasOutput(Items(v.parked) \cup rest, st.at)

Under(v) ==
    \A c \in Queued(v) : \A r \in Below(v, v.rowOf[c]) : HasOutput(Items(v.parked), v.rows[r].call)

\* Output is shown, queued, parked or about to be handled.
OnScreen(v, n) == \E id \in DOMAIN v.rows : n \in Items(v.rows[id].items)
InQueue(v, n) == \E c \in Calls : n \in Items(v.backlog[c])
Waits(works, n) == \E w \in works : w.do = "output" /\ w.item = n
OutputSaved(v, rest, st) ==
    /\ st.put \subseteq 0 .. st.clock
    /\ Items(v.content) \cup Items(v.pending) \subseteq (0 .. st.clock) \ st.put
    /\ \A id \in DOMAIN v.rows : \A n \in Items(v.rows[id].items) :
        n \in 0 .. st.clock /\ (n \in st.put => v.rows[id].kind = "tool")
    /\ \A c \in Calls :
        /\ Items(v.kept[c]) \cup Items(v.backlog[c]) \subseteq 0 .. st.clock
        /\ v.rowOf[c] # Nil => Items(v.rows[v.rowOf[c]].items) \cap st.put \subseteq Items(v.kept[c])
    /\ \A n \in st.put : OnScreen(v, n) \/ InQueue(v, n) \/ Waits(Items(v.parked) \cup rest, n)

\* While the turn is open, a row that is marked gets no more output, but for what
\* is queued, and then it is held.
Settled(v, rest, st) ==
    \A c \in Calls : v.rowOf[c] # Nil /\ v.rows[v.rowOf[c]].status # "active" =>
        /\ c \in Queued(v) => c \in v.held
        /\ c < st.at
        /\ Edit(st, c) => ~HasOutput(rest, c)

\* A marked row is its call's own.
Marked(v) ==
    \A id \in DOMAIN v.rows : v.rows[id].kind = "tool" /\ v.rows[id].status # "active"
        => \E c \in Calls : v.rowOf[c] = id

Sound(v, rest, st, open) ==
    /\ View(v) /\ Wired(v) /\ Timed(v) /\ Known(v, st) /\ Lined(v, rest, st)
    /\ Clear(v, rest, st) /\ Announced(v, rest, st) /\ Under(v) /\ OutputSaved(v, rest, st)
    /\ open => Settled(v, rest, st) /\ Marked(v)

Stream(st) ==
    /\ DOMAIN st = {"calls", "at", "sent", "busy", "block", "said", "put", "asides", "clock"}
    /\ st.calls \in Seq(Kind) /\ Len(st.calls) <= MaxCalls
    /\ st.at \in Nat \ {0} /\ st.at <= Len(st.calls) + 1
    /\ st.sent \in Nat /\ st.busy \in BOOLEAN /\ st.clock \in Nat
    /\ st.sent > 0 => st.busy /\ st.at <= Len(st.calls)

\* Rows of tools stay as they are, but for those of the calls in X, and what is
\* kept of a call only grows.
Onward(v, w, X) ==
    /\ \A id \in DOMAIN v.rows : v.rows[id].kind = "tool" /\ v.rows[id].call \notin X =>
        /\ id \in DOMAIN w.rows /\ w.rows[id].kind = "tool"
        /\ w.rows[id].call = v.rows[id].call /\ w.rows[id].items = v.rows[id].items
    /\ \A c \in Calls : Items(v.kept[c]) \subseteq Items(w.kept[c])

-----------------------------------------------------------------------------
(* Sequences and rows *)

LEMMA ItemsEmpty == Items(<<>>) = {}
BY DEF Items

LEMMA ItemIs ==
  ASSUME NEW S, NEW s \in Seq(S)
  PROVE  \A x : x \in Items(s) <=> \E i \in 1 .. Len(s) : s[i] = x
BY DEF Items

LEMMA ItemsAppend ==
  ASSUME NEW S, NEW s \in Seq(S), NEW n \in S
  PROVE  Items(Append(s, n)) = Items(s) \cup {n}
<1> DEFINE t == Append(s, n)
<1>1. /\ t \in Seq(S) /\ Len(t) = Len(s) + 1 /\ t[Len(s) + 1] = n
      /\ \A i \in 1 .. Len(s) : t[i] = s[i]
  OBVIOUS
<1>2. Len(s) \in Nat
  OBVIOUS
<1> HIDE DEF t
<1>3. \A x : x \in Items(t) <=> \E i \in 1 .. Len(t) : t[i] = x
  BY <1>1, ItemIs
<1>4. \A x : x \in Items(s) <=> \E i \in 1 .. Len(s) : s[i] = x
  BY ItemIs
<1>5. \A i \in 1 .. Len(t) : i = Len(s) + 1 \/ i \in 1 .. Len(s)
  BY <1>1, <1>2
<1>6. \A i \in 1 .. Len(s) : i \in 1 .. Len(t)
  BY <1>1, <1>2
<1>7. Len(s) + 1 \in 1 .. Len(t)
  BY <1>1, <1>2
<1>8. Items(t) = Items(s) \cup {n}
  BY <1>1, <1>3, <1>4, <1>5, <1>6, <1>7
<1> QED BY <1>8 DEF t

LEMMA ItemsConcat ==
  ASSUME NEW S, NEW s \in Seq(S), NEW t \in Seq(S)
  PROVE  Items(s \o t) = Items(s) \cup Items(t)
<1> DEFINE u == s \o t
<1>1. /\ u \in Seq(S) /\ Len(u) = Len(s) + Len(t) /\ Len(s) \in Nat /\ Len(t) \in Nat
      /\ \A i \in 1 .. Len(s) + Len(t) : u[i] = IF i <= Len(s) THEN s[i] ELSE t[i - Len(s)]
  OBVIOUS
<1> HIDE DEF u
<1>2. \A i \in 1 .. Len(t) : i + Len(s) \in 1 .. Len(u) /\ u[i + Len(s)] = t[i]
  <2> TAKE i \in 1 .. Len(t)
  <2>1. i + Len(s) \in 1 .. Len(s) + Len(t) /\ ~(i + Len(s) <= Len(s)) /\ i + Len(s) - Len(s) = i
    BY <1>1
  <2> QED BY <1>1, <2>1
<1>3. \A i \in 1 .. Len(s) : i \in 1 .. Len(u) /\ u[i] = s[i]
  BY <1>1
<1>4. \A i \in 1 .. Len(u) : \/ i \in 1 .. Len(s) /\ u[i] = s[i]
                             \/ i - Len(s) \in 1 .. Len(t) /\ u[i] = t[i - Len(s)]
  BY <1>1
<1>5. \A x : /\ x \in Items(u) <=> \E i \in 1 .. Len(u) : u[i] = x
             /\ x \in Items(s) <=> \E i \in 1 .. Len(s) : s[i] = x
             /\ x \in Items(t) <=> \E i \in 1 .. Len(t) : t[i] = x
  BY <1>1, ItemIs
<1>6. Items(u) = Items(s) \cup Items(t)
  <2>1. \A x \in Items(u) : x \in Items(s) \cup Items(t)
    BY <1>4, <1>5
  <2>2. \A x \in Items(s) : x \in Items(u)
    BY <1>3, <1>5
  <2>3. \A x \in Items(t) : x \in Items(u)
    BY <1>2, <1>5
  <2> QED BY <2>1, <2>2, <2>3
<1> QED BY <1>6 DEF u

LEMMA ItemsHeadTail ==
  ASSUME NEW S, NEW s \in Seq(S), s # <<>>
  PROVE  /\ Head(s) \in S /\ Tail(s) \in Seq(S)
         /\ Items(s) = {Head(s)} \cup Items(Tail(s))
<1>1. Len(s) > 0 /\ Head(s) = s[1] /\ Head(s) \in S /\ Tail(s) \in Seq(S)
  BY EmptySeq
<1>2. Len(Tail(s)) = Len(s) - 1 /\ \A i \in 1 .. Len(s) - 1 : Tail(s)[i] = s[i + 1]
  BY <1>1
<1>3. \A i \in 1 .. Len(s) : i = 1 \/ (i - 1 \in 1 .. Len(s) - 1 /\ Tail(s)[i - 1] = s[i])
  BY <1>1, <1>2
<1>4. \A i \in 1 .. Len(s) - 1 : i + 1 \in 1 .. Len(s)
  BY <1>1
<1>5. 1 \in 1 .. Len(s)
  BY <1>1
<1>6. \A x : /\ x \in Items(s) <=> \E i \in 1 .. Len(s) : s[i] = x
             /\ x \in Items(Tail(s)) <=> \E i \in 1 .. Len(Tail(s)) : Tail(s)[i] = x
  BY <1>1, ItemIs
<1>7. \A x \in Items(s) : x = Head(s) \/ x \in Items(Tail(s))
  BY <1>1, <1>2, <1>3, <1>6
<1>8. \A x \in Items(Tail(s)) : x \in Items(s)
  BY <1>2, <1>4, <1>6
<1>9. Head(s) \in Items(s)
  BY <1>1, <1>5, <1>6
<1> QED BY <1>1, <1>7, <1>8, <1>9

LEMMA ItemsType ==
  ASSUME NEW S, NEW s \in Seq(S)
  PROVE  Items(s) \subseteq S
BY DEF Items

LEMMA TableIs ==
  ASSUME NEW D \in SUBSET Nat, NEW f, f = [x \in D |-> f[x]], \A x \in D : f[x] \in Row
  PROVE  f \in Tables
<1>1. f \in [D -> Row]
  OBVIOUS
<1> QED BY <1>1 DEF Tables

LEMMA TableHas ==
  ASSUME NEW f \in Tables
  PROVE  DOMAIN f \in SUBSET Nat /\ \A x \in DOMAIN f : f[x] \in Row
BY DEF Tables

LEMMA RepaintedRows ==
  ASSUME NEW rows \in Tables, NEW row, NEW items \in Seq(Nat),
         NEW t, t = WithItems(rows, row, items)
  PROVE  /\ t \in Tables
         /\ DOMAIN t = DOMAIN rows
         /\ \A id \in DOMAIN rows :
             /\ t[id].kind = rows[id].kind /\ t[id].call = rows[id].call
             /\ t[id].status = rows[id].status
             /\ t[id].items = IF id = row THEN items ELSE rows[id].items
<1>1. DOMAIN rows \in SUBSET Nat /\ \A x \in DOMAIN rows : rows[x] \in Row
  BY TableHas
<1>2. t = [x \in DOMAIN rows |-> t[x]]
  BY DEF WithItems
<1>3. \A x \in DOMAIN rows : t[x] = IF x = row THEN [rows[x] EXCEPT !.items = items] ELSE rows[x]
  BY DEF WithItems
<1>4. \A x \in DOMAIN rows : t[x] \in Row
  BY <1>1, <1>3 DEF Row
<1>5. DOMAIN t = DOMAIN rows
  BY <1>2
<1>6. \A id \in DOMAIN rows :
             /\ t[id].kind = rows[id].kind /\ t[id].call = rows[id].call
             /\ t[id].status = rows[id].status
             /\ t[id].items = IF id = row THEN items ELSE rows[id].items
  BY <1>1, <1>3 DEF Row
<1> QED BY <1>1, <1>2, <1>4, <1>5, <1>6, TableIs

LEMMA MarkedRows ==
  ASSUME NEW rows \in Tables, NEW ids,
         NEW s \in {"active", "complete", "success", "error", "cancelled"},
         NEW t, t = WithStatus(rows, ids, s)
  PROVE  /\ t \in Tables
         /\ DOMAIN t = DOMAIN rows
         /\ \A id \in DOMAIN rows :
             /\ t[id].kind = rows[id].kind /\ t[id].call = rows[id].call
             /\ t[id].items = rows[id].items
             /\ t[id].status = IF id \in ids THEN s ELSE rows[id].status
<1>1. DOMAIN rows \in SUBSET Nat /\ \A x \in DOMAIN rows : rows[x] \in Row
  BY TableHas
<1>2. t = [x \in DOMAIN rows |-> t[x]]
  BY DEF WithStatus
<1>3. \A x \in DOMAIN rows : t[x] = IF x \in ids THEN [rows[x] EXCEPT !.status = s] ELSE rows[x]
  BY DEF WithStatus
<1>4. \A x \in DOMAIN rows : t[x] \in Row
  BY <1>1, <1>3 DEF Row
<1>5. DOMAIN t = DOMAIN rows
  BY <1>2
<1>6. \A id \in DOMAIN rows :
             /\ t[id].kind = rows[id].kind /\ t[id].call = rows[id].call
             /\ t[id].items = rows[id].items
             /\ t[id].status = IF id \in ids THEN s ELSE rows[id].status
  BY <1>1, <1>3 DEF Row
<1> QED BY <1>1, <1>2, <1>4, <1>5, <1>6, TableIs

LEMMA RefreshedRows ==
  ASSUME NEW v, View(v), NEW kept \in [Calls -> Seq(Nat)], NEW t, t = Refreshed(v, kept)
  PROVE  /\ t \in Tables
         /\ DOMAIN t = DOMAIN v.rows
         /\ \A id \in DOMAIN v.rows :
             /\ t[id].kind = v.rows[id].kind /\ t[id].call = v.rows[id].call
             /\ t[id].status = v.rows[id].status
             /\ t[id].items = IF v.rows[id].call \in Queued(v) /\ v.rowOf[v.rows[id].call] = id
                              THEN kept[v.rows[id].call] ELSE v.rows[id].items
<1>1. DOMAIN v.rows \in SUBSET Nat /\ \A x \in DOMAIN v.rows : v.rows[x] \in Row
  BY TableHas DEF View
<1>2. t = [x \in DOMAIN v.rows |-> t[x]]
  BY DEF Refreshed
<1>3. \A id \in DOMAIN v.rows :
        t[id] = IF v.rows[id].call \in Queued(v) /\ v.rowOf[v.rows[id].call] = id
                THEN [v.rows[id] EXCEPT !.items = kept[v.rows[id].call]] ELSE v.rows[id]
  BY DEF Refreshed
<1>4. Queued(v) \subseteq Calls
  BY DEF Queued
<1>5. \A x \in DOMAIN v.rows : t[x] \in Row
  <2> TAKE x \in DOMAIN v.rows
  <2>1. v.rows[x] \in Row
    BY <1>1
  <2>2. CASE v.rows[x].call \in Queued(v) /\ v.rowOf[v.rows[x].call] = x
    <3>1. kept[v.rows[x].call] \in Seq(Nat)
      BY <1>4, <2>2
    <3> QED BY <1>3, <2>1, <2>2, <3>1 DEF Row
  <2> QED BY <1>3, <2>1, <2>2
<1>6. DOMAIN t = DOMAIN v.rows
  BY <1>2
<1>7. \A id \in DOMAIN v.rows :
             /\ t[id].kind = v.rows[id].kind /\ t[id].call = v.rows[id].call
             /\ t[id].status = v.rows[id].status
             /\ t[id].items = IF v.rows[id].call \in Queued(v) /\ v.rowOf[v.rows[id].call] = id
                              THEN kept[v.rows[id].call] ELSE v.rows[id].items
  BY <1>1, <1>3 DEF Row
<1> QED BY <1>1, <1>2, <1>5, <1>6, <1>7, TableIs

\* The view w has one row more than v, the last.
OneMore(w, v, k, c, items, s) ==
    /\ View(w) /\ SameProse(w, v) /\ SameTools(w, v)
    /\ w.tasks = v.tasks /\ w.parked = v.parked /\ w.unresolved = v.unresolved
    /\ w.made = v.made + 1 /\ w.made \in Nat \ {0}
    /\ DOMAIN w.rows = DOMAIN v.rows \cup {w.made} /\ w.made \notin DOMAIN v.rows
    /\ \A id \in DOMAIN v.rows : w.rows[id] = v.rows[id] /\ id < w.made
    /\ w.rows[w.made].kind = k /\ w.rows[w.made].call = c
    /\ w.rows[w.made].items = items /\ w.rows[w.made].status = s

LEMMA OpenedRows ==
  ASSUME NEW v, View(v), Wired(v), NEW k \in {"prose", "tool", "effect", "tasks", "notice"},
         NEW c \in Calls \cup {Nil}, NEW items \in Seq(Nat), NEW s \in {"active", "complete"},
         NEW w, w = Open(v, k, c, items, s)
  PROVE  OneMore(w, v, k, c, items, s)
<1> DEFINE D == DOMAIN v.rows \cup {v.made + 1}
           t == [id \in D |-> IF id \in DOMAIN v.rows THEN v.rows[id]
                             ELSE [kind |-> k, call |-> c, items |-> items, status |-> s]]
<1>1. v.rows \in Tables /\ v.made \in Nat
  BY DEF View
<1>2. DOMAIN v.rows \in SUBSET Nat /\ \A x \in DOMAIN v.rows : v.rows[x] \in Row
  BY <1>1, TableHas
<1>3. D \in SUBSET Nat
  BY <1>1, <1>2
<1>4. \A x \in D : t[x] \in Row
  BY <1>1, <1>2 DEF Row
<1>5. t \in Tables
  BY <1>3, <1>4, TableIs
<1>6. w = [v EXCEPT !.made = v.made + 1, !.rows = t]
  BY DEF Open
<1>7. \A id \in DOMAIN v.rows : id < v.made + 1
  BY <1>1 DEF Wired
<1>8. DOMAIN t = D /\ \A id \in DOMAIN v.rows : t[id] = v.rows[id]
  OBVIOUS
<1>9. v.made + 1 \notin DOMAIN v.rows
  BY <1>1, <1>7
<1>10. /\ t[v.made + 1].kind = k /\ t[v.made + 1].call = c
       /\ t[v.made + 1].items = items /\ t[v.made + 1].status = s
  BY <1>9
<1> HIDE DEF t
<1>11. w.rows = t /\ w.made = v.made + 1
  BY <1>6 DEF View
<1>12. View(w)
  BY <1>1, <1>5, <1>6 DEF View
<1>13. SameProse(w, v) /\ SameTools(w, v) /\ w.tasks = v.tasks /\ w.parked = v.parked
          /\ w.unresolved = v.unresolved
  BY <1>6 DEF View, SameProse, SameTools
<1> QED BY <1>1, <1>7, <1>8, <1>9, <1>10, <1>11, <1>12, <1>13 DEF OneMore

LEMMA WorkTypes ==
  /\ FlushLater \in Work /\ FlushLater.do = "flush" /\ FlushLater.item = 0
  /\ \A c \in Calls, n \in Nat, e \in BOOLEAN :
        LET w == OutputLater(c, n, e) IN
        w \in Work /\ w.do = "output" /\ w.call = c /\ w.item = n /\ w.edit = e
  /\ \A c \in Calls, o \in {"success", "error"} :
        LET w == ResultLater(c, o) IN
        w \in Work /\ w.do = "result" /\ w.call = c /\ w.outcome = o /\ w.item = 0
<1>1. FlushLater \in Work
  BY DEF Work
<1>2. FlushLater.do = "flush" /\ FlushLater.item = 0
  BY DEF FlushLater, Nil
<1>3. \A c \in Calls, n \in Nat, e \in BOOLEAN : OutputLater(c, n, e) \in Work
  BY DEF Work
<1>4. \A c \in Calls, n \in Nat, e \in BOOLEAN :
        LET w == OutputLater(c, n, e) IN w.do = "output" /\ w.call = c /\ w.item = n /\ w.edit = e
  BY DEF OutputLater
<1>5. \A c \in Calls, o \in {"success", "error"} : ResultLater(c, o) \in Work
  BY DEF Work
<1>6. \A c \in Calls, o \in {"success", "error"} :
        LET w == ResultLater(c, o) IN
        w.do = "result" /\ w.call = c /\ w.outcome = o /\ w.item = 0
  BY DEF ResultLater, Nil
<1> QED BY <1>1, <1>2, <1>3, <1>4, <1>5, <1>6

LEMMA WorkIs ==
  ASSUME NEW w \in Work
  PROVE  \/ w.do = "flush" /\ w = FlushLater
         \/ /\ w.do = "output" /\ w = OutputLater(w.call, w.item, w.edit)
            /\ w.call \in Calls /\ w.item \in Nat /\ w.edit \in BOOLEAN
         \/ /\ w.do = "result" /\ w = ResultLater(w.call, w.outcome)
            /\ w.call \in Calls /\ w.outcome \in {"success", "error"}
BY DEF FlushLater, OutputLater, ResultLater, Work, Nil

LEMMA Least ==
  ASSUME NEW S \in SUBSET Nat, S # {}
  PROVE  \E m \in S : \A x \in S : m <= x
<1> DEFINE R == OpToRel(<, Nat)
<1>1. \A x, y \in Nat : x < y => <<x, y>> \in R
  BY DEF OpToRel
<1>2. IsWellFoundedOn(R, Nat)
  BY NatLessThanWellFounded
<1> HIDE DEF R
<1>3. PICK m \in S : \A y \in S : ~(<<y, m>> \in R)
  BY <1>2, WFMin
<1>4. \A x \in S : m <= x
  <2> SUFFICES ASSUME NEW x \in S PROVE ~(x < m)
    OBVIOUS
  <2> QED BY <1>1, <1>3
<1> QED BY <1>4

\* The parked work is done one by one.
LEMMA ParkedWorkRuns ==
  ASSUME NEW v, v.parked \in Seq(Work)
  PROVE  \E after :
            /\ RunParked(v) = after[Len(v.parked)]
            /\ after[0] = [v EXCEPT !.parked = <<>>]
            /\ \A i \in 1 .. Len(v.parked) : after[i] = Run(after[i - 1], v.parked[i])
<1> DEFINE start == [v EXCEPT !.parked = <<>>]
           N == Len(v.parked)
           Trace(n, g) == g = [i \in 0 .. n |-> IF i = 0 THEN start ELSE Run(g[i - 1], v.parked[i])]
           Bad == {n \in 0 .. N : ~\E g : Trace(n, g)}
<1>1. N \in Nat
  OBVIOUS
<1>2. Bad = {}
  <2> SUFFICES ASSUME Bad # {} PROVE FALSE
    OBVIOUS
  <2>1. PICK m \in Bad : \A x \in Bad : m <= x
    <3>1. Bad \in SUBSET Nat
      BY <1>1
    <3> HIDE DEF Bad
    <3> QED BY <3>1, Least
  <2>2. CASE m = 0
    <3> DEFINE g == [i \in 0 .. 0 |-> start]
    <3>1. g = [i \in 0 .. 0 |-> IF i = 0 THEN start ELSE Run(g[i - 1], v.parked[i])]
      OBVIOUS
    <3> QED BY <2>1, <2>2, <3>1
  <2>3. CASE m # 0
    <3>1. m - 1 \in 0 .. N /\ m \in 0 .. N /\ m - 1 \notin Bad
      BY <1>1, <2>1, <2>3
    <3>2. PICK g : Trace(m - 1, g)
      BY <3>1
    <3> DEFINE h == [i \in 0 .. m |-> IF i < m THEN g[i] ELSE Run(g[m - 1], v.parked[m])]
    <3>3. ASSUME NEW i \in 0 .. m
          PROVE  h[i] = IF i = 0 THEN start ELSE Run(h[i - 1], v.parked[i])
      <4>1. CASE i = 0
        <5>1. h[0] = g[0] /\ g[0] = start
          BY <2>3, <3>1, <3>2, <4>1
        <5> QED BY <4>1, <5>1
      <4>2. CASE i # 0 /\ i < m
        <5>1. i \in 0 .. m - 1 /\ i - 1 \in 0 .. m - 1 /\ i - 1 < m
          BY <3>1, <4>2
        <5>2. g[i] = Run(g[i - 1], v.parked[i])
          <6>1. \A k \in 0 .. m - 1 : g[k] = IF k = 0 THEN start ELSE Run(g[k - 1], v.parked[k])
            BY <3>2
          <6> QED BY <4>2, <5>1, <6>1
        <5>3. h[i] = g[i] /\ h[i - 1] = g[i - 1]
          BY <3>1, <4>2, <5>1
        <5> QED BY <4>2, <5>2, <5>3
      <4>3. CASE i = m
        <5>1. h[m] = Run(g[m - 1], v.parked[m]) /\ h[m - 1] = g[m - 1]
          BY <2>3, <3>1
        <5> QED BY <2>3, <4>3, <5>1
      <4> QED BY <3>1, <4>1, <4>2, <4>3
    <3>4. Trace(m, h)
      BY <3>3
    <3> QED BY <2>1, <3>4
  <2> QED BY <2>2, <2>3
<1> DEFINE after == CHOOSE g : Trace(N, g)
<1>3. Trace(N, after)
  <2>1. \E g : Trace(N, g)
    BY <1>1, <1>2
  <2> QED BY <2>1
<1>4. RunParked(v) = after[N]
  BY DEF RunParked
<1>5. after[0] = start /\ \A i \in 1 .. N : after[i] = Run(after[i - 1], v.parked[i])
  <2> HIDE DEF after
  <2>1. \A k \in 0 .. N : after[k] = IF k = 0 THEN start ELSE Run(after[k - 1], v.parked[k])
    BY <1>3
  <2>2. 0 \in 0 .. N /\ \A k \in 1 .. N : k \in 0 .. N /\ k # 0
    BY <1>1
  <2> HIDE DEF N, start
  <2> QED BY <2>1, <2>2
<1> QED BY <1>4, <1>5

-----------------------------------------------------------------------------
(* What a handler does to a view, in small changes that keep it sound *)

\* Rows that show no output change what they show, and marks change.
Repaints(t, v, st, open) ==
    /\ t \in Tables /\ DOMAIN t = DOMAIN v.rows
    /\ \A id \in DOMAIN v.rows :
        /\ t[id].kind = v.rows[id].kind /\ t[id].call = v.rows[id].call
        /\ t[id].items = v.rows[id].items
             \/ (v.rows[id].kind # "tool" /\ Items(t[id].items) \subseteq (0 .. st.clock) \ st.put)
        /\ open /\ v.rows[id].kind = "tool" => t[id].status = v.rows[id].status
Repainted(w, v, t) ==
    /\ SameProse(w, v) /\ SameTools(w, v) /\ w.rows = t /\ w.made = v.made
    /\ w.tasks = v.tasks /\ w.parked = v.parked /\ Onward(v, w, {})

LEMMA Redrawn ==
  ASSUME NEW v, NEW rest \in SUBSET Work, NEW st, NEW open \in BOOLEAN, Sound(v, rest, st, open),
         NEW t, Repaints(t, v, st, open),
         NEW w, w = [v EXCEPT !.rows = t] \/ w = [v EXCEPT !.unresolved = {}, !.rows = t]
  PROVE  Sound(w, rest, st, open) /\ Repainted(w, v, t)
<1>0. /\ t \in Tables /\ DOMAIN t = DOMAIN v.rows
      /\ \A id \in DOMAIN v.rows :
             /\ t[id].kind = v.rows[id].kind /\ t[id].call = v.rows[id].call
             /\ t[id].items = v.rows[id].items
                  \/ (v.rows[id].kind # "tool" /\ Items(t[id].items) \subseteq (0 .. st.clock) \ st.put)
             /\ open /\ v.rows[id].kind = "tool" => t[id].status = v.rows[id].status
  BY DEF Repaints
<1> USE DEF Nil
<1>1. /\ w.rows = t /\ w.made = v.made /\ w.tasks = v.tasks /\ w.parked = v.parked
  BY DEF Sound, View
<1>2. SameProse(w, v) /\ SameTools(w, v)
  BY DEF Sound, View, SameProse, SameTools
<1>3. View(w)
  BY <1>0 DEF Sound, View
<1>4. Wired(w)
  BY <1>0, <1>1, <1>2 DEF Sound, Wired, SameProse, SameTools
<1>5. Queued(w) = Queued(v)
  BY <1>2 DEF Queued, SameTools
<1>6. Timed(w)
  BY <1>0, <1>1, <1>2, <1>5 DEF Sound, Timed, InFlight, SameProse, SameTools
<1>7. Known(w, st)
  BY <1>2 DEF Sound, Known, SameTools
<1>8. Lined(w, rest, st)
  BY <1>0, <1>1, <1>2 DEF Sound, Lined, Due, SameTools
<1>9. \A id : Below(w, id) = Below(v, id)
  BY <1>0, <1>1 DEF Below
<1>10. Clear(w, rest, st)
  <2> SUFFICES ASSUME NEW c \in Calls, Expects(w, rest, st, c) PROVE HasTheFloor(w, rest, c)
    BY DEF Clear
  <2>1. HasTheFloor(v, rest, c)
    BY <1>2 DEF Sound, Clear, Expects, SameTools
  <2>2. Below(w, w.rowOf[c]) = {}
    BY <1>2, <1>9, <2>1 DEF SameTools, HasTheFloor
  <2> QED BY <1>0, <1>1, <1>2, <2>1, <2>2 DEF SameProse, HasTheFloor
<1>11. Announced(w, rest, st)
  BY <1>0, <1>1, <1>2 DEF Sound, Announced, SameTools
<1>12. Under(w)
  BY <1>0, <1>1, <1>2, <1>5, <1>9 DEF Sound, Under, Below, SameTools
<1>13. OutputSaved(w, rest, st)
  <2>1. \A c \in Calls : w.rowOf[c] # 0 => w.rows[w.rowOf[c]].items = v.rows[v.rowOf[c]].items
    BY <1>0, <1>1, <1>2 DEF Sound, Wired, SameTools
  <2>2. \A n \in st.put : OnScreen(v, n) => OnScreen(w, n)
    BY <1>0, <1>1 DEF Sound, OutputSaved, OnScreen
  <2>3. \A n : InQueue(w, n) <=> InQueue(v, n)
    BY <1>2 DEF InQueue, SameTools
  <2>4. \A id \in DOMAIN w.rows : \A n \in Items(w.rows[id].items) :
          n \in 0 .. st.clock /\ (n \in st.put => w.rows[id].kind = "tool")
    BY <1>0, <1>1 DEF Sound, OutputSaved
  <2> QED BY <1>0, <1>1, <1>2, <2>1, <2>2, <2>3, <2>4 DEF Sound, OutputSaved, SameTools, SameProse
<1>14. open => Settled(w, rest, st)
  BY <1>0, <1>1, <1>2, <1>5 DEF Sound, Wired, Settled, SameTools
<1>15. Onward(v, w, {})
  BY <1>0, <1>1, <1>2 DEF Onward, SameTools
<1>30. open => Marked(w)
  BY <1>0, <1>1, <1>2 DEF Sound, Marked, SameTools
<1> QED BY <1>0, <1>1, <1>2, <1>3, <1>4, <1>6, <1>7, <1>8, <1>10, <1>11, <1>12, <1>13, <1>14, <1>15, <1>30 DEF Sound, Repainted

\* A row that is no tool's opens; prose, only where nothing is being revealed.
Added(w, v, k) ==
    /\ SameProse(w, v) /\ SameTools(w, v)
    /\ w.made = v.made + 1 /\ w.made \in Nat \ {0} /\ w.made \in DOMAIN w.rows
    /\ w.rows[w.made].kind = k /\ w.tasks = v.tasks /\ w.parked = v.parked /\ Onward(v, w, {})

LEMMA Opened ==
  ASSUME NEW v, NEW rest \in SUBSET Work, NEW st, NEW open \in BOOLEAN, Sound(v, rest, st, open),
         NEW k \in {"prose", "effect", "tasks", "notice"},
         k = "prose" => ~InFlight(v) /\ v.content # <<>>,
         NEW items \in Seq(Nat), Items(items) \subseteq (0 .. st.clock) \ st.put,
         NEW s \in {"active", "complete"}, NEW w, w = Open(v, k, Nil, items, s)
  PROVE  Sound(w, rest, st, open) /\ Added(w, v, k)
<1>0. View(v) /\ Wired(v)
  BY DEF Sound
<1>1. /\ View(w) /\ SameProse(w, v) /\ SameTools(w, v)
      /\ w.tasks = v.tasks /\ w.parked = v.parked /\ w.unresolved = v.unresolved
      /\ w.made = v.made + 1 /\ w.made \in Nat \ {0}
      /\ DOMAIN w.rows = DOMAIN v.rows \cup {w.made} /\ w.made \notin DOMAIN v.rows
      /\ \A id \in DOMAIN v.rows : w.rows[id] = v.rows[id] /\ id < w.made
      /\ w.rows[w.made].kind = k /\ w.rows[w.made].call = Nil
      /\ w.rows[w.made].items = items /\ w.rows[w.made].status = s
  <2>1. Nil \in Calls \cup {Nil} /\ k \in {"prose", "tool", "effect", "tasks", "notice"}
    OBVIOUS
  <2>2. OneMore(w, v, k, Nil, items, s)
    BY <1>0, <2>1, OpenedRows
  <2> QED BY <2>2 DEF OneMore
<1> USE DEF Nil
<1>2. v.made \in Nat
  BY <1>0 DEF View
<1>3. \A x \in 1 .. v.made : x \in 1 .. w.made
  BY <1>1, <1>2
<1>4. w.made \in 1 .. w.made
  BY <1>1, <1>2
<1>5. Wired(w)
  BY <1>0, <1>1, <1>3, <1>4 DEF Wired, SameTools, SameProse
<1>6. Queued(w) = Queued(v)
  BY <1>1 DEF Queued, SameTools
<1>7. Timed(w)
  BY <1>1, <1>6 DEF Sound, Timed, InFlight, SameProse, SameTools
<1>8. Known(w, st)
  BY <1>1 DEF Sound, Known, SameTools
<1>9. Lined(w, rest, st)
  BY <1>1 DEF Sound, Lined, Due, SameTools
<1>10. k # "prose" => \A id : Below(w, id) = Below(v, id)
  BY <1>1 DEF Below
<1>11. Clear(w, rest, st)
  <2> SUFFICES ASSUME NEW c \in Calls, Expects(w, rest, st, c) PROVE HasTheFloor(w, rest, c)
    BY DEF Clear
  <2>1. HasTheFloor(v, rest, c)
    BY <1>1 DEF Sound, Clear, Expects, SameTools
  <2>2. Below(w, w.rowOf[c]) = {}
    BY <1>1, <1>10, <2>1 DEF SameTools, HasTheFloor
  <2> QED BY <1>1, <2>1, <2>2 DEF SameProse, HasTheFloor
<1>12. Announced(w, rest, st)
  BY <1>1 DEF Sound, Announced, SameTools
<1>13. Under(w)
  <2>1. CASE k = "prose"
    BY <1>6, <2>1 DEF Under, InFlight
  <2>2. CASE k # "prose"
    BY <1>1, <1>6, <1>10, <2>2 DEF Sound, Under, Below, SameTools
  <2> QED BY <2>1, <2>2
<1>14. OutputSaved(w, rest, st)
  <2>1. \A c \in Calls : w.rowOf[c] # 0 => w.rows[w.rowOf[c]].items = v.rows[v.rowOf[c]].items
    BY <1>0, <1>1 DEF Wired, SameTools
  <2>2. \A n \in st.put : OnScreen(v, n) => OnScreen(w, n)
    BY <1>1 DEF OnScreen
  <2>3. \A n : InQueue(w, n) <=> InQueue(v, n)
    BY <1>1 DEF InQueue, SameTools
  <2>4. \A id \in DOMAIN w.rows : \A n \in Items(w.rows[id].items) :
          n \in 0 .. st.clock /\ (n \in st.put => w.rows[id].kind = "tool")
    BY <1>1 DEF Sound, OutputSaved
  <2> QED BY <1>1, <2>1, <2>2, <2>3, <2>4 DEF Sound, OutputSaved, SameTools, SameProse
<1>15. open => Settled(w, rest, st)
  BY <1>0, <1>1, <1>6 DEF Sound, Wired, Settled, SameTools
<1>16. Onward(v, w, {})
  BY <1>1, <1>2 DEF Onward, SameTools
<1>30. open => Marked(w)
  BY <1>0, <1>1 DEF Sound, Marked, SameTools
<1> QED BY <1>1, <1>5, <1>7, <1>8, <1>9, <1>11, <1>12, <1>13, <1>14, <1>15, <1>16, <1>30 DEF Sound, Added

\* A pointer is set to a row of its kind, or to none.
Points(w, v) ==
    /\ View(w) /\ Wired(w) /\ SameTools(w, v) /\ w.rows = v.rows /\ w.parked = v.parked
    /\ w.content = v.content /\ w.pending = v.pending /\ w.ticking = v.ticking

LEMMA Pointed ==
  ASSUME NEW v, NEW rest \in SUBSET Work, NEW st, NEW open \in BOOLEAN, Sound(v, rest, st, open),
         NEW w, Points(w, v)
  PROVE  Sound(w, rest, st, open)
<1> USE DEF Nil
<1>1. /\ w.rows = v.rows /\ w.parked = v.parked
      /\ w.content = v.content /\ w.pending = v.pending /\ w.ticking = v.ticking
  BY DEF Points
<1>2. SameTools(w, v)
  BY DEF Points
<1>3. View(w)
  BY DEF Points
<1>4. Wired(w)
  BY DEF Points
<1>5. Queued(w) = Queued(v)
  BY <1>2 DEF Queued, SameTools
<1>6. \A id : Below(w, id) = Below(v, id)
  BY <1>1 DEF Below
<1>7. \A n : (OnScreen(w, n) <=> OnScreen(v, n)) /\ (InQueue(w, n) <=> InQueue(v, n))
  BY <1>1, <1>2 DEF OnScreen, InQueue, SameTools
<1>8. Timed(w) /\ Known(w, st)
  BY <1>1, <1>2, <1>5 DEF Sound, Timed, Known, InFlight, SameTools
<1>9. Lined(w, rest, st) /\ Announced(w, rest, st)
  BY <1>1, <1>2 DEF Sound, Lined, Due, Announced, SameTools
<1>10. Clear(w, rest, st)
  <2> SUFFICES ASSUME NEW c \in Calls, Expects(w, rest, st, c) PROVE HasTheFloor(w, rest, c)
    BY DEF Clear
  <2>1. HasTheFloor(v, rest, c)
    BY <1>2 DEF Sound, Clear, Expects, SameTools
  <2>2. Below(w, w.rowOf[c]) = {}
    BY <1>2, <1>6, <2>1 DEF SameTools, HasTheFloor
  <2> QED BY <1>1, <2>1, <2>2 DEF HasTheFloor
<1>13. Under(w)
  BY <1>1, <1>2, <1>5, <1>6 DEF Sound, Under, SameTools
<1>11. OutputSaved(w, rest, st)
  BY <1>1, <1>2, <1>7 DEF Sound, OutputSaved, SameTools
<1>12. open => Settled(w, rest, st)
  BY <1>1, <1>2, <1>5 DEF Sound, Settled, SameTools
<1>30. open => Marked(w)
  BY <1>1, <1>2 DEF Sound, Marked, SameTools
<1> QED BY <1>1, <1>2, <1>3, <1>4, <1>8, <1>9, <1>10, <1>11, <1>12, <1>13, <1>30 DEF Sound

\* Prose moves on; none comes while an edit with a row has more output to come.
ProseMoves(w, v, st) ==
    /\ View(w) /\ SameTools(w, v) /\ w.rows = v.rows /\ w.made = v.made /\ w.active = v.active
    /\ w.tasks = v.tasks /\ w.parked = v.parked /\ (w.pending # <<>> => w.ticking)
    /\ Items(w.content) \cup Items(w.pending) \subseteq (0 .. st.clock) \ st.put

LEMMA ProseMoved ==
  ASSUME NEW v, NEW rest \in SUBSET Work, NEW st, NEW open \in BOOLEAN, Sound(v, rest, st, open),
         NEW w, ProseMoves(w, v, st),
         (\E c \in Calls : Expects(v, rest, st, c)) => w.content = <<>> /\ w.pending = <<>>
  PROVE  Sound(w, rest, st, open)
<1> USE DEF Nil
<1>1. /\ w.rows = v.rows /\ w.made = v.made /\ w.active = v.active
      /\ w.tasks = v.tasks /\ w.parked = v.parked /\ (w.pending # <<>> => w.ticking)
      /\ Items(w.content) \cup Items(w.pending) \subseteq (0 .. st.clock) \ st.put
  BY DEF ProseMoves
<1>2. SameTools(w, v)
  BY DEF ProseMoves
<1>3. View(w)
  BY DEF ProseMoves
<1>4. Wired(w)
  BY <1>1, <1>2 DEF Sound, Wired, SameTools
<1>5. Queued(w) = Queued(v)
  BY <1>2 DEF Queued, SameTools
<1>6. \A id : Below(w, id) = Below(v, id)
  BY <1>1 DEF Below
<1>7. \A n : (OnScreen(w, n) <=> OnScreen(v, n)) /\ (InQueue(w, n) <=> InQueue(v, n))
  BY <1>1, <1>2 DEF OnScreen, InQueue, SameTools
<1>8. Timed(w) /\ Known(w, st)
  BY <1>1, <1>2, <1>5 DEF Sound, Timed, Known, InFlight, SameTools
<1>9. Lined(w, rest, st) /\ Announced(w, rest, st)
  BY <1>1, <1>2 DEF Sound, Lined, Due, Announced, SameTools
<1>10. Clear(w, rest, st) /\ Under(w)
  BY <1>1, <1>2, <1>5, <1>6 DEF Sound, Clear, Expects, HasTheFloor, Under, SameTools
<1>11. OutputSaved(w, rest, st)
  BY <1>1, <1>2, <1>7 DEF Sound, OutputSaved, SameTools
<1>12. open => Settled(w, rest, st)
  BY <1>1, <1>2, <1>5 DEF Sound, Settled, SameTools
<1>30. open => Marked(w)
  BY <1>1, <1>2 DEF Sound, Marked, SameTools
<1> QED BY <1>1, <1>2, <1>3, <1>4, <1>8, <1>9, <1>10, <1>11, <1>12, <1>30 DEF Sound

\* Work is parked while lines are being revealed.
Parks(w, v, u) ==
    /\ SameProse(w, v) /\ SameTools(w, v) /\ w.rows = v.rows /\ w.made = v.made
    /\ w.tasks = v.tasks /\ w.parked = Append(v.parked, u) /\ Onward(v, w, {})
    /\ Items(w.parked) = Items(v.parked) \cup {u}

LEMMA WorkParked ==
  ASSUME NEW v, NEW rest \in SUBSET Work, NEW st, Stream(st), NEW open \in BOOLEAN,
         NEW u \in Work, Sound(v, {u} \cup rest, st, open), InFlight(v),
         \A b \in rest : Before(u, b), u.do = "output" => v.rowOf[u.call] = Nil,
         NEW w, w = Park(v, u)
  PROVE  Sound(w, rest, st, open) /\ Parks(w, v, u)
<1> USE DEF Nil
<1>1. /\ w.rows = v.rows /\ w.made = v.made /\ w.tasks = v.tasks
      /\ w.parked = Append(v.parked, u)
  BY DEF Sound, View, Park
<1>2. SameProse(w, v) /\ SameTools(w, v)
  BY DEF Sound, View, SameProse, SameTools, Park
<1>3. View(w)
  BY DEF Sound, View, Park
<1>4. v.parked \in Seq(Work)
  BY DEF Sound, View
<1>5. Items(w.parked) = Items(v.parked) \cup {u}
  BY <1>1, <1>4, ItemsAppend
<1>6. Items(w.parked) \cup rest = Items(v.parked) \cup ({u} \cup rest)
  BY <1>5
<1>7. Queued(w) = Queued(v) /\ InFlight(w)
  BY <1>2 DEF Queued, InFlight, SameTools
<1>8. \A id : Below(w, id) = Below(v, id)
  BY <1>1 DEF Below
<1>9. Wired(w)
  BY <1>1, <1>2 DEF Sound, Wired, SameTools, SameProse
<1>10. Timed(w) /\ Known(w, st)
  BY <1>1, <1>2, <1>7 DEF Sound, Timed, Known, SameTools, SameProse
<1>11. Lined(w, rest, st)
  <2>1. \A x \in Items(w.parked) \cup rest : Due(x, w, st)
    BY <1>2, <1>6 DEF Sound, Lined, Due, SameTools
  <2>2. \A j, k \in DOMAIN w.parked : j < k => Before(w.parked[j], w.parked[k])
    <3>1. /\ DOMAIN w.parked = 1 .. Len(v.parked) + 1 /\ DOMAIN v.parked = 1 .. Len(v.parked)
          /\ Len(v.parked) \in Nat /\ w.parked[Len(v.parked) + 1] = u
          /\ \A j \in 1 .. Len(v.parked) : w.parked[j] = v.parked[j]
      BY <1>1, <1>4
    <3>2. \A j \in DOMAIN v.parked : Before(v.parked[j], u)
      BY DEF Sound, Lined, Items
    <3> SUFFICES ASSUME NEW j \in DOMAIN w.parked, NEW k \in DOMAIN w.parked, j < k
                 PROVE  Before(w.parked[j], w.parked[k])
      OBVIOUS
    <3>3. j \in 1 .. Len(v.parked)
      BY <3>1
    <3>4. CASE k = Len(v.parked) + 1
      BY <3>1, <3>2, <3>3, <3>4
    <3>5. CASE k # Len(v.parked) + 1
      <4>1. k \in 1 .. Len(v.parked)
        BY <3>1, <3>5
      <4>2. Before(v.parked[j], v.parked[k])
        BY <3>1, <3>3, <4>1 DEF Sound, Lined
      <4> QED BY <3>1, <3>3, <4>1, <4>2
    <3> QED BY <3>4, <3>5
  <2>3. \A a \in Items(w.parked), b \in rest : Before(a, b)
    BY <1>5 DEF Sound, Lined
  <2>4. \A c \in Calls : w.rowOf[c] # 0 /\ Edit(st, c) => ~HasOutput(Items(w.parked), c)
    BY <1>2, <1>5 DEF Sound, Lined, HasOutput, SameTools
  <2>5. \A c \in w.paced : c \in Heard(st) /\ Edit(st, c)
    BY <1>2 DEF Sound, Lined, SameTools
  <2> QED BY <2>1, <2>2, <2>3, <2>4, <2>5 DEF Lined
<1>12. Clear(w, rest, st)
  <2> SUFFICES ASSUME NEW c \in Calls, Expects(w, rest, st, c) PROVE HasTheFloor(w, rest, c)
    BY DEF Clear
  <2>1. HasTheFloor(v, {u} \cup rest, c) /\ v.rowOf[c] # 0
    BY <1>2 DEF Sound, Clear, Expects, SameTools, HasOutput
  <2>2. u.do # "output"
    <3> SUFFICES ASSUME u.do = "output" PROVE FALSE
      OBVIOUS
    <3>1. c <= u.call /\ u.call \in Heard(st) /\ u.call # c
      BY <2>1 DEF HasTheFloor, Sound, Lined, Due
    <3>2. u.call \in Nat /\ c \in Nat /\ st.at \in Nat /\ u.call <= st.at
      BY <3>1 DEF Heard, Calls, Stream
    <3>3. CASE c = st.at
      BY <3>1, <3>2, <3>3
    <3>4. CASE HasOutput(rest, c)
      BY <3>1, <3>2, <3>4 DEF HasOutput, Before
    <3> QED BY <3>3, <3>4 DEF Expects
  <2>3. Below(w, w.rowOf[c]) = {}
    BY <1>2, <1>8, <2>1 DEF SameTools, HasTheFloor
  <2> QED BY <1>2, <1>5, <2>1, <2>2, <2>3 DEF SameProse, HasTheFloor
<1>13. Announced(w, rest, st)
  BY <1>2, <1>6 DEF Sound, Announced, SameTools
<1>14. Under(w)
  BY <1>1, <1>2, <1>5, <1>7, <1>8 DEF Sound, Under, HasOutput, SameTools
<1>15. OutputSaved(w, rest, st)
  <2>1. \A n : (OnScreen(w, n) <=> OnScreen(v, n)) /\ (InQueue(w, n) <=> InQueue(v, n))
    BY <1>1, <1>2 DEF OnScreen, InQueue, SameTools
  <2> QED BY <1>1, <1>2, <1>6, <2>1 DEF Sound, OutputSaved, SameTools, SameProse
<1>16. open => Settled(w, rest, st)
  BY <1>1, <1>2, <1>7 DEF Sound, Settled, HasOutput, SameTools
<1>17. Onward(v, w, {})
  BY <1>1, <1>2 DEF Onward, SameTools
<1>30. open => Marked(w)
  BY <1>1, <1>2 DEF Sound, Marked, SameTools
<1> QED BY <1>1, <1>2, <1>3, <1>5, <1>9, <1>10, <1>11, <1>12, <1>13, <1>14, <1>15, <1>16, <1>17, <1>30 DEF Sound, Parks

\* A flush, or an outcome, that leaves nothing to be done.
LEMMA WorkDone ==
  ASSUME NEW v, NEW rest \in SUBSET Work, NEW st, NEW open \in BOOLEAN,
         NEW u \in Work, Sound(v, {u} \cup rest, st, open), u.do # "output"
  PROVE  Sound(v, rest, st, open)
<1>1. Lined(v, rest, st)
  BY DEF Sound, Lined
<1>2. Clear(v, rest, st)
  BY DEF Sound, Clear, Expects, HasTheFloor, HasOutput
<1>3. Announced(v, rest, st)
  BY DEF Sound, Announced, HasOutput
<1>4. OutputSaved(v, rest, st)
  <2>1. \A n : Waits(Items(v.parked) \cup ({u} \cup rest), n) => Waits(Items(v.parked) \cup rest, n)
    BY DEF Waits
  <2> QED BY <2>1 DEF Sound, OutputSaved
<1>5. open => Settled(v, rest, st)
  BY DEF Sound, Settled, HasOutput
<1> QED BY <1>1, <1>2, <1>3, <1>4, <1>5 DEF Sound

\* Whatever is to be done, a flush may come first.
LEMMA FlushFirst ==
  ASSUME NEW v, NEW rest \in SUBSET Work, NEW st, Stream(st), NEW open \in BOOLEAN,
         Sound(v, rest, st, open)
  PROVE  Sound(v, {FlushLater} \cup rest, st, open)
<1>1. FlushLater \in Work /\ FlushLater.do = "flush" /\ FlushLater.item = 0
  BY WorkTypes
<1>2. \A x : Before(x, FlushLater)
  BY <1>1 DEF Before
<1>3. \A x : Due(FlushLater, x, st)
  BY <1>1 DEF Due, Stream
<1>4. Lined(v, {FlushLater} \cup rest, st)
  BY <1>2, <1>3 DEF Sound, Lined
<1>5. \A c : HasOutput({FlushLater} \cup rest, c) <=> HasOutput(rest, c)
  BY <1>1 DEF HasOutput
<1>6. Clear(v, {FlushLater} \cup rest, st)
  BY <1>1, <1>5 DEF Sound, Clear, Expects, HasTheFloor
<1>7. Announced(v, {FlushLater} \cup rest, st)
  BY DEF Sound, Announced, HasOutput
<1>8. OutputSaved(v, {FlushLater} \cup rest, st)
  <2>1. \A n : Waits(Items(v.parked) \cup rest, n) => Waits(Items(v.parked) \cup ({FlushLater} \cup rest), n)
    BY DEF Waits
  <2> QED BY <2>1 DEF Sound, OutputSaved
<1>9. open => Settled(v, {FlushLater} \cup rest, st)
  BY <1>5 DEF Sound, Settled
<1> QED BY <1>4, <1>6, <1>7, <1>8, <1>9 DEF Sound

\* The first part of a call opens its row.
Placed(w, v, c) ==
    /\ Onward(v, w, {}) /\ w.backlog = v.backlog /\ w.rowOf[c] # Nil
    /\ w.parked = v.parked /\ \A d \in Calls : d # c => w.rowOf[d] = v.rowOf[d]

LEMMA FirstPlaced ==
  ASSUME NEW v, NEW rest \in SUBSET Work, NEW st, Stream(st), NEW open \in BOOLEAN,
         NEW u \in Work, Sound(v, {u} \cup rest, st, open), u.do = "output",
         ~InFlight(v), v.rowOf[u.call] = Nil, v.content = <<>>, v.pending = <<>>,
         \A b \in rest : Before(u, b),
         NEW items \in Seq(Nat), Items(items) \subseteq 0 .. st.clock, u.item \in Items(items),
         Items(items) \cap st.put \subseteq Items(v.kept[u.call]),
         NEW w, w = Place(v, u.call, items)
  PROVE  Sound(w, rest, st, open) /\ Placed(w, v, u.call)
<1> DEFINE c == u.call
           o == Open(v, "tool", c, items, "active")
<1>1. View(v) /\ Wired(v) /\ Timed(v) /\ Due(u, v, st) /\ c \in Calls /\ c \in Heard(st)
  BY DEF Sound, Lined, Due, Heard
<1>2. OneMore(o, v, "tool", c, items, "active")
  BY <1>1, OpenedRows
<1>3. w = [o EXCEPT !.rowOf[c] = v.made + 1, !.unresolved = o.unresolved \cup {c}]
  BY DEF Place
<1> HIDE DEF o
<1> USE DEF Nil
<1>4. /\ w.rows = o.rows /\ w.made = o.made /\ w.tasks = o.tasks /\ w.parked = o.parked
      /\ w.rowOf = [o.rowOf EXCEPT ![c] = v.made + 1] /\ SameProse(w, o)
      /\ w.kept = o.kept /\ w.dropped = o.dropped /\ w.paced = o.paced /\ w.held = o.held
      /\ w.backlog = o.backlog /\ w.revealing = o.revealing
  BY <1>2, <1>3 DEF OneMore, View, SameProse
<1>5. /\ SameProse(w, v) /\ w.tasks = v.tasks /\ w.parked = v.parked /\ w.made = v.made + 1
      /\ w.kept = v.kept /\ w.dropped = v.dropped /\ w.paced = v.paced /\ w.held = v.held
      /\ w.backlog = v.backlog /\ w.revealing = v.revealing
      /\ w.rowOf[c] = w.made /\ \A d \in Calls : d # c => w.rowOf[d] = v.rowOf[d]
  BY <1>1, <1>2, <1>4 DEF OneMore, SameProse, SameTools, View
<1>6. /\ DOMAIN w.rows = DOMAIN v.rows \cup {w.made} /\ w.made \notin DOMAIN v.rows
      /\ \A id \in DOMAIN v.rows : w.rows[id] = v.rows[id] /\ id < w.made
      /\ w.rows[w.made].kind = "tool" /\ w.rows[w.made].call = c
      /\ w.rows[w.made].items = items /\ w.rows[w.made].status = "active"
      /\ w.made \in Nat \ {0}
  BY <1>2, <1>4 DEF OneMore
<1>7. View(w)
  <2>1. View(o) /\ v.made + 1 \in Nat
    BY <1>1, <1>2 DEF OneMore, View
  <2>2. [o.rowOf EXCEPT ![c] = v.made + 1] \in [Calls -> Nat] /\ o.unresolved \cup {c} \subseteq Calls
    BY <1>1, <2>1 DEF View
  <2> QED BY <1>3, <2>1, <2>2 DEF View
<1>8. Queued(w) = {} /\ Queued(v) = {} /\ v.parked = <<>> /\ Items(v.parked) = {}
  BY <1>1, <1>5, ItemsEmpty DEF Queued, InFlight, Timed
<1>9. Wired(w)
  <2>1. v.made \in Nat
    BY <1>1 DEF View
  <2>2. \A x \in 1 .. v.made : x \in 1 .. w.made
    BY <1>5, <2>1
  <2>3. w.made \in 1 .. w.made
    BY <1>6
  <2> QED BY <1>1, <1>5, <1>6, <2>2, <2>3 DEF Wired, SameProse
<1>10. Timed(w)
  BY <1>1, <1>5, <1>8 DEF Timed, InFlight, SameProse
<1>11. Known(w, st)
  BY <1>1, <1>5 DEF Sound, Known, Due
<1>12. Lined(w, rest, st)
  BY <1>5, <1>8 DEF Sound, Lined, Due, HasOutput
<1>13. Clear(w, rest, st)
  <2> SUFFICES ASSUME NEW d \in Calls, Expects(w, rest, st, d) PROVE HasTheFloor(w, rest, d)
    BY DEF Clear
  <2>1. d = c
    <3> SUFFICES ASSUME d # c PROVE FALSE
      OBVIOUS
    <3>1. Expects(v, {u} \cup rest, st, d)
      BY <1>5 DEF Expects, HasOutput
    <3>2. d <= c
      BY <3>1 DEF Sound, Clear, HasTheFloor
    <3>3. c \in Nat /\ d \in Nat /\ st.at \in Nat /\ c <= st.at
      BY <1>1 DEF Calls, Stream, Heard
    <3>4. CASE d = st.at
      BY <3>2, <3>3, <3>4
    <3>5. CASE HasOutput(rest, d)
      BY <3>2, <3>3, <3>5 DEF HasOutput, Before
    <3> QED BY <3>4, <3>5 DEF Expects
  <2>2. Below(w, w.rowOf[d]) = {}
    <3>1. \A id \in DOMAIN w.rows : ~(id > w.made)
      <4>1. \A id \in DOMAIN v.rows : id \in Nat
        BY <1>1, TableHas DEF View
      <4> QED BY <1>6, <4>1
    <3> QED BY <1>5, <2>1, <3>1 DEF Below
  <2>3. \A b \in rest : b.do = "output" => c <= b.call
    BY DEF Before
  <2> QED BY <1>5, <1>8, <2>1, <2>2, <2>3 DEF HasTheFloor, SameProse
<1>14. Announced(w, rest, st)
  <2> SUFFICES ASSUME st.at \in Heard(st), ~Edit(st, st.at), w.rowOf[st.at] = 0
               PROVE  HasOutput(Items(w.parked) \cup rest, st.at)
    BY DEF Announced
  <2>1. st.at # c
    BY <1>5, <1>6
  <2>2. v.rowOf[st.at] = 0
    BY <1>5, <2>1 DEF Heard
  <2> QED BY <1>5, <2>1, <2>2 DEF Sound, Announced, HasOutput
<1>15. Under(w)
  BY <1>8 DEF Under
<1>16. OutputSaved(w, rest, st)
  <2>1. \A d \in Calls : w.rowOf[d] # 0 =>
            Items(w.rows[w.rowOf[d]].items) \cap st.put \subseteq Items(w.kept[d])
    <3> SUFFICES ASSUME NEW d \in Calls, w.rowOf[d] # 0
                 PROVE  Items(w.rows[w.rowOf[d]].items) \cap st.put \subseteq Items(w.kept[d])
      OBVIOUS
    <3>1. CASE d = c
      BY <1>5, <1>6, <3>1
    <3>2. CASE d # c
      <4>1. w.rows[w.rowOf[d]] = v.rows[v.rowOf[d]] /\ w.kept[d] = v.kept[d] /\ v.rowOf[d] # 0
        BY <1>1, <1>5, <1>6, <3>2 DEF Wired
      <4> QED BY <4>1 DEF Sound, OutputSaved
    <3> QED BY <3>1, <3>2
  <2>2. \A n : OnScreen(v, n) => OnScreen(w, n)
    BY <1>6 DEF OnScreen
  <2>3. OnScreen(w, u.item)
    BY <1>6 DEF OnScreen
  <2>4. \A n : InQueue(w, n) <=> InQueue(v, n)
    BY <1>5 DEF InQueue
  <2>5. \A n \in st.put : OnScreen(w, n) \/ InQueue(w, n) \/ Waits(Items(w.parked) \cup rest, n)
    BY <1>5, <2>2, <2>3, <2>4 DEF Sound, OutputSaved, Waits
  <2>6. \A id \in DOMAIN w.rows : \A n \in Items(w.rows[id].items) :
          n \in 0 .. st.clock /\ (n \in st.put => w.rows[id].kind = "tool")
    BY <1>6 DEF Sound, OutputSaved
  <2> QED BY <1>5, <2>1, <2>5, <2>6 DEF Sound, OutputSaved, SameProse
<1>17. open => Settled(w, rest, st)
  <2> SUFFICES ASSUME open, NEW d \in Calls, w.rowOf[d] # 0, w.rows[w.rowOf[d]].status # "active"
               PROVE  /\ d \in Queued(w) => d \in w.held
                      /\ d < st.at
                      /\ Edit(st, d) => ~HasOutput(rest, d)
    BY DEF Settled
  <2>1. d # c
    BY <1>5, <1>6
  <2>2. v.rowOf[d] # 0 /\ v.rows[v.rowOf[d]].status # "active"
    BY <1>1, <1>5, <1>6, <2>1 DEF Wired
  <2> QED BY <1>8, <2>2 DEF Sound, Settled, HasOutput
<1>18. Onward(v, w, {})
  BY <1>5, <1>6 DEF Onward
<1>30. open => Marked(w)
  <2> SUFFICES ASSUME open, NEW id \in DOMAIN w.rows,
                      w.rows[id].kind = "tool", w.rows[id].status # "active"
               PROVE  \E d \in Calls : w.rowOf[d] = id
    BY DEF Marked
  <2>1. id \in DOMAIN v.rows /\ v.rows[id] = w.rows[id]
    BY <1>6
  <2>2. PICK d \in Calls : v.rowOf[d] = id
    BY <2>1 DEF Sound, Marked
  <2>3. d # c
    BY <1>1, <2>1, <2>2 DEF Wired
  <2> QED BY <1>5, <2>2, <2>3
<1> QED BY <1>5, <1>6, <1>7, <1>9, <1>10, <1>11, <1>12, <1>13, <1>14, <1>15, <1>16, <1>17, <1>18, <1>30 DEF Sound, Placed

\* A later part of a call that is not paced revises its row.
Updated(w, v, X) ==
    /\ Onward(v, w, X) /\ w.parked = v.parked /\ w.rowOf = v.rowOf

LEMMA PartShown ==
  ASSUME NEW v, NEW rest \in SUBSET Work, NEW st, Stream(st), NEW open \in BOOLEAN,
         NEW u \in Work, Sound(v, {u} \cup rest, st, open), u.do = "output",
         v.rowOf[u.call] # Nil, NEW w, w = Update(v, u.call, u.item)
  PROVE  Sound(w, rest, st, open) /\ Updated(w, v, {u.call}) /\ w.backlog = v.backlog
<1> DEFINE c == u.call
           kept == Append(v.kept[c], u.item)
           t == WithItems(v.rows, v.rowOf[c], kept)
<1> USE DEF Nil
<1>1. View(v) /\ Wired(v) /\ Timed(v) /\ Due(u, v, st) /\ c \in Calls /\ u.item \in Nat
  BY WorkIs DEF Sound, Lined, Due, Heard
<1>2. kept \in Seq(Nat) /\ Items(kept) = Items(v.kept[c]) \cup {u.item}
  <2>1. v.kept[c] \in Seq(Nat)
    BY <1>1 DEF View
  <2> QED BY <1>1, <2>1, ItemsAppend
<1>3. w = [v EXCEPT !.kept = [v.kept EXCEPT ![c] = kept], !.rows = t]
  BY <1>1 DEF Update, View
<1> HIDE DEF kept
<1>4. /\ t \in Tables /\ DOMAIN t = DOMAIN v.rows
      /\ \A id \in DOMAIN v.rows :
             /\ t[id].kind = v.rows[id].kind /\ t[id].call = v.rows[id].call
             /\ t[id].status = v.rows[id].status
             /\ t[id].items = IF id = v.rowOf[c] THEN kept ELSE v.rows[id].items
  <2>1. v.rows \in Tables
    BY <1>1 DEF View
  <2> QED BY <1>2, <2>1, RepaintedRows
<1> HIDE DEF t
<1>5. /\ w.rows = t /\ w.made = v.made /\ w.tasks = v.tasks /\ w.parked = v.parked
      /\ SameProse(w, v) /\ w.rowOf = v.rowOf /\ w.dropped = v.dropped /\ w.paced = v.paced
      /\ w.held = v.held /\ w.backlog = v.backlog /\ w.revealing = v.revealing
      /\ w.kept = [v.kept EXCEPT ![c] = kept]
  BY <1>1, <1>3 DEF View, SameProse
<1>6. /\ w.kept[c] = kept /\ \A d \in Calls : d # c => w.kept[d] = v.kept[d]
      /\ \A d \in Calls : Items(v.kept[d]) \subseteq Items(w.kept[d])
  BY <1>1, <1>2, <1>5 DEF View
<1>7. View(w)
  <2>1. [v.kept EXCEPT ![c] = kept] \in [Calls -> Seq(Nat)]
    BY <1>1, <1>2 DEF View
  <2> QED BY <1>1, <1>3, <1>4, <2>1 DEF View
<1>8. Wired(w)
  BY <1>1, <1>4, <1>5 DEF Wired, SameProse
<1>9. Queued(w) = Queued(v) /\ \A id : Below(w, id) = Below(v, id)
  BY <1>4, <1>5 DEF Queued, Below
<1>10. Timed(w) /\ Known(w, st)
  BY <1>5, <1>9 DEF Sound, Timed, Known, InFlight, SameProse
<1>11. Lined(w, rest, st)
  BY <1>5 DEF Sound, Lined, Due
<1>12. Clear(w, rest, st)
  <2> SUFFICES ASSUME NEW d \in Calls, Expects(w, rest, st, d) PROVE HasTheFloor(w, rest, d)
    BY DEF Clear
  <2>1. HasTheFloor(v, {u} \cup rest, d)
    BY <1>5 DEF Sound, Clear, Expects, HasOutput
  <2> QED BY <1>5, <1>9, <2>1 DEF HasTheFloor, SameProse
<1>13. Announced(w, rest, st)
  BY <1>5 DEF Sound, Announced, HasOutput
<1>14. Under(w)
  BY <1>4, <1>5, <1>9 DEF Sound, Under, Below
<1>15. OutputSaved(w, rest, st)
  <2>1. \A d \in Calls : w.rowOf[d] # 0 =>
            Items(w.rows[w.rowOf[d]].items) \cap st.put \subseteq Items(w.kept[d])
    <3> SUFFICES ASSUME NEW d \in Calls, w.rowOf[d] # 0
                 PROVE  Items(w.rows[w.rowOf[d]].items) \cap st.put \subseteq Items(w.kept[d])
      OBVIOUS
    <3>1. CASE d = c
      BY <1>1, <1>4, <1>5, <1>6, <3>1 DEF Wired
    <3>2. CASE d # c
      <4>1. v.rowOf[d] # v.rowOf[c] /\ v.rowOf[d] \in DOMAIN v.rows
        BY <1>1, <1>5, <3>2 DEF Wired
      <4> QED BY <1>4, <1>5, <1>6, <3>2, <4>1 DEF Sound, OutputSaved
    <3> QED BY <3>1, <3>2
  <2>2. \A n \in st.put : OnScreen(v, n) => OnScreen(w, n)
    <3> SUFFICES ASSUME NEW n \in st.put, NEW id \in DOMAIN v.rows, n \in Items(v.rows[id].items)
                 PROVE  OnScreen(w, n)
      BY DEF OnScreen
    <3>1. n \in Items(t[id].items)
      <4>1. CASE id = v.rowOf[c]
        <5>1. n \in Items(v.kept[c])
          BY <1>1, <4>1 DEF Sound, OutputSaved
        <5> QED BY <1>2, <1>4, <4>1, <5>1
      <4>2. CASE id # v.rowOf[c]
        BY <1>4, <4>2
      <4> QED BY <4>1, <4>2
    <3> QED BY <1>4, <1>5, <3>1 DEF OnScreen
  <2>3. OnScreen(w, u.item)
    BY <1>1, <1>2, <1>4, <1>5 DEF OnScreen, Wired
  <2>4. \A n : InQueue(w, n) <=> InQueue(v, n)
    BY <1>5 DEF InQueue
  <2>5. \A n \in st.put : OnScreen(w, n) \/ InQueue(w, n) \/ Waits(Items(w.parked) \cup rest, n)
    BY <1>5, <2>2, <2>3, <2>4 DEF Sound, OutputSaved, Waits
  <2>6. Items(kept) \subseteq 0 .. st.clock
    <3>1. u.item \in 0 .. st.clock
      BY <1>1 DEF Due, Stream
    <3> QED BY <1>1, <1>2, <3>1 DEF Sound, OutputSaved
  <2>7. \A id \in DOMAIN w.rows : \A n \in Items(w.rows[id].items) :
          n \in 0 .. st.clock /\ (n \in st.put => w.rows[id].kind = "tool")
    BY <1>1, <1>4, <1>5, <2>6 DEF Sound, OutputSaved, Wired
  <2>8. \A d \in Calls : Items(w.kept[d]) \cup Items(w.backlog[d]) \subseteq 0 .. st.clock
    BY <1>5, <1>6, <2>6 DEF Sound, OutputSaved
  <2> QED BY <1>5, <2>1, <2>5, <2>7, <2>8 DEF Sound, OutputSaved, SameProse
<1>16. open => Settled(w, rest, st)
  BY <1>1, <1>4, <1>5, <1>9 DEF Sound, Settled, HasOutput, Wired
<1>17. Onward(v, w, {c})
  <2>1. \A id \in DOMAIN v.rows : v.rows[id].call # c => id # v.rowOf[c]
    BY <1>1 DEF Wired
  <2> QED BY <1>4, <1>5, <1>6, <2>1 DEF Onward
<1>30. open => Marked(w)
  BY <1>4, <1>5 DEF Sound, Marked
<1> QED BY <1>5, <1>7, <1>8, <1>10, <1>11, <1>12, <1>13, <1>14, <1>15, <1>16, <1>17, <1>30 DEF Sound, Updated

\* A line of an edit joins the queue of its row, which is the last.
Joins(w, v, u) ==
    w = [v EXCEPT !.backlog[u.call] = Append(@, u.item), !.revealing = TRUE]

LEMMA LineQueued ==
  ASSUME NEW v, NEW rest \in SUBSET Work, NEW st, Stream(st), NEW open \in BOOLEAN,
         NEW u \in Work, Sound(v, {u} \cup rest, st, open), u.do = "output",
         v.rowOf[u.call] # Nil, u.call \in v.paced,
         NEW w, Joins(w, v, u)
  PROVE  Sound(w, rest, st, open) /\ Updated(w, v, {})
<1> DEFINE c == u.call
           added == Append(v.backlog[c], u.item)
<1> USE DEF Nil
<1>1. /\ View(v) /\ Wired(v) /\ Timed(v) /\ Due(u, v, st) /\ c \in Calls /\ u.item \in Nat
      /\ v.backlog[c] \in Seq(Nat) /\ c \in Heard(st) /\ Edit(st, c)
  BY WorkIs DEF Sound, Lined, Due, Heard, View
<1>2. added \in Seq(Nat) /\ added # <<>> /\ Items(added) = Items(v.backlog[c]) \cup {u.item}
  BY <1>1, ItemsAppend
<1>3. w = [v EXCEPT !.backlog = [v.backlog EXCEPT ![c] = added], !.revealing = TRUE]
  BY <1>1 DEF View, Joins
<1> HIDE DEF added
<1>4. /\ w.rows = v.rows /\ w.made = v.made /\ w.tasks = v.tasks /\ w.parked = v.parked
      /\ SameProse(w, v) /\ w.rowOf = v.rowOf /\ w.dropped = v.dropped /\ w.paced = v.paced
      /\ w.held = v.held /\ w.kept = v.kept /\ w.revealing
      /\ w.backlog = [v.backlog EXCEPT ![c] = added]
  BY <1>1, <1>3 DEF View, SameProse
<1>5. w.backlog[c] = added /\ \A d \in Calls : d # c => w.backlog[d] = v.backlog[d]
  BY <1>1, <1>4 DEF View
<1>6. View(w)
  <2>1. [v.backlog EXCEPT ![c] = added] \in [Calls -> Seq(Nat)]
    BY <1>1, <1>2 DEF View
  <2> QED BY <1>1, <1>3, <2>1 DEF View
<1>7. Queued(w) = Queued(v) \cup {c} /\ InFlight(w) /\ \A id : Below(w, id) = Below(v, id)
  BY <1>1, <1>2, <1>4, <1>5 DEF Queued, Below, InFlight
<1>8. Wired(w)
  BY <1>1, <1>4 DEF Wired, SameProse
<1>9. Timed(w) /\ Known(w, st)
  BY <1>1, <1>4, <1>6, <1>7 DEF Sound, Timed, Known, View, SameProse
<1>10. Lined(w, rest, st)
  BY <1>4 DEF Sound, Lined, Due
<1>11. Clear(w, rest, st)
  <2> SUFFICES ASSUME NEW d \in Calls, Expects(w, rest, st, d) PROVE HasTheFloor(w, rest, d)
    BY DEF Clear
  <2>1. HasTheFloor(v, {u} \cup rest, d)
    BY <1>4 DEF Sound, Clear, Expects, HasOutput
  <2> QED BY <1>4, <1>7, <2>1 DEF HasTheFloor, SameProse
<1>12. Announced(w, rest, st)
  BY <1>4 DEF Sound, Announced, HasOutput
<1>13. Under(w)
  <2>1. Below(v, v.rowOf[c]) = {}
    <3>1. Expects(v, {u} \cup rest, st, c)
      BY <1>1 DEF Expects, HasOutput
    <3> QED BY <1>1, <3>1 DEF Sound, Clear, HasTheFloor
  <2> QED BY <1>4, <1>7, <2>1 DEF Sound, Under
<1>14. OutputSaved(w, rest, st)
  <2>1. u.item \in 0 .. st.clock
    BY <1>1 DEF Due, Stream
  <2>2. \A n : OnScreen(w, n) <=> OnScreen(v, n)
    BY <1>4 DEF OnScreen
  <2>3. \A n : InQueue(v, n) => InQueue(w, n)
    BY <1>2, <1>5 DEF InQueue
  <2>4. InQueue(w, u.item)
    BY <1>1, <1>2, <1>5 DEF InQueue
  <2>5. \A n \in st.put : OnScreen(w, n) \/ InQueue(w, n) \/ Waits(Items(w.parked) \cup rest, n)
    BY <1>4, <2>2, <2>3, <2>4 DEF Sound, OutputSaved, Waits
  <2>6. ASSUME NEW d \in Calls
        PROVE  Items(w.kept[d]) \cup Items(w.backlog[d]) \subseteq 0 .. st.clock
    <3>1. Items(v.kept[d]) \cup Items(v.backlog[d]) \subseteq 0 .. st.clock
      BY DEF Sound, OutputSaved
    <3>2. Items(w.backlog[d]) \subseteq Items(v.backlog[d]) \cup {u.item}
      BY <1>2, <1>5
    <3> QED BY <1>4, <2>1, <3>1, <3>2
  <2>7. \A d \in Calls :
          w.rowOf[d] # 0 => Items(w.rows[w.rowOf[d]].items) \cap st.put \subseteq Items(w.kept[d])
    BY <1>4 DEF Sound, OutputSaved
  <2>8. /\ st.put \subseteq 0 .. st.clock
        /\ Items(w.content) \cup Items(w.pending) \subseteq (0 .. st.clock) \ st.put
        /\ \A id \in DOMAIN w.rows : \A n \in Items(w.rows[id].items) :
            n \in 0 .. st.clock /\ (n \in st.put => w.rows[id].kind = "tool")
    BY <1>4 DEF Sound, OutputSaved, SameProse
  <2> QED BY <2>5, <2>6, <2>7, <2>8 DEF OutputSaved
<1>15. open => Settled(w, rest, st)
  <2>1. open => v.rows[v.rowOf[c]].status = "active"
    BY <1>1 DEF Sound, Settled, HasOutput
  <2> QED BY <1>4, <1>7, <2>1 DEF Sound, Settled, HasOutput
<1>16. Onward(v, w, {})
  BY <1>4 DEF Onward
<1>30. open => Marked(w)
  BY <1>4 DEF Sound, Marked
<1> QED BY <1>4, <1>6, <1>8, <1>9, <1>10, <1>11, <1>12, <1>13, <1>14, <1>15, <1>16, <1>30 DEF Sound, Updated

\* The outcome of a call is marked, and its row is held while it is queued.
LEMMA OutcomeMarked ==
  ASSUME NEW v, NEW rest \in SUBSET Work, NEW st, NEW open \in BOOLEAN,
         NEW u \in Work, Sound(v, {u} \cup rest, st, open), u.do = "result",
         v.rowOf[u.call] # Nil, \A b \in rest : Before(u, b),
         NEW w, w = Result(v, u.call, u.outcome)
  PROVE  Sound(w, rest, st, open) /\ Updated(w, v, {}) /\ w.backlog = v.backlog
<1> DEFINE c == u.call
           t == WithStatus(v.rows, {v.rowOf[c]}, u.outcome)
           held == IF c \in Queued(v) THEN v.held \cup {c} ELSE v.held
           paced == IF c \in Queued(v) THEN v.paced ELSE v.paced \ {c}
<1> USE DEF Nil
<1>1. /\ View(v) /\ Wired(v) /\ Timed(v) /\ Due(u, v, st) /\ c \in Calls /\ c < st.at
      /\ u.outcome \in {"success", "error"}
  BY WorkIs DEF Sound, Lined, Due, Heard
<1>2. w = [v EXCEPT !.rows = t, !.unresolved = v.unresolved \ {c}, !.held = held]
        \/ w = [v EXCEPT !.rows = t, !.unresolved = v.unresolved \ {c}, !.paced = paced]
  BY <1>1 DEF Result, Holds, View
<1>3. /\ t \in Tables /\ DOMAIN t = DOMAIN v.rows
      /\ \A id \in DOMAIN v.rows :
             /\ t[id].kind = v.rows[id].kind /\ t[id].call = v.rows[id].call
             /\ t[id].items = v.rows[id].items
             /\ t[id].status = IF id \in {v.rowOf[c]} THEN u.outcome ELSE v.rows[id].status
  <2>1. v.rows \in Tables /\ u.outcome \in {"active", "complete", "success", "error", "cancelled"}
    BY <1>1 DEF View
  <2> QED BY <2>1, MarkedRows
<1> HIDE DEF t
<1>4. /\ w.rows = t /\ w.made = v.made /\ w.tasks = v.tasks /\ w.parked = v.parked
      /\ SameProse(w, v) /\ w.rowOf = v.rowOf /\ w.dropped = v.dropped
      /\ w.backlog = v.backlog /\ w.kept = v.kept /\ w.revealing = v.revealing
      /\ w.unresolved = v.unresolved \ {c} /\ w.held = held /\ w.paced = paced
      /\ DOMAIN w = DOMAIN v
  <2>1. CASE c \in Queued(v)
    <3>1. w = [v EXCEPT !.rows = t, !.unresolved = v.unresolved \ {c}, !.held = held]
      BY <1>1, <2>1 DEF Result, Holds, View, t
    <3> QED BY <1>1, <2>1, <3>1 DEF View, SameProse
  <2>2. CASE c \notin Queued(v)
    <3>1. w = [v EXCEPT !.rows = t, !.unresolved = v.unresolved \ {c}, !.paced = paced]
      BY <1>1, <2>2 DEF Result, Holds, View, t
    <3> QED BY <1>1, <2>2, <3>1 DEF View, SameProse
  <2> QED BY <2>1, <2>2
<1>5. Queued(w) = Queued(v) /\ (InFlight(w) <=> InFlight(v)) /\ \A id : Below(w, id) = Below(v, id)
  BY <1>3, <1>4 DEF Queued, Below, InFlight
<1>6. held \subseteq Calls /\ paced \subseteq v.paced /\ v.held \subseteq held
      /\ (c \in Queued(v) => c \in held) /\ held \subseteq Queued(v)
  BY <1>1 DEF View, Timed
<1> HIDE DEF held, paced
<1>7. View(w)
  BY <1>1, <1>3, <1>4, <1>6 DEF View, SameProse
<1>8. Wired(w)
  BY <1>1, <1>3, <1>4 DEF Wired, SameProse
<1>9. Timed(w) /\ Known(w, st)
  BY <1>1, <1>4, <1>5, <1>6 DEF Sound, Timed, Known, InFlight, SameProse
<1>10. Lined(w, rest, st)
  BY <1>4, <1>6 DEF Sound, Lined, Due
<1>11. Clear(w, rest, st)
  <2> SUFFICES ASSUME NEW d \in Calls, Expects(w, rest, st, d) PROVE HasTheFloor(w, rest, d)
    BY DEF Clear
  <2>1. HasTheFloor(v, {u} \cup rest, d)
    BY <1>4 DEF Sound, Clear, Expects, HasOutput
  <2> QED BY <1>4, <1>5, <2>1 DEF HasTheFloor, SameProse
<1>12. Announced(w, rest, st)
  BY <1>4 DEF Sound, Announced, HasOutput
<1>13. Under(w)
  BY <1>3, <1>4, <1>5 DEF Sound, Under, Below
<1>14. OutputSaved(w, rest, st)
  <2>1. \A n : OnScreen(w, n) <=> OnScreen(v, n)
    BY <1>3, <1>4 DEF OnScreen
  <2>2. \A n : InQueue(w, n) <=> InQueue(v, n)
    BY <1>4 DEF InQueue
  <2>3. \A n \in st.put : OnScreen(w, n) \/ InQueue(w, n) \/ Waits(Items(w.parked) \cup rest, n)
    BY <1>4, <2>1, <2>2 DEF Sound, OutputSaved, Waits
  <2>4. \A d \in Calls : w.rowOf[d] # 0 =>
            Items(w.rows[w.rowOf[d]].items) \cap st.put \subseteq Items(w.kept[d])
    BY <1>1, <1>3, <1>4 DEF Sound, OutputSaved, Wired
  <2>5. \A id \in DOMAIN w.rows : \A n \in Items(w.rows[id].items) :
          n \in 0 .. st.clock /\ (n \in st.put => w.rows[id].kind = "tool")
    BY <1>3, <1>4 DEF Sound, OutputSaved
  <2> QED BY <1>4, <2>3, <2>4, <2>5 DEF Sound, OutputSaved, SameProse
<1>15. open => Settled(w, rest, st)
  <2> SUFFICES ASSUME open, NEW d \in Calls, w.rowOf[d] # 0, w.rows[w.rowOf[d]].status # "active"
               PROVE  /\ d \in Queued(w) => d \in w.held
                      /\ d < st.at
                      /\ Edit(st, d) => ~HasOutput(rest, d)
    BY DEF Settled
  <2>1. CASE d = c
    <3>1. ~HasOutput(rest, c)
      BY <1>1 DEF HasOutput, Before, Calls
    <3> QED BY <1>1, <1>4, <1>5, <1>6, <2>1, <3>1
  <2>2. CASE d # c
    <3>1. v.rows[v.rowOf[d]].status # "active" /\ v.rowOf[d] # 0
      BY <1>1, <1>3, <1>4, <2>2 DEF Wired
    <3> QED BY <1>4, <1>5, <1>6, <3>1 DEF Sound, Settled, HasOutput
  <2> QED BY <2>1, <2>2
<1>16. Onward(v, w, {})
  BY <1>3, <1>4 DEF Onward
<1>30. open => Marked(w)
  BY <1>1, <1>3, <1>4 DEF Sound, Marked
<1> QED BY <1>4, <1>7, <1>8, <1>9, <1>10, <1>11, <1>12, <1>13, <1>14, <1>15, <1>16, <1>30 DEF Sound, Updated

\* A part is kept, and an edit is paced, before either shows.
Readies(w, v, c, n, st) ==
    /\ c \in Calls /\ n \in Nat /\ n <= st.clock
    /\ \/ w = [v EXCEPT !.kept[c] = Append(v.kept[c], n)]
       \/ c \in Heard(st) /\ Edit(st, c) /\ w = [v EXCEPT !.paced = @ \cup {c}]
Readied(w, v, c, n) ==
    /\ Onward(v, w, {}) /\ SameProse(w, v)
    /\ w.rows = v.rows /\ w.made = v.made /\ w.tasks = v.tasks /\ w.parked = v.parked
    /\ w.rowOf = v.rowOf /\ w.backlog = v.backlog /\ w.dropped = v.dropped
    /\ \A d \in Calls : w.kept[d] = v.kept[d] \/ (d = c /\ w.kept[d] = Append(v.kept[d], n))

LEMMA KeptOrPaced ==
  ASSUME NEW v, NEW rest \in SUBSET Work, NEW st, NEW open \in BOOLEAN, Sound(v, rest, st, open),
         NEW c, NEW n, NEW w, Readies(w, v, c, n, st)
  PROVE  Sound(w, rest, st, open) /\ Readied(w, v, c, n)
<1>0. /\ c \in Calls /\ n \in Nat /\ n <= st.clock
      /\ \/ w = [v EXCEPT !.kept[c] = Append(v.kept[c], n)]
         \/ c \in Heard(st) /\ Edit(st, c) /\ w = [v EXCEPT !.paced = @ \cup {c}]
  BY DEF Readies
<1>1. View(v) /\ v.kept[c] \in Seq(Nat)
  BY <1>0 DEF Sound, View
<1>2. /\ w.rows = v.rows /\ w.made = v.made /\ w.tasks = v.tasks /\ w.parked = v.parked
      /\ SameProse(w, v) /\ w.rowOf = v.rowOf /\ w.dropped = v.dropped /\ w.held = v.held
      /\ w.backlog = v.backlog /\ w.revealing = v.revealing /\ w.unresolved = v.unresolved
      /\ DOMAIN w = DOMAIN v
  BY <1>0, <1>1 DEF View, SameProse
<1>3. /\ w.kept \in [Calls -> Seq(Nat)]
      /\ \A d \in Calls : w.kept[d] = v.kept[d] \/ (d = c /\ w.kept[d] = Append(v.kept[d], n))
  <2>1. CASE w = [v EXCEPT !.kept[c] = Append(v.kept[c], n)]
    <3>1. Append(v.kept[c], n) \in Seq(Nat)
      BY <1>0, <1>1
    <3> DEFINE s == Append(v.kept[c], n)
    <3>2. w.kept = [v.kept EXCEPT ![c] = s]
      BY <1>0, <1>1, <2>1 DEF View
    <3>3. s \in Seq(Nat) /\ s = Append(v.kept[c], n)
      BY <3>1
    <3> HIDE DEF s
    <3>4. w.kept \in [Calls -> Seq(Nat)] /\ \A d \in Calls : w.kept[d] = IF d = c THEN s ELSE v.kept[d]
      BY <1>0, <1>1, <3>2, <3>3 DEF View
    <3> QED BY <3>3, <3>4
  <2>2. CASE w = [v EXCEPT !.paced = @ \cup {c}]
    <3>1. w.kept = v.kept
      BY <1>0, <1>1, <2>2 DEF View
    <3> QED BY <1>0, <1>1, <3>1 DEF View
  <2> QED BY <1>0, <2>1, <2>2
<1>4. \A d \in Calls : Items(v.kept[d]) \subseteq Items(w.kept[d])
                       /\ Items(w.kept[d]) \subseteq Items(v.kept[d]) \cup {n}
  <2> TAKE d \in Calls
  <2>1. v.kept[d] \in Seq(Nat)
    BY <1>0, <1>1 DEF View
  <2>2. Items(Append(v.kept[d], n)) = Items(v.kept[d]) \cup {n}
    BY <1>0, <2>1, ItemsAppend
  <2> QED BY <1>3, <2>2
<1>5. w.paced = v.paced \/ (w.paced = v.paced \cup {c} /\ c \in Heard(st) /\ Edit(st, c))
  BY <1>0, <1>1 DEF View
<1>6. View(w)
  BY <1>0, <1>1, <1>2, <1>3, <1>5 DEF View, SameProse
<1>7. Wired(w)
  BY <1>2 DEF Sound, Wired, SameProse
<1>8. Queued(w) = Queued(v) /\ \A id : Below(w, id) = Below(v, id)
  BY <1>2 DEF Queued, Below
<1>9. Timed(w) /\ Known(w, st)
  BY <1>2, <1>8 DEF Sound, Timed, Known, InFlight, SameProse
<1>10. Lined(w, rest, st)
  BY <1>2, <1>5 DEF Sound, Lined, Due
<1>11. Clear(w, rest, st)
  <2> SUFFICES ASSUME NEW d \in Calls, Expects(w, rest, st, d) PROVE HasTheFloor(w, rest, d)
    BY DEF Clear
  <2>1. HasTheFloor(v, rest, d)
    BY <1>2 DEF Sound, Clear, Expects
  <2> QED BY <1>2, <1>8, <2>1 DEF HasTheFloor, SameProse
<1>12. Announced(w, rest, st)
  BY <1>2 DEF Sound, Announced
<1>13. Under(w)
  BY <1>2, <1>8 DEF Sound, Under
<1>14. OutputSaved(w, rest, st)
  <2>1. \A x : (OnScreen(w, x) <=> OnScreen(v, x)) /\ (InQueue(w, x) <=> InQueue(v, x))
    BY <1>2 DEF OnScreen, InQueue
  <2>2. n \in 0 .. st.clock
    BY <1>0 DEF Sound
  <2>3. \A d \in Calls :
        /\ Items(w.kept[d]) \cup Items(w.backlog[d]) \subseteq 0 .. st.clock
        /\ w.rowOf[d] # Nil => Items(w.rows[w.rowOf[d]].items) \cap st.put \subseteq Items(w.kept[d])
    BY <1>2, <1>4, <2>2 DEF Sound, OutputSaved
  <2> QED BY <1>2, <2>1, <2>3 DEF Sound, OutputSaved, SameProse
<1>15. open => Settled(w, rest, st)
  BY <1>2, <1>8 DEF Sound, Settled
<1>16. Onward(v, w, {})
  BY <1>2, <1>4 DEF Onward
<1>30. open => Marked(w)
  BY <1>2 DEF Sound, Marked
<1> QED BY <1>2, <1>3, <1>5, <1>6, <1>7, <1>9, <1>10, <1>11, <1>12, <1>13, <1>14, <1>15, <1>16, <1>30 DEF Sound, Readied

-----------------------------------------------------------------------------
(* Lines come out of the queues *)

\* A part of every queue, or all of it, is shown.
Reveals(v, w) ==
    /\ View(w) /\ SameProse(w, v) /\ w.made = v.made /\ w.tasks = v.tasks
    /\ w.rowOf = v.rowOf /\ w.dropped = v.dropped /\ w.rows = Refreshed(v, w.kept)
    /\ \A c \in Calls :
        /\ Items(v.kept[c]) \subseteq Items(w.kept[c])
        /\ Items(w.kept[c]) \cup Items(w.backlog[c]) = Items(v.kept[c]) \cup Items(v.backlog[c])
    /\ Queued(w) \subseteq Queued(v) /\ w.held = v.held \cap Queued(w) /\ w.paced \subseteq v.paced
    /\ w.revealing = InFlight(w)

\* That keeps a view sound.  Once nothing is queued, the parked work is to be done.
LEMMA Revealed ==
  ASSUME NEW v, NEW rest \in SUBSET Work, NEW st, NEW open \in BOOLEAN, Sound(v, rest, st, open),
         NEW w, Reveals(v, w), NEW left,
         \/ w.parked = v.parked /\ left = rest /\ (InFlight(w) \/ ~InFlight(v))
         \/ w.parked = <<>> /\ ~InFlight(w) /\ rest = {} /\ left = Items(v.parked)
  PROVE  Sound(w, left, st, open) /\ Onward(v, w, Queued(v))
<1> USE DEF Nil
<1>1. View(v) /\ Wired(v) /\ Timed(v) /\ View(w)
  BY DEF Sound, Reveals
<1>2. /\ SameProse(w, v) /\ w.made = v.made /\ w.tasks = v.tasks
      /\ w.rowOf = v.rowOf /\ w.dropped = v.dropped /\ w.revealing = InFlight(w)
      /\ Queued(w) \subseteq Queued(v) /\ w.held = v.held \cap Queued(w) /\ w.paced \subseteq v.paced
  BY DEF Reveals
<1>3. \A c \in Calls :
        /\ Items(v.kept[c]) \subseteq Items(w.kept[c])
        /\ Items(w.kept[c]) \cup Items(w.backlog[c]) = Items(v.kept[c]) \cup Items(v.backlog[c])
  BY DEF Reveals
<1>4. /\ DOMAIN w.rows = DOMAIN v.rows
      /\ \A id \in DOMAIN v.rows :
             /\ w.rows[id].kind = v.rows[id].kind /\ w.rows[id].call = v.rows[id].call
             /\ w.rows[id].status = v.rows[id].status
             /\ w.rows[id].items = IF v.rows[id].call \in Queued(v) /\ v.rowOf[v.rows[id].call] = id
                                   THEN w.kept[v.rows[id].call] ELSE v.rows[id].items
  <2>1. w.kept \in [Calls -> Seq(Nat)] /\ w.rows = Refreshed(v, w.kept)
    BY <1>1 DEF View, Reveals
  <2> QED BY <1>1, <2>1, RefreshedRows
<1>5. \A x : HasOutput(Items(w.parked) \cup left, x) <=> HasOutput(Items(v.parked) \cup rest, x)
  BY ItemsEmpty DEF HasOutput
<1>6. /\ Items(w.parked) \cup left = Items(v.parked) \cup rest
      /\ w.parked = v.parked \/ w.parked = <<>>
      /\ w.parked # <<>> => w.parked = v.parked /\ left = rest /\ InFlight(w)
      /\ w.parked = <<>> => Items(w.parked) = {}
  <2>1. Items(w.parked) \cup left = Items(v.parked) \cup rest
    BY ItemsEmpty
  <2>2. w.parked # <<>> => w.parked = v.parked /\ left = rest /\ InFlight(w)
    BY <1>1 DEF Timed
  <2> QED BY <2>1, <2>2, ItemsEmpty
<1>7. \A id : Below(w, id) = Below(v, id)
  BY <1>4 DEF Below
<1>8. Wired(w)
  BY <1>1, <1>2, <1>4 DEF Wired, SameProse
<1>9. Timed(w) /\ Known(w, st)
  <2>1. Timed(w)
    BY <1>1, <1>2, <1>6 DEF Timed, SameProse
  <2>2. Known(w, st)
    BY <1>2 DEF Sound, Known
  <2> QED BY <2>1, <2>2
<1>10. Lined(w, left, st)
  <2>1. \A x \in Items(w.parked) \cup left : Due(x, w, st)
    BY <1>2, <1>6 DEF Sound, Lined, Due
  <2>2. /\ \A j, k \in DOMAIN w.parked : j < k => Before(w.parked[j], w.parked[k])
        /\ \A a \in Items(w.parked), b \in left : Before(a, b)
    <3>1. CASE w.parked = <<>>
      BY <1>6, <3>1
    <3>2. CASE w.parked # <<>>
      <4>1. w.parked = v.parked /\ left = rest
        BY <1>6, <3>2
      <4> QED BY <4>1 DEF Sound, Lined
    <3> QED BY <3>1, <3>2
  <2>3. \A c \in Calls : w.rowOf[c] # 0 /\ Edit(st, c) => ~HasOutput(Items(w.parked), c)
    BY <1>2, <1>6 DEF Sound, Lined, HasOutput
  <2>4. \A c \in w.paced : c \in Heard(st) /\ Edit(st, c)
    BY <1>2 DEF Sound, Lined
  <2> QED BY <2>1, <2>2, <2>3, <2>4 DEF Lined
<1>11. Clear(w, left, st)
  <2> SUFFICES ASSUME NEW c \in Calls, Expects(w, left, st, c) PROVE HasTheFloor(w, left, c)
    BY DEF Clear
  <2>1. CASE left = rest /\ w.parked = v.parked
    <3>1. HasTheFloor(v, rest, c)
      BY <1>2, <2>1 DEF Sound, Clear, Expects
    <3> QED BY <1>2, <1>7, <2>1, <3>1 DEF HasTheFloor, SameProse
  <2>2. CASE w.parked = <<>> /\ rest = {} /\ left = Items(v.parked)
    <3>1. ~HasOutput(left, c)
      BY <1>2, <2>2 DEF Sound, Lined, Expects
    <3>2. Expects(v, {}, st, c)
      BY <1>2, <2>2, <3>1 DEF Expects
    <3>3. HasTheFloor(v, {}, c)
      BY <2>2, <3>2 DEF Sound, Clear
    <3> QED BY <1>2, <1>6, <1>7, <2>2, <3>3 DEF HasTheFloor, SameProse
  <2> QED BY <2>1, <2>2
<1>12. Announced(w, left, st)
  BY <1>2, <1>5 DEF Sound, Announced
<1>13. Under(w)
  <2>1. CASE InFlight(w)
    <3>1. w.parked = v.parked
      BY <2>1
    <3>2. \A c \in Queued(v) : \A r \in Below(v, v.rowOf[c]) :
             r \in DOMAIN v.rows /\ HasOutput(Items(v.parked), v.rows[r].call)
      BY DEF Sound, Under, Below
    <3> QED BY <1>2, <1>4, <1>7, <3>1, <3>2 DEF Under
  <2>2. CASE ~InFlight(w)
    BY <2>2 DEF Under, InFlight
  <2> QED BY <2>1, <2>2
<1>14. OutputSaved(w, left, st)
  <2>1. \A c \in Calls : Items(w.kept[c]) \cup Items(w.backlog[c]) \subseteq 0 .. st.clock
    BY <1>3 DEF Sound, OutputSaved
  <2>2. \A c \in Calls : v.rowOf[c] # 0 =>
          Items(v.rows[v.rowOf[c]].items) \cap st.put \subseteq Items(v.kept[c])
    BY DEF Sound, OutputSaved
  <2>3. \A c \in Calls : w.rowOf[c] # 0 =>
          Items(w.rows[w.rowOf[c]].items) \cap st.put \subseteq Items(w.kept[c])
    <3> SUFFICES ASSUME NEW c \in Calls, w.rowOf[c] # 0
                 PROVE  Items(w.rows[w.rowOf[c]].items) \cap st.put \subseteq Items(w.kept[c])
      OBVIOUS
    <3>1. w.rowOf[c] = v.rowOf[c] /\ v.rowOf[c] \in DOMAIN v.rows /\ v.rows[v.rowOf[c]].call = c
      BY <1>1, <1>2 DEF Wired
    <3>2. w.rows[w.rowOf[c]].items = w.kept[c] \/ w.rows[w.rowOf[c]].items = v.rows[v.rowOf[c]].items
      BY <1>4, <3>1
    <3> QED BY <1>3, <2>2, <3>1, <3>2
  <2>4. ASSUME NEW id \in DOMAIN w.rows, NEW n \in Items(w.rows[id].items)
        PROVE  n \in 0 .. st.clock /\ (n \in st.put => w.rows[id].kind = "tool")
    <3>1. CASE v.rows[id].call \in Queued(v) /\ v.rowOf[v.rows[id].call] = id
      <4>1. v.rows[id].call \in Calls /\ w.rows[id].items = w.kept[v.rows[id].call]
        BY <1>4, <3>1 DEF Queued
      <4>2. v.rowOf[v.rows[id].call] # 0
        BY <1>1, <3>1 DEF Timed
      <4>3. v.rows[id].kind = "tool"
        BY <1>1, <3>1, <4>1, <4>2 DEF Wired
      <4> QED BY <1>4, <2>1, <4>1, <4>3
    <3>2. CASE ~(v.rows[id].call \in Queued(v) /\ v.rowOf[v.rows[id].call] = id)
      <4>1. w.rows[id].items = v.rows[id].items /\ w.rows[id].kind = v.rows[id].kind
            /\ id \in DOMAIN v.rows
        BY <1>4, <3>2
      <4> QED BY <4>1 DEF Sound, OutputSaved
    <3> QED BY <3>1, <3>2
  <2>5. ASSUME NEW n \in st.put, OnScreen(v, n)
        PROVE  OnScreen(w, n)
    <3>1. PICK id \in DOMAIN v.rows : n \in Items(v.rows[id].items)
      BY <2>5 DEF OnScreen
    <3>2. CASE v.rows[id].call \in Queued(v) /\ v.rowOf[v.rows[id].call] = id
      <4>1. v.rows[id].call \in Calls /\ w.rows[id].items = w.kept[v.rows[id].call]
        BY <1>4, <3>2 DEF Queued
      <4>2. v.rowOf[v.rows[id].call] # 0
        BY <1>1, <3>2 DEF Timed
      <4>3. n \in Items(v.kept[v.rows[id].call])
        BY <2>2, <3>1, <3>2, <4>1, <4>2
      <4> QED BY <1>3, <1>4, <4>1, <4>3 DEF OnScreen
    <3>3. CASE ~(v.rows[id].call \in Queued(v) /\ v.rowOf[v.rows[id].call] = id)
      BY <1>4, <3>1, <3>3 DEF OnScreen
    <3> QED BY <3>2, <3>3
  <2>6. ASSUME NEW n, InQueue(v, n)
        PROVE  OnScreen(w, n) \/ InQueue(w, n)
    <3>1. PICK c \in Calls : n \in Items(v.backlog[c])
      BY <2>6 DEF InQueue
    <3>2. c \in Queued(v)
      BY <3>1, ItemsEmpty DEF Queued
    <3>3. v.rowOf[c] \in DOMAIN v.rows /\ v.rows[v.rowOf[c]].call = c
      BY <1>1, <3>2 DEF Timed, Wired
    <3>4. w.rows[v.rowOf[c]].items = w.kept[c]
      BY <1>4, <3>2, <3>3
    <3>5. n \in Items(w.kept[c]) \cup Items(w.backlog[c])
      BY <1>3, <3>1
    <3> QED BY <1>4, <3>3, <3>4, <3>5 DEF OnScreen, InQueue
  <2>7. \A n \in st.put : OnScreen(w, n) \/ InQueue(w, n) \/ Waits(Items(w.parked) \cup left, n)
    <3>1. \A n \in st.put : OnScreen(v, n) \/ InQueue(v, n) \/ Waits(Items(v.parked) \cup rest, n)
      BY DEF Sound, OutputSaved
    <3> QED BY <1>6, <2>5, <2>6, <3>1
  <2>8. /\ st.put \subseteq 0 .. st.clock
        /\ Items(w.content) \cup Items(w.pending) \subseteq (0 .. st.clock) \ st.put
    BY <1>2 DEF Sound, OutputSaved, SameProse
  <2> QED BY <2>1, <2>3, <2>4, <2>7, <2>8 DEF OutputSaved
<1>15. open => Settled(w, left, st)
  <2> SUFFICES ASSUME open, NEW c \in Calls, w.rowOf[c] # 0, w.rows[w.rowOf[c]].status # "active"
               PROVE  /\ c \in Queued(w) => c \in w.held
                      /\ c < st.at
                      /\ Edit(st, c) => ~HasOutput(left, c)
    BY DEF Settled
  <2>1. v.rowOf[c] # 0 /\ v.rows[v.rowOf[c]].status # "active"
    BY <1>1, <1>2, <1>4 DEF Wired
  <2>2. /\ c \in Queued(v) => c \in v.held
        /\ c < st.at
        /\ Edit(st, c) => ~HasOutput(rest, c)
    BY <2>1 DEF Sound, Settled
  <2>3. Edit(st, c) => ~HasOutput(left, c)
    BY <2>1, <2>2 DEF Sound, Lined
  <2> QED BY <1>2, <2>2, <2>3
<1>16. open => Marked(w)
  BY <1>2, <1>4 DEF Sound, Marked
<1>17. Onward(v, w, Queued(v))
  BY <1>3, <1>4 DEF Onward
<1> QED BY <1>1, <1>8, <1>9, <1>10, <1>11, <1>12, <1>13, <1>14, <1>15, <1>16, <1>17 DEF Sound

\* RevealAll shows all of it.
LEMMA AllRevealed ==
  ASSUME NEW v, View(v), Timed(v),
         NEW w, w = RevealAll(v) \/ w = [RevealAll(v) EXCEPT !.parked = <<>>]
  PROVE  /\ Reveals(v, w) /\ Queued(w) = {}
         /\ w = RevealAll(v) => w.parked = v.parked
         /\ w = [RevealAll(v) EXCEPT !.parked = <<>>] => w.parked = <<>>
<1> DEFINE kept == [c \in Calls |-> v.kept[c] \o v.backlog[c]]
           none == [c \in Calls |-> <<>>]
           r == [v EXCEPT !.kept = kept, !.rows = Refreshed(v, kept), !.backlog = none,
                          !.revealing = FALSE, !.paced = v.paced \ v.held, !.held = {}]
<1>1. r = RevealAll(v)
  BY DEF RevealAll
<1>2. \A c \in Calls : v.kept[c] \in Seq(Nat) /\ v.backlog[c] \in Seq(Nat)
  BY DEF View
<1>3. kept \in [Calls -> Seq(Nat)] /\ \A c \in Calls : kept[c] = v.kept[c] \o v.backlog[c]
  <2>1. \A c \in Calls : v.kept[c] \o v.backlog[c] \in Seq(Nat)
    BY <1>2, ConcatProperties
  <2> QED BY <2>1
<1>4. none \in [Calls -> Seq(Nat)] /\ \A c \in Calls : none[c] = <<>>
  OBVIOUS
<1>5. \A c \in Calls : Items(kept[c]) = Items(v.kept[c]) \cup Items(v.backlog[c])
  BY <1>2, <1>3, ItemsConcat
<1>6. Refreshed(v, kept) \in Tables
  BY <1>3, RefreshedRows
<1> HIDE DEF kept, none
<1>7. \/ w = r
      \/ w = [r EXCEPT !.parked = <<>>]
  BY <1>1
<1>8. /\ w.rows = Refreshed(v, kept) /\ w.kept = kept /\ w.backlog = none /\ w.revealing = FALSE
      /\ w.paced = v.paced \ v.held /\ w.held = {} /\ w.made = v.made /\ w.tasks = v.tasks
      /\ w.rowOf = v.rowOf /\ w.dropped = v.dropped /\ w.unresolved = v.unresolved
      /\ SameProse(w, v) /\ DOMAIN w = DOMAIN v
  <2>1. CASE w = r
    BY <2>1 DEF View, SameProse
  <2>2. CASE w = [r EXCEPT !.parked = <<>>]
    BY <2>2 DEF View, SameProse
  <2> QED BY <1>7, <2>1, <2>2
<1>9. /\ w = RevealAll(v) => w.parked = v.parked
      /\ w = [RevealAll(v) EXCEPT !.parked = <<>>] => w.parked = <<>>
  <2>1. w = r => w.parked = v.parked
    BY DEF View
  <2>2. w = [r EXCEPT !.parked = <<>>] => w.parked = <<>>
    BY DEF View
  <2> QED BY <1>1, <2>1, <2>2
<1>10. w.parked \in Seq(Work)
  <2>1. <<>> \in Seq(Work) /\ v.parked \in Seq(Work)
    BY EmptySeq DEF View
  <2> QED BY <1>7, <1>1, <1>9, <2>1
<1>11. View(w)
  BY <1>3, <1>4, <1>6, <1>8, <1>10 DEF View, SameProse
<1>12. Queued(w) = {}
  BY <1>4, <1>8 DEF Queued
<1>13. \A c \in Calls :
        /\ Items(v.kept[c]) \subseteq Items(w.kept[c])
        /\ Items(w.kept[c]) \cup Items(w.backlog[c]) = Items(v.kept[c]) \cup Items(v.backlog[c])
  BY <1>4, <1>5, <1>8, ItemsEmpty
<1>14. w.revealing = InFlight(w)
  BY <1>8, <1>12 DEF InFlight
<1> QED BY <1>8, <1>9, <1>11, <1>12, <1>13, <1>14 DEF Reveals

\* Where nothing is queued it changes nothing.
LEMMA NothingToReveal ==
  ASSUME NEW v, View(v), Timed(v), ~InFlight(v), NEW w, w = RevealAll(v)
  PROVE  /\ View(w) /\ SameProse(w, v) /\ SameTools(w, v)
         /\ w.rows = v.rows /\ w.made = v.made /\ w.tasks = v.tasks /\ w.parked = v.parked
<1> DEFINE kept == [c \in Calls |-> v.kept[c] \o v.backlog[c]]
           none == [c \in Calls |-> <<>>]
<1>1. Queued(v) = {} /\ v.held = {} /\ v.revealing = FALSE
  BY DEF InFlight, Timed
<1>2. \A c \in Calls : v.backlog[c] = <<>> /\ v.kept[c] \in Seq(Nat)
  BY <1>1 DEF Queued, View
<1>3. \A c \in Calls : v.kept[c] \o v.backlog[c] = v.kept[c]
  BY <1>2, ConcatEmptySeq
<1>4. kept = v.kept /\ none = v.backlog
  BY <1>2, <1>3 DEF View
<1>5. Refreshed(v, kept) = v.rows
  BY <1>1 DEF Refreshed, View, Tables
<1> HIDE DEF kept, none
<1>6. w = [v EXCEPT !.kept = kept, !.rows = Refreshed(v, kept), !.backlog = none,
                    !.revealing = FALSE, !.paced = v.paced \ v.held, !.held = {}]
  BY DEF RevealAll, kept, none
<1>7. /\ w.rows = v.rows /\ w.kept = v.kept /\ w.backlog = v.backlog
      /\ w.revealing = v.revealing /\ w.paced = v.paced /\ w.held = v.held
      /\ w.made = v.made /\ w.tasks = v.tasks /\ w.parked = v.parked
      /\ w.rowOf = v.rowOf /\ w.dropped = v.dropped /\ w.unresolved = v.unresolved
      /\ SameProse(w, v) /\ DOMAIN w = DOMAIN v
  <2>1. /\ w.rows = Refreshed(v, kept) /\ w.kept = kept /\ w.backlog = none
        /\ w.revealing = FALSE /\ w.paced = v.paced \ v.held /\ w.held = {}
        /\ w.made = v.made /\ w.tasks = v.tasks /\ w.parked = v.parked
        /\ w.rowOf = v.rowOf /\ w.dropped = v.dropped /\ w.unresolved = v.unresolved
        /\ SameProse(w, v) /\ DOMAIN w = DOMAIN v
    BY <1>6 DEF View, SameProse
  <2>2. v.paced \ v.held = v.paced
    BY <1>1
  <2> QED BY <1>1, <1>4, <1>5, <2>1, <2>2
<1>8. View(w)
  BY <1>7 DEF View, SameProse
<1> QED BY <1>7, <1>8 DEF SameTools

\* Shifted shows a part of every queue.
LEMMA PartsRevealed ==
  ASSUME NEW v, View(v), Timed(v),
         NEW w, \/ w = [Shifted(v) EXCEPT !.revealing = TRUE] /\ InFlight(Shifted(v))
                \/ w = [Shifted(v) EXCEPT !.parked = <<>>] /\ ~InFlight(Shifted(v))
  PROVE  /\ Reveals(v, w) /\ (InFlight(w) <=> InFlight(Shifted(v)))
         /\ Shifted(v).parked = v.parked
         /\ InFlight(w) => w.parked = v.parked
         /\ ~InFlight(w) => w.parked = <<>>
<1> DEFINE kept == [c \in Calls |-> IF c \in Queued(v) THEN Append(v.kept[c], Head(v.backlog[c]))
                                                       ELSE v.kept[c]]
           out == {c \in Queued(v) : Len(v.backlog[c]) = 1}
           tails == [c \in Calls |-> IF c \in Queued(v) THEN Tail(v.backlog[c]) ELSE <<>>]
           s == [v EXCEPT !.kept = kept, !.rows = Refreshed(v, kept), !.revealing = FALSE,
                          !.backlog = tails, !.paced = v.paced \ out, !.held = v.held \ out]
<1>1. s = Shifted(v)
  BY DEF Shifted, View
<1>2. \A c \in Calls : v.kept[c] \in Seq(Nat) /\ v.backlog[c] \in Seq(Nat)
  BY DEF View
<1>3. \A c \in Queued(v) :
        /\ c \in Calls /\ Head(v.backlog[c]) \in Nat /\ Tail(v.backlog[c]) \in Seq(Nat)
        /\ Items(v.backlog[c]) = {Head(v.backlog[c])} \cup Items(Tail(v.backlog[c]))
        /\ Items(Append(v.kept[c], Head(v.backlog[c]))) = Items(v.kept[c]) \cup {Head(v.backlog[c])}
        /\ Append(v.kept[c], Head(v.backlog[c])) \in Seq(Nat)
        /\ Tail(v.backlog[c]) = <<>> <=> Len(v.backlog[c]) = 1
  <2> TAKE c \in Queued(v)
  <2>1. c \in Calls /\ v.backlog[c] # <<>> /\ v.kept[c] \in Seq(Nat) /\ v.backlog[c] \in Seq(Nat)
    BY <1>2 DEF Queued
  <2>2. /\ Head(v.backlog[c]) \in Nat /\ Tail(v.backlog[c]) \in Seq(Nat)
        /\ Items(v.backlog[c]) = {Head(v.backlog[c])} \cup Items(Tail(v.backlog[c]))
    BY <2>1, ItemsHeadTail
  <2>3. Items(Append(v.kept[c], Head(v.backlog[c]))) = Items(v.kept[c]) \cup {Head(v.backlog[c])}
    BY <2>1, <2>2, ItemsAppend
  <2>4. Append(v.kept[c], Head(v.backlog[c])) \in Seq(Nat)
    BY <2>1, <2>2
  <2>5. Tail(v.backlog[c]) = <<>> <=> Len(v.backlog[c]) = 1
    <3>1. Len(Tail(v.backlog[c])) = Len(v.backlog[c]) - 1 /\ Len(v.backlog[c]) \in Nat
      BY <2>1, EmptySeq
    <3>2. Tail(v.backlog[c]) = <<>> <=> Len(Tail(v.backlog[c])) = 0
      BY <2>2, EmptySeq
    <3> QED BY <3>1, <3>2
  <2> QED BY <2>1, <2>2, <2>3, <2>4, <2>5
<1>4. kept \in [Calls -> Seq(Nat)] /\ tails \in [Calls -> Seq(Nat)]
  BY <1>2, <1>3
<1>5. \A c \in Calls :
        /\ Items(v.kept[c]) \subseteq Items(kept[c])
        /\ Items(kept[c]) \cup Items(tails[c]) = Items(v.kept[c]) \cup Items(v.backlog[c])
        /\ tails[c] # <<>> <=> c \in Queued(v) \ out
  <2> TAKE c \in Calls
  <2>1. CASE c \in Queued(v)
    <3>1. kept[c] = Append(v.kept[c], Head(v.backlog[c])) /\ tails[c] = Tail(v.backlog[c])
      BY <2>1
    <3>2. tails[c] # <<>> <=> c \in Queued(v) \ out
      BY <1>3, <2>1, <3>1
    <3> HIDE DEF kept, tails, out
    <3> QED BY <1>3, <2>1, <3>1, <3>2
  <2>2. CASE c \notin Queued(v)
    <3>1. kept[c] = v.kept[c] /\ tails[c] = <<>> /\ v.backlog[c] = <<>>
      BY <2>2 DEF Queued
    <3> HIDE DEF kept, tails, out
    <3> QED BY <2>2, <3>1
  <2> QED BY <2>1, <2>2
<1>6. Refreshed(v, kept) \in Tables
  BY <1>4, RefreshedRows
<1>7. out \subseteq Queued(v)
  OBVIOUS
<1> HIDE DEF kept, tails, out
<1>8. /\ w.rows = Refreshed(v, kept) /\ w.kept = kept /\ w.backlog = tails
      /\ w.paced = v.paced \ out /\ w.held = v.held \ out /\ w.made = v.made /\ w.tasks = v.tasks
      /\ w.rowOf = v.rowOf /\ w.dropped = v.dropped /\ w.unresolved = v.unresolved
      /\ SameProse(w, v) /\ DOMAIN w = DOMAIN v
      /\ \/ w.revealing = TRUE /\ InFlight(s) /\ w.parked = v.parked
         \/ w.revealing = FALSE /\ ~InFlight(s) /\ w.parked = <<>>
  <2>1. CASE w = [s EXCEPT !.revealing = TRUE] /\ InFlight(s)
    BY <2>1 DEF View, SameProse
  <2>2. CASE w = [s EXCEPT !.parked = <<>>] /\ ~InFlight(s)
    BY <2>2 DEF View, SameProse
  <2> QED BY <1>1, <2>1, <2>2
<1>9. s.backlog = tails /\ s.parked = v.parked
  BY DEF View
<1>10. Queued(w) = Queued(s) /\ Queued(s) = Queued(v) \ out
  <2>1. Queued(w) = Queued(s)
    BY <1>8, <1>9 DEF Queued
  <2>2. Queued(s) = Queued(v) \ out
    <3>1. \A c \in Calls : c \in Queued(s) <=> tails[c] # <<>>
      BY <1>9 DEF Queued
    <3> HIDE DEF s
    <3>2. Queued(s) \subseteq Calls /\ Queued(v) \subseteq Calls
      BY DEF Queued
    <3> QED BY <1>5, <3>1, <3>2
  <2> QED BY <2>1, <2>2
<1> HIDE DEF s
<1>11. View(w)
  <2>1. w.parked \in Seq(Work) /\ w.revealing \in BOOLEAN
    BY <1>8, EmptySeq DEF View
  <2> QED BY <1>4, <1>6, <1>8, <2>1 DEF View, SameProse
<1>12. w.held = v.held \cap Queued(w)
  BY <1>8, <1>10 DEF Timed
<1>13. w.revealing = InFlight(w) /\ (InFlight(w) <=> InFlight(s))
  BY <1>8, <1>10 DEF InFlight
<1>14. Reveals(v, w)
  BY <1>5, <1>8, <1>10, <1>11, <1>12, <1>13 DEF Reveals
<1> QED BY <1>1, <1>8, <1>9, <1>13, <1>14

-----------------------------------------------------------------------------
(* Handlers and parked work *)

LEMMA IdleReveal ==
  ASSUME NEW v, NEW rest \in SUBSET Work, NEW st, NEW open \in BOOLEAN, Sound(v, rest, st, open),
         ~InFlight(v), NEW w, w = RevealAll(v)
  PROVE  /\ Sound(w, rest, st, open) /\ SameProse(w, v) /\ SameTools(w, v)
         /\ w.rows = v.rows /\ w.made = v.made /\ w.tasks = v.tasks /\ w.parked = v.parked
         /\ ~InFlight(w)
<1>1. View(v) /\ Timed(v)
  BY DEF Sound
<1>2. /\ SameProse(w, v) /\ SameTools(w, v)
      /\ w.rows = v.rows /\ w.made = v.made /\ w.tasks = v.tasks /\ w.parked = v.parked
  BY <1>1, NothingToReveal
<1>3. Reveals(v, w)
  BY <1>1, AllRevealed
<1>4. ~InFlight(w)
  BY <1>2 DEF InFlight, Queued, SameTools
<1>5. Sound(w, rest, st, open)
  BY <1>2, <1>3, Revealed
<1> QED BY <1>2, <1>4, <1>5

\* Of the tools nothing changes, and nothing is parked but a flush.
Kin(w, v) ==
    /\ SameTools(w, v) /\ w.tasks = v.tasks
    /\ w.parked = v.parked \/ w.parked = Append(v.parked, FlushLater)

LEMMA FlushSound ==
  ASSUME NEW v, NEW rest \in SUBSET Work, NEW st, Stream(st), NEW open \in BOOLEAN,
         Sound(v, rest, st, open), NEW w, w = Flush(v)
  PROVE  /\ Sound(w, rest, st, open) /\ Onward(v, w, {}) /\ Kin(w, v)
         /\ w.content = v.content /\ w.pending = v.pending
<1> USE DEF Nil
<1>1. /\ View(v) /\ Wired(v) /\ Timed(v) /\ v.content \in Seq(Nat) /\ v.rows \in Tables
      /\ Items(v.content) \subseteq (0 .. st.clock) \ st.put
  BY DEF Sound, View, OutputSaved
<1>2. CASE v.content = <<>>
  <2>1. w = v
    BY <1>2 DEF Flush
  <2> QED BY <2>1 DEF Onward, Kin, SameTools
<1>3. CASE v.content # <<>> /\ v.active # 0
  <2> DEFINE t == WithItems(v.rows, v.active, v.content)
  <2>1. w = [v EXCEPT !.rows = t]
    BY <1>3 DEF Flush
  <2>2. /\ t \in Tables /\ DOMAIN t = DOMAIN v.rows
        /\ \A id \in DOMAIN v.rows :
             /\ t[id].kind = v.rows[id].kind /\ t[id].call = v.rows[id].call
             /\ t[id].status = v.rows[id].status
             /\ t[id].items = IF id = v.active THEN v.content ELSE v.rows[id].items
    BY <1>1, RepaintedRows
  <2> HIDE DEF t
  <2>3. v.rows[v.active].kind = "prose"
    BY <1>1, <1>3 DEF Wired
  <2>4. Repaints(t, v, st, open)
    BY <1>1, <2>2, <2>3 DEF Repaints
  <2>5. Sound(w, rest, st, open) /\ Repainted(w, v, t)
    BY <2>1, <2>4, Redrawn
  <2> QED BY <2>5 DEF Repainted, Kin, SameProse
<1>4. CASE v.content # <<>> /\ v.active = 0 /\ InFlight(v)
  <2>1. w = Park(v, FlushLater)
    BY <1>4 DEF Flush
  <2>2. FlushLater \in Work /\ FlushLater.do = "flush"
    BY WorkTypes
  <2>3. \A b \in rest : Before(FlushLater, b)
    BY <2>2 DEF Before
  <2>4. Sound(v, {FlushLater} \cup rest, st, open)
    BY FlushFirst
  <2>5. Sound(w, rest, st, open) /\ Parks(w, v, FlushLater)
    BY <1>4, <2>1, <2>2, <2>3, <2>4, WorkParked
  <2> QED BY <2>5 DEF Parks, Kin, SameProse
<1>5. CASE v.content # <<>> /\ v.active = 0 /\ ~InFlight(v)
  <2> DEFINE d == RevealAll(v)
             o == Open(d, "prose", Nil, d.content, "active")
  <2>1. w = [o EXCEPT !.active = d.made + 1]
    BY <1>5 DEF Flush
  <2>2. /\ Sound(d, rest, st, open) /\ SameProse(d, v) /\ SameTools(d, v) /\ ~InFlight(d)
        /\ d.rows = v.rows /\ d.made = v.made /\ d.tasks = v.tasks /\ d.parked = v.parked
    BY <1>5, IdleReveal
  <2> HIDE DEF d
  <2>3. d.content = v.content
    BY <2>2 DEF SameProse
  <2>4. Sound(o, rest, st, open) /\ Added(o, d, "prose")
    BY <1>1, <1>5, <2>2, <2>3, Opened
  <2> HIDE DEF o
  <2>5. /\ SameProse(o, d) /\ SameTools(o, d) /\ o.tasks = d.tasks /\ o.parked = d.parked
        /\ Onward(d, o, {}) /\ o.made = d.made + 1 /\ o.made \in Nat /\ o.made # 0
        /\ o.made \in DOMAIN o.rows /\ o.rows[o.made].kind = "prose" /\ View(o) /\ Wired(o)
    BY <2>4 DEF Added, Sound
  <2>6. /\ SameTools(w, o) /\ w.rows = o.rows /\ w.tasks = o.tasks /\ w.content = o.content
        /\ w.made = o.made /\ w.active = o.made
        /\ w.pending = o.pending /\ w.parked = o.parked /\ w.ticking = o.ticking /\ View(w)
    BY <2>1, <2>5 DEF View, SameTools
  <2>7. Sound(w, rest, st, open)
    <3>1. Wired(w)
      BY <2>5, <2>6 DEF Wired, SameTools
    <3>2. Points(w, o)
      BY <2>6, <3>1 DEF Points
    <3> QED BY <2>4, <3>2, Pointed
  <2>8. SameTools(w, v)
    BY <2>2, <2>5, <2>6 DEF SameTools
  <2>9. Onward(v, w, {})
    BY <2>2, <2>5, <2>6 DEF Onward, SameTools
  <2> QED BY <2>2, <2>5, <2>6, <2>7, <2>8, <2>9 DEF Kin, SameProse
<1> QED BY <1>2, <1>3, <1>4, <1>5

\* drainBacklog
LEMMA BacklogSound ==
  ASSUME NEW v, NEW rest \in SUBSET Work, NEW st, NEW open \in BOOLEAN,
         Sound(v, rest, st, open), NEW b, b = DrainBacklog(v)
  PROVE  /\ Sound(b, rest, st, open) /\ SameTools(b, v) /\ b.pending = <<>>
         /\ b.rows = v.rows /\ b.tasks = v.tasks /\ b.parked = v.parked
<1> DEFINE s == v.content \o v.pending
<1>1. v.content \in Seq(Nat) /\ v.pending \in Seq(Nat) /\ View(v)
  BY DEF Sound, View
<1>2. s \in Seq(Nat) /\ Items(s) = Items(v.content) \cup Items(v.pending)
  BY <1>1, ConcatProperties, ItemsConcat
<1>3. <<>> \in Seq(Nat) /\ <<>> \o <<>> = <<>>
  BY EmptySeq, ConcatEmptySeq
<1>4. (\E c \in Calls : Expects(v, rest, st, c)) => s = <<>>
  BY <1>3 DEF Sound, Clear, HasTheFloor
<1>5. b = [v EXCEPT !.content = s, !.pending = <<>>, !.ticking = FALSE]
  BY DEF DrainBacklog
<1> HIDE DEF s
<1>6. /\ View(b) /\ SameTools(b, v) /\ b.rows = v.rows /\ b.made = v.made /\ b.active = v.active
      /\ b.tasks = v.tasks /\ b.parked = v.parked /\ b.content = s /\ b.pending = <<>>
  BY <1>1, <1>2, <1>3, <1>5 DEF View, SameTools
<1>7. ProseMoves(b, v, st)
  BY <1>2, <1>6, ItemsEmpty DEF ProseMoves, Sound, OutputSaved
<1> QED BY <1>4, <1>6, <1>7, ProseMoved

LEMMA SealSound ==
  ASSUME NEW v, NEW rest \in SUBSET Work, NEW st, Stream(st), NEW open \in BOOLEAN,
         Sound(v, rest, st, open), NEW w, w = Seal(v)
  PROVE  /\ Sound(w, rest, st, open) /\ Onward(v, w, {}) /\ Kin(w, v)
         /\ w.content = <<>> /\ w.pending = <<>> /\ w.active = Nil
<1> DEFINE b == DrainBacklog(v)
           f == Flush(b)
           t == WithStatus(f.rows, {f.active}, "complete")
           p == [f EXCEPT !.rows = t]
           q == [p EXCEPT !.active = Nil]
<1>1. /\ Sound(b, rest, st, open) /\ SameTools(b, v) /\ b.pending = <<>>
      /\ b.rows = v.rows /\ b.tasks = v.tasks /\ b.parked = v.parked
  BY BacklogSound
<1> HIDE DEF b
<1>2. /\ Sound(f, rest, st, open) /\ Onward(b, f, {}) /\ Kin(f, b) /\ f.pending = b.pending
  BY <1>1, FlushSound
<1> HIDE DEF f
<1>3. Sound(p, rest, st, open) /\ Repainted(p, f, t)
  <2>1. f.rows \in Tables /\ Wired(f)
    BY <1>2 DEF Sound, View
  <2>2. /\ t \in Tables /\ DOMAIN t = DOMAIN f.rows
        /\ \A id \in DOMAIN f.rows :
             /\ t[id].kind = f.rows[id].kind /\ t[id].call = f.rows[id].call
             /\ t[id].items = f.rows[id].items
             /\ t[id].status = IF id \in {f.active} THEN "complete" ELSE f.rows[id].status
    BY <2>1, MarkedRows
  <2> HIDE DEF t
  <2>3. f.active = 0 => f.active \notin DOMAIN f.rows
    BY <2>1 DEF Wired
  <2>4. Repaints(t, f, st, open)
    BY <2>1, <2>2, <2>3 DEF Repaints, Wired, Nil
  <2> QED BY <1>2, <2>4, Redrawn
<1> HIDE DEF t, p
<1>4. /\ SameProse(p, f) /\ SameTools(p, f) /\ p.tasks = f.tasks /\ p.parked = f.parked
      /\ Onward(f, p, {}) /\ View(p) /\ Wired(p)
  BY <1>3 DEF Repainted, Sound
<1>5. /\ SameTools(q, p) /\ q.rows = p.rows /\ q.active = Nil /\ q.tasks = p.tasks
      /\ q.content = p.content /\ q.pending = p.pending /\ q.ticking = p.ticking
      /\ q.parked = p.parked /\ q.made = p.made /\ View(q)
  BY <1>4 DEF View, SameTools, Nil
<1>6. Sound(q, rest, st, open)
  <2>1. Wired(q)
    BY <1>4, <1>5 DEF Wired, SameTools
  <2>2. Points(q, p)
    BY <1>5, <2>1 DEF Points
  <2> QED BY <1>3, <2>2, Pointed
<1>7. w = [q EXCEPT !.content = <<>>]
  BY <1>2 DEF Seal, p, q, t, f, b
<1> HIDE DEF q
<1>8. q.pending = <<>>
  BY <1>1, <1>2, <1>4, <1>5 DEF SameProse
<1>9. /\ SameTools(w, q) /\ w.rows = q.rows /\ w.active = q.active /\ w.tasks = q.tasks
      /\ w.content = <<>> /\ w.pending = <<>> /\ w.parked = q.parked /\ w.made = q.made /\ View(w)
  BY <1>5, <1>7, <1>8, EmptySeq DEF View, SameTools
<1>10. Sound(w, rest, st, open)
  <2>1. ProseMoves(w, q, st)
    BY <1>9, ItemsEmpty DEF ProseMoves
  <2> QED BY <1>6, <1>9, <2>1, ProseMoved
<1>11. Kin(w, v)
  BY <1>1, <1>2, <1>4, <1>5, <1>9 DEF Kin, SameTools
<1>12. Onward(v, w, {})
  <2>1. \A c \in Calls : Items(v.kept[c]) \subseteq Items(w.kept[c])
    BY <1>11 DEF Kin, SameTools
  <2> QED BY <1>1, <1>2, <1>4, <1>5, <1>9, <2>1 DEF Onward
<1> QED BY <1>5, <1>9, <1>10, <1>11, <1>12

\* What handling the work u does to the view: a first part is parked or opens the
\* row of its call, and only an edit joins a queue.
Goes(v, w, u, st) ==
    /\ Items(v.parked) \subseteq Items(w.parked)
    /\ \A d \in Calls : u.do # "output" \/ d # u.call => w.rowOf[d] = v.rowOf[d]
    /\ u.do # "output" => w.backlog = v.backlog
    /\ u.do = "output" /\ v.rowOf[u.call] = Nil =>
        \/ InFlight(v) /\ u \in Items(w.parked) /\ w.rowOf = v.rowOf
        \/ ~InFlight(v) /\ w.rowOf[u.call] # Nil /\ w.backlog = v.backlog
    /\ u.do = "output" /\ v.rowOf[u.call] # Nil /\ ~Edit(st, u.call) =>
        w.backlog = v.backlog /\ w.rowOf = v.rowOf

LEMMA OnwardTwice ==
  ASSUME NEW u, NEW v, NEW w, NEW X, NEW Y, Onward(u, v, X), Onward(v, w, Y)
  PROVE  Onward(u, w, X \cup Y)
<1>1. \A id \in DOMAIN u.rows : u.rows[id].kind = "tool" /\ u.rows[id].call \notin X \cup Y =>
        /\ id \in DOMAIN w.rows /\ w.rows[id].kind = "tool"
        /\ w.rows[id].call = u.rows[id].call /\ w.rows[id].items = u.rows[id].items
  BY DEF Onward
<1>2. \A c \in Calls : Items(u.kept[c]) \subseteq Items(w.kept[c])
  BY DEF Onward
<1> QED BY <1>1, <1>2 DEF Onward

LEMMA FirstSound ==
  ASSUME NEW v, NEW rest \in SUBSET Work, NEW st, Stream(st), NEW open \in BOOLEAN,
         NEW u \in Work, Sound(v, {u} \cup rest, st, open), u.do = "output",
         ~InFlight(v), v.rowOf[u.call] = Nil, \A b \in rest : Before(u, b),
         NEW w, w = First(v, u.call, u.item)
  PROVE  Sound(w, rest, st, open) /\ Placed(w, v, u.call)
<1> DEFINE c == u.call
           kept == Append(v.kept[c], u.item)
           k == [v EXCEPT !.kept[c] = kept]
           s == Seal(k)
           r == RevealAll(s)
           all == {u} \cup rest
<1>0. all \in SUBSET Work
  OBVIOUS
<1>1. /\ View(v) /\ Wired(v) /\ Timed(v) /\ Due(u, v, st) /\ c \in Calls /\ u.item \in Nat
      /\ v.kept[c] \in Seq(Nat) /\ u.item \in 0 .. st.clock /\ u.item <= st.clock
  <2>1. c \in Calls /\ u.item \in Nat
    BY WorkIs
  <2>2. View(v) /\ Wired(v) /\ Timed(v) /\ Due(u, v, st)
    BY DEF Sound, Lined
  <2>3. v.kept[c] \in Seq(Nat)
    BY <2>1, <2>2 DEF View
  <2>4. u.item <= st.clock /\ u.item \in 0 .. st.clock
    BY <2>1, <2>2 DEF Due, Stream
  <2> QED BY <2>1, <2>2, <2>3, <2>4
<1>2. w = Place(r, c, kept)
  BY DEF First
<1>3. kept \in Seq(Nat) /\ Items(kept) = Items(v.kept[c]) \cup {u.item} /\ kept = Append(v.kept[c], u.item)
  BY <1>1, ItemsAppend
<1> HIDE DEF kept, all
<1>4. Sound(k, all, st, open) /\ Readied(k, v, c, u.item) /\ k.kept[c] = kept
  <2>1. Sound(v, all, st, open)
    BY DEF all
  <2>2. k = [v EXCEPT !.kept[c] = Append(v.kept[c], u.item)]
    BY <1>3
  <2> HIDE DEF k
  <2>3. Readies(k, v, c, u.item, st)
    BY <1>1, <2>2 DEF Readies
  <2>5. Sound(k, all, st, open) /\ Readied(k, v, c, u.item)
    BY <1>0, <2>1, <2>3, KeptOrPaced
  <2>4. k.kept[c] = kept
    BY <1>1, <1>3, <2>2 DEF View
  <2> QED BY <2>4, <2>5
<1> HIDE DEF k
<1>5. /\ Onward(v, k, {}) /\ k.rows = v.rows /\ k.rowOf = v.rowOf /\ k.backlog = v.backlog
      /\ k.parked = v.parked
  BY <1>4 DEF Readied
<1>6. /\ Sound(s, all, st, open) /\ Onward(k, s, {}) /\ Kin(s, k)
      /\ s.content = <<>> /\ s.pending = <<>>
  BY <1>0, <1>4, SealSound
<1> HIDE DEF s
<1>7. /\ s.kept = k.kept /\ s.rowOf = v.rowOf /\ s.backlog = v.backlog /\ ~InFlight(s)
      /\ s.parked = v.parked
  <2>1. s.kept = k.kept /\ s.rowOf = v.rowOf /\ s.backlog = v.backlog /\ ~InFlight(s)
    BY <1>5, <1>6 DEF Kin, SameTools, InFlight, Queued
  <2>2. v.parked = <<>> /\ s.parked = <<>>
    BY <1>1, <1>6, <2>1 DEF Timed, Sound
  <2> QED BY <2>1, <2>2
<1>8. /\ Sound(r, all, st, open) /\ SameProse(r, s) /\ SameTools(r, s)
      /\ r.rows = s.rows /\ r.parked = s.parked /\ ~InFlight(r)
  BY <1>0, <1>6, <1>7, IdleReveal
<1> HIDE DEF r
<1>9. /\ r.kept[c] = kept /\ r.rowOf = v.rowOf /\ r.backlog = v.backlog
      /\ r.content = <<>> /\ r.pending = <<>>
  BY <1>4, <1>6, <1>7, <1>8 DEF SameTools, SameProse
<1>10. Items(kept) \subseteq 0 .. st.clock
  <2>1. Items(v.kept[c]) \subseteq 0 .. st.clock
    BY <1>1 DEF Sound, OutputSaved
  <2> QED BY <1>1, <1>3, <2>1
<1>11. Sound(w, rest, st, open) /\ Placed(w, r, c)
  <2>1. u.item \in Items(kept) /\ Items(kept) \cap st.put \subseteq Items(r.kept[c])
    BY <1>3, <1>9
  <2>2. Sound(r, {u} \cup rest, st, open)
    BY <1>8 DEF all
  <2> QED BY <1>2, <1>3, <1>8, <1>9, <1>10, <2>1, <2>2, FirstPlaced
<1>12. Onward(v, w, {})
  <2>1. Onward(s, r, {})
    BY <1>8 DEF Onward, SameTools
  <2>2. Onward(r, w, {})
    BY <1>11 DEF Placed
  <2>3. Onward(v, s, {} \cup {})
    BY <1>5, <1>6, OnwardTwice
  <2>4. Onward(s, w, {} \cup {})
    BY <2>1, <2>2, OnwardTwice
  <2>5. Onward(v, w, ({} \cup {}) \cup ({} \cup {}))
    BY <2>3, <2>4, OnwardTwice
  <2> QED BY <2>5
<1> QED BY <1>7, <1>8, <1>9, <1>11, <1>12 DEF Placed

LEMMA EnqueueSound ==
  ASSUME NEW v, NEW rest \in SUBSET Work, NEW st, Stream(st), NEW open \in BOOLEAN,
         NEW u \in Work, Sound(v, {u} \cup rest, st, open), u.do = "output",
         \A b \in rest : Before(u, b), NEW w, w = Enqueue(v, u.call, u.item, u.edit)
  PROVE  Sound(w, rest, st, open) /\ Onward(v, w, {u.call}) /\ Goes(v, w, u, st)
<1> DEFINE c == u.call
           p == IF u.edit THEN [v EXCEPT !.paced = @ \cup {c}] ELSE v
           all == {u} \cup rest
<1>0. all \in SUBSET Work
  OBVIOUS
<1>1. c \in Calls /\ u.item \in Nat /\ u.edit \in BOOLEAN /\ u = OutputLater(c, u.item, u.edit)
  BY WorkIs
<1>2. View(v) /\ Timed(v) /\ Due(u, v, st)
  BY DEF Sound, Lined
<1>3. c \notin v.dropped /\ c \in Heard(st) /\ (u.edit => Edit(st, c)) /\ u.item <= st.clock
  BY <1>2 DEF Due
<1>4. /\ Sound(p, all, st, open) /\ Onward(v, p, {}) /\ p.rowOf = v.rowOf /\ p.parked = v.parked
      /\ p.backlog = v.backlog
  <2>1. CASE u.edit
    <3>1. Readies(p, v, c, u.item, st)
      BY <1>1, <1>3, <2>1 DEF Readies
    <3> HIDE DEF p
    <3>2. Sound(p, all, st, open) /\ Readied(p, v, c, u.item)
      BY <1>0, <3>1, KeptOrPaced
    <3> QED BY <3>2 DEF Readied
  <2>2. CASE ~u.edit
    BY <2>2 DEF Onward
  <2> QED BY <2>1, <2>2
<1>5. ~u.edit => p = v
  OBVIOUS
<1>6. u.edit => c \in p.paced
  BY <1>2 DEF View
<1>7. w = IF v.rowOf[c] = Nil
          THEN IF InFlight(v) THEN Park(p, u) ELSE First(p, c, u.item)
          ELSE IF c \notin p.paced THEN Update(v, c, u.item)
          ELSE [p EXCEPT !.backlog[c] = Append(@, u.item), !.revealing = TRUE]
  BY <1>1, <1>3 DEF Enqueue
<1> HIDE DEF p
<1>8. InFlight(p) <=> InFlight(v)
  BY <1>4 DEF InFlight, Queued
<1>9. Sound(p, {u} \cup rest, st, open)
  BY <1>4
<1>10. CASE v.rowOf[c] = Nil /\ InFlight(v)
  <2>1. w = Park(p, u) /\ p.rowOf[c] = Nil /\ InFlight(p)
    BY <1>4, <1>7, <1>8, <1>10
  <2>2. Sound(w, rest, st, open) /\ Parks(w, p, u)
    BY <1>9, <2>1, WorkParked
  <2>3. Onward(v, w, {c}) /\ w.rowOf = v.rowOf /\ Items(w.parked) = Items(v.parked) \cup {u}
    <3>1. Onward(p, w, {}) /\ w.rowOf = v.rowOf /\ Items(w.parked) = Items(v.parked) \cup {u}
      BY <1>4, <2>2 DEF Parks, SameTools
    <3>2. Onward(v, w, {} \cup {})
      BY <1>4, <3>1, OnwardTwice
    <3> QED BY <3>1, <3>2 DEF Onward
  <2> QED BY <1>10, <2>2, <2>3 DEF Goes
<1>11. CASE v.rowOf[c] = Nil /\ ~InFlight(v)
  <2>1. w = First(p, c, u.item) /\ p.rowOf[c] = Nil /\ ~InFlight(p)
    BY <1>4, <1>7, <1>8, <1>11
  <2>2. Sound(w, rest, st, open) /\ Placed(w, p, c)
    BY <1>9, <2>1, FirstSound
  <2>3. /\ Onward(p, w, {}) /\ w.backlog = v.backlog /\ w.rowOf[c] # Nil /\ w.parked = v.parked
        /\ \A d \in Calls : d # c => w.rowOf[d] = v.rowOf[d]
    BY <1>4, <2>2 DEF Placed
  <2>4. Onward(v, w, {} \cup {})
    BY <1>4, <2>3, OnwardTwice
  <2>5. Onward(v, w, {c})
    BY <2>4 DEF Onward
  <2> QED BY <1>11, <2>2, <2>3, <2>5 DEF Goes
<1>12. CASE v.rowOf[c] # Nil /\ c \notin p.paced
  <2>1. w = Update(v, c, u.item)
    BY <1>7, <1>12
  <2>2. Sound(w, rest, st, open) /\ Updated(w, v, {c}) /\ w.backlog = v.backlog
    BY <1>12, <2>1, PartShown
  <2> QED BY <1>12, <2>2 DEF Updated, Goes
<1>13. CASE v.rowOf[c] # Nil /\ c \in p.paced
  <2>1. Joins(w, p, u) /\ p.rowOf[u.call] # Nil /\ u.call \in p.paced
    BY <1>4, <1>7, <1>13 DEF Joins
  <2>2. Sound(w, rest, st, open) /\ Updated(w, p, {})
    BY <1>9, <2>1, LineQueued
  <2>3. Onward(p, w, {}) /\ w.parked = v.parked /\ w.rowOf = v.rowOf
    BY <1>4, <2>2 DEF Updated
  <2>4. Onward(v, w, {} \cup {})
    BY <1>4, <2>3, OnwardTwice
  <2>5. Onward(v, w, {c})
    BY <2>4 DEF Onward
  <2>6. Edit(st, c)
    BY <1>9, <1>13 DEF Sound, Lined
  <2> QED BY <1>13, <2>2, <2>3, <2>5, <2>6 DEF Goes
<1> QED BY <1>10, <1>11, <1>12, <1>13

LEMMA ResultSound ==
  ASSUME NEW v, NEW rest \in SUBSET Work, NEW st, Stream(st), NEW open \in BOOLEAN,
         NEW u \in Work, Sound(v, {u} \cup rest, st, open), u.do = "result",
         \A b \in rest : Before(u, b), NEW w, w = Result(v, u.call, u.outcome)
  PROVE  Sound(w, rest, st, open) /\ Onward(v, w, {}) /\ Goes(v, w, u, st)
<1>1. u.call \in Calls /\ u = ResultLater(u.call, u.outcome)
  BY WorkIs
<1>2. CASE v.rowOf[u.call] = Nil /\ InFlight(v)
  <2>1. w = Park(v, u)
    BY <1>1, <1>2 DEF Result
  <2>2. Sound(w, rest, st, open) /\ Parks(w, v, u)
    BY <1>2, <2>1, WorkParked
  <2> QED BY <2>2 DEF Parks, SameTools, Goes
<1>3. CASE v.rowOf[u.call] = Nil /\ ~InFlight(v)
  <2>1. w = v
    BY <1>3 DEF Result
  <2>2. Sound(w, rest, st, open)
    BY <2>1, WorkDone
  <2> QED BY <2>1, <2>2 DEF Onward, Goes
<1>4. CASE v.rowOf[u.call] # Nil
  <2>1. Sound(w, rest, st, open) /\ Updated(w, v, {}) /\ w.backlog = v.backlog
    BY <1>4, OutcomeMarked
  <2> QED BY <2>1 DEF Updated, Goes
<1> QED BY <1>2, <1>3, <1>4

Output(u) == {c \in Calls : u.do = "output" /\ u.call = c}

LEMMA RunSound ==
  ASSUME NEW v, NEW rest \in SUBSET Work, NEW st, Stream(st), NEW open \in BOOLEAN,
         NEW u \in Work, Sound(v, {u} \cup rest, st, open),
         \A b \in rest : Before(u, b), NEW w, w = Run(v, u)
  PROVE  Sound(w, rest, st, open) /\ Onward(v, w, Output(u)) /\ Goes(v, w, u, st)
<1>1. CASE u.do = "output"
  <2>1. w = Enqueue(v, u.call, u.item, u.edit)
    BY <1>1 DEF Run
  <2>2. Sound(w, rest, st, open) /\ Onward(v, w, {u.call}) /\ Goes(v, w, u, st)
    BY <1>1, <2>1, EnqueueSound
  <2>3. Output(u) = {u.call}
    BY <1>1, WorkIs DEF Output
  <2> QED BY <2>2, <2>3
<1>2. CASE u.do = "result"
  <2>1. w = Result(v, u.call, u.outcome)
    BY <1>2 DEF Run
  <2>2. Sound(w, rest, st, open) /\ Onward(v, w, {}) /\ Goes(v, w, u, st)
    BY <1>2, <2>1, ResultSound
  <2>3. Output(u) = {}
    BY <1>2 DEF Output
  <2> QED BY <2>2, <2>3
<1>3. CASE u.do = "flush"
  <2>1. w = Flush(v)
    BY <1>3 DEF Run
  <2>2. Sound(v, rest, st, open)
    BY <1>3, WorkDone
  <2>3. Sound(w, rest, st, open) /\ Onward(v, w, {}) /\ Kin(w, v)
    BY <2>1, <2>2, FlushSound
  <2>4. Output(u) = {}
    BY <1>3 DEF Output
  <2>5. Items(v.parked) \subseteq Items(w.parked)
    <3>1. v.parked \in Seq(Work) /\ FlushLater \in Work
      BY WorkTypes DEF Sound, View
    <3>2. Items(Append(v.parked, FlushLater)) = Items(v.parked) \cup {FlushLater}
      BY <3>1, ItemsAppend
    <3> QED BY <2>3, <3>2 DEF Kin
  <2> QED BY <1>3, <2>3, <2>4, <2>5 DEF Goes, Kin, SameTools
<1> QED BY <1>1, <1>2, <1>3, WorkIs

\* The calls with output among the works.
Outputs(works) == {c \in Calls : HasOutput(works, c)}

\* As parked work is done: either a running command whose first part was parked
\* has its row, and then nothing is queued, or that part is still to come.
Late(v, rest, st) ==
    \/ v.rowOf[st.at] # Nil /\ ~InFlight(v) /\ \A b \in rest : b.do = "output" => b.call = st.at
    \/ v.rowOf[st.at] = Nil /\ HasOutput(Items(v.parked) \cup rest, st.at)
Waiting(st) == st.at \in Heard(st) /\ ~Edit(st, st.at)

LEMMA StillLate ==
  ASSUME NEW v, NEW rest \in SUBSET Work, NEW st, Stream(st), NEW open \in BOOLEAN,
         NEW u \in Work, Sound(v, {u} \cup rest, st, open), \A b \in rest : Before(u, b),
         Waiting(st), Late(v, {u} \cup rest, st), NEW w, Goes(v, w, u, st)
  PROVE  Late(w, rest, st)
<1> DEFINE at == st.at
<1>1. at \in Calls /\ at \in Nat /\ ~Edit(st, at)
  BY DEF Waiting, Heard, Stream
<1>2. \A d \in Calls : u.do # "output" \/ d # u.call => w.rowOf[d] = v.rowOf[d]
  BY DEF Goes
<1>3. w.backlog = v.backlog => (InFlight(w) <=> InFlight(v))
  BY DEF InFlight, Queued
<1>4. \A x : HasOutput(Items(v.parked), x) => HasOutput(Items(w.parked), x)
  BY DEF Goes, HasOutput
<1>5. CASE u.do # "output"
  <2>1. w.backlog = v.backlog /\ w.rowOf[at] = v.rowOf[at]
    BY <1>1, <1>2, <1>5 DEF Goes
  <2>2. HasOutput(Items(v.parked) \cup ({u} \cup rest), at) => HasOutput(Items(w.parked) \cup rest, at)
    BY <1>4, <1>5 DEF HasOutput
  <2> QED BY <1>3, <2>1, <2>2 DEF Late
<1>6. CASE u.do = "output" /\ v.rowOf[at] # Nil
  <2>1. u.call = at /\ ~InFlight(v) /\ \A b \in rest : b.do = "output" => b.call = at
    BY <1>6 DEF Late
  <2>2. w.backlog = v.backlog /\ w.rowOf = v.rowOf
    BY <1>1, <1>6, <2>1 DEF Goes
  <2> QED BY <1>3, <1>6, <2>1, <2>2 DEF Late
<1>7. CASE u.do = "output" /\ v.rowOf[at] = Nil /\ u.call # at
  <2>1. HasOutput(Items(w.parked) \cup rest, at)
    BY <1>4, <1>7 DEF Late, HasOutput
  <2>2. w.rowOf[at] = Nil
    BY <1>1, <1>2, <1>7
  <2> QED BY <2>1, <2>2 DEF Late
<1>8. CASE u.do = "output" /\ v.rowOf[at] = Nil /\ u.call = at
  <2>1. CASE InFlight(v)
    <3>1. u \in Items(w.parked) /\ w.rowOf = v.rowOf
      BY <1>8, <2>1 DEF Goes
    <3> QED BY <1>8, <3>1 DEF Late, HasOutput
  <2>2. CASE ~InFlight(v)
    <3>1. w.rowOf[at] # Nil /\ w.backlog = v.backlog
      BY <1>8, <2>2 DEF Goes
    <3>2. ASSUME NEW b \in rest, b.do = "output"
          PROVE  b.call = at
      <4>1. at <= b.call
        BY <1>8, <3>2 DEF Before
      <4>2. b.call \in Heard(st)
        BY <3>2 DEF Sound, Lined, Due
      <4>3. b.call \in Nat /\ b.call <= at
        BY <1>1, <4>2 DEF Heard, Calls
      <4> QED BY <1>1, <4>1, <4>3
    <3> QED BY <1>3, <2>2, <3>1, <3>2 DEF Late
  <2> QED BY <2>1, <2>2
<1> QED BY <1>5, <1>6, <1>7, <1>8

\* Part of the parked work is done: the rest of it is still due.
SoFar(s, a, rest, st, open, X, late) ==
    /\ Sound(a, rest, st, open) /\ Onward(s, a, X)
    /\ late => Waiting(st) /\ Late(a, rest, st)
Todo(u, rest, X) == Output(u) \subseteq X /\ \A b \in rest : Before(u, b)

LEMMA OneDone ==
  ASSUME NEW s, NEW a, NEW rest \in SUBSET Work, NEW st, Stream(st), NEW open \in BOOLEAN,
         NEW X, NEW u \in Work, Todo(u, rest, X), NEW late \in BOOLEAN,
         SoFar(s, a, {u} \cup rest, st, open, X, late), NEW w, w = Run(a, u)
  PROVE  SoFar(s, w, rest, st, open, X, late)
<1>0. /\ Output(u) \subseteq X /\ \A b \in rest : Before(u, b)
      /\ Sound(a, {u} \cup rest, st, open) /\ Onward(s, a, X)
      /\ late => Waiting(st) /\ Late(a, {u} \cup rest, st)
  BY DEF Todo, SoFar
<1>1. Sound(w, rest, st, open) /\ Onward(a, w, Output(u)) /\ Goes(a, w, u, st)
  BY <1>0, RunSound
<1>2. Onward(s, w, X \cup Output(u))
  BY <1>0, <1>1, OnwardTwice
<1>3. X \cup Output(u) = X
  BY <1>0
<1>4. Onward(s, w, X)
  BY <1>2, <1>3
<1>5. late => Late(w, rest, st)
  BY <1>0, <1>1, StillLate
<1> QED BY <1>0, <1>1, <1>4, <1>5 DEF SoFar

LEMMA RunParkedSound ==
  ASSUME NEW v, NEW st, Stream(st), NEW open \in BOOLEAN, v.parked \in Seq(Work),
         NEW s, s = [v EXCEPT !.parked = <<>>], Sound(s, Items(v.parked), st, open),
         \A j, k \in DOMAIN v.parked : j < k => Before(v.parked[j], v.parked[k]),
         NEW w, w = RunParked(v)
  PROVE  /\ Sound(w, {}, st, open) /\ Onward(s, w, Outputs(Items(v.parked)))
         /\ Waiting(st) /\ Late(s, Items(v.parked), st) => Late(w, {}, st)
<1> DEFINE N == Len(v.parked)
           Rest(i) == {v.parked[j] : j \in i + 1 .. N}
           X == Outputs(Items(v.parked))
<1>1. PICK after : /\ w = after[N] /\ after[0] = s
                   /\ \A i \in 1 .. N : after[i] = Run(after[i - 1], v.parked[i])
  BY ParkedWorkRuns
<1>2. N \in Nat /\ DOMAIN v.parked = 1 .. N /\ \A j \in 1 .. N : v.parked[j] \in Work
  OBVIOUS
<1>3. Rest(0) = Items(v.parked) /\ Rest(N) = {}
  BY <1>2 DEF Items
<1>4. ASSUME NEW i \in 1 .. N
      PROVE  Rest(i - 1) = {v.parked[i]} \cup Rest(i) /\ Rest(i) \in SUBSET Work
  <2>1. \A j : j \in i .. N <=> j = i \/ j \in i + 1 .. N
    BY <1>2
  <2>2. i - 1 + 1 = i
    BY <1>2
  <2>3. \A j \in i + 1 .. N : j \in 1 .. N
    BY <1>2
  <2> QED BY <1>2, <2>1, <2>2, <2>3
<1> DEFINE late == Waiting(st) /\ Late(s, Items(v.parked), st)
           P(i) == SoFar(s, after[i], Rest(i), st, open, X, late)
           Bad == {i \in 0 .. N : ~P(i)}
<1> HIDE DEF Rest
<1>5. P(0)
  <2>1. Onward(s, s, X)
    BY DEF Onward
  <2> QED BY <1>1, <1>3, <2>1 DEF SoFar
<1>6. ASSUME NEW i \in 1 .. N, P(i - 1)
      PROVE  P(i)
  <2>1. /\ v.parked[i] \in Work /\ Rest(i) \in SUBSET Work
        /\ Rest(i - 1) = {v.parked[i]} \cup Rest(i)
    BY <1>2, <1>4
  <2>2. \A x \in Rest(i) : Before(v.parked[i], x)
    <3>1. \A j \in i + 1 .. N : j \in 1 .. N /\ i < j
      BY <1>2
    <3>2. \A j \in i + 1 .. N : Before(v.parked[i], v.parked[j])
      BY <1>2, <3>1
    <3> QED BY <3>2 DEF Rest
  <2>3. Output(v.parked[i]) \subseteq X
    BY <1>2 DEF Output, Outputs, HasOutput, Items
  <2>4. Todo(v.parked[i], Rest(i), X)
    BY <2>2, <2>3 DEF Todo
  <2>5. late \in BOOLEAN
    OBVIOUS
  <2>6. after[i] = Run(after[i - 1], v.parked[i])
    BY <1>1
  <2> HIDE DEF late, X
  <2>7. SoFar(s, after[i - 1], {v.parked[i]} \cup Rest(i), st, open, X, late)
    BY <1>6, <2>1
  <2> HIDE DEF P
  <2>8. SoFar(s, after[i], Rest(i), st, open, X, late)
    BY <2>1, <2>4, <2>5, <2>6, <2>7, OneDone
  <2> QED BY <2>8 DEF P
<1>7. Bad = {}
  <2> SUFFICES ASSUME Bad # {} PROVE FALSE
    OBVIOUS
  <2>1. Bad \in SUBSET Nat
    BY <1>2
  <2> HIDE DEF P
  <2>2. PICK m \in Bad : \A x \in Bad : m <= x
    <3> HIDE DEF Bad
    <3> QED BY <2>1, Least
  <2>3. m \in 1 .. N
    BY <1>2, <1>5, <2>2
  <2>4. m - 1 \in 0 .. N /\ ~(m <= m - 1)
    BY <1>2, <2>3
  <2>5. P(m - 1)
    BY <2>2, <2>4
  <2> QED BY <1>6, <2>2, <2>3, <2>5
<1>8. P(N)
  BY <1>2, <1>7
<1> QED BY <1>1, <1>3, <1>8 DEF SoFar

\* drainOutput
LEMMA DrainSound ==
  ASSUME NEW v, NEW st, Stream(st), NEW open \in BOOLEAN, Sound(v, {}, st, open),
         NEW w, w = Drain(v)
  PROVE  /\ Sound(w, {}, st, open) /\ Onward(v, w, Queued(v) \cup Outputs(Items(v.parked)))
         /\ Waiting(st) /\ v.rowOf[st.at] = Nil => Late(w, {}, st)
<1> DEFINE r == RevealAll(v)
           s == [r EXCEPT !.parked = <<>>]
<1>1. View(v) /\ Timed(v) /\ {} \in SUBSET Work /\ v.parked \in Seq(Work)
  BY DEF Sound, View
<1>2. r.parked = v.parked
  BY <1>1, AllRevealed
<1>3. Reveals(v, s) /\ Queued(s) = {} /\ s.parked = <<>>
  BY <1>1, AllRevealed
<1>4. w = RunParked(r)
  BY DEF Drain
<1>5. s = [r EXCEPT !.parked = <<>>]
  OBVIOUS
<1> HIDE DEF r, s
<1>6. Sound(s, Items(v.parked), st, open) /\ Onward(v, s, Queued(v))
  BY <1>1, <1>3, Revealed DEF InFlight
<1>7. \A j, k \in DOMAIN r.parked : j < k => Before(r.parked[j], r.parked[k])
  BY <1>2 DEF Sound, Lined
<1>8. /\ Sound(w, {}, st, open) /\ Onward(s, w, Outputs(Items(v.parked)))
      /\ Waiting(st) /\ Late(s, Items(v.parked), st) => Late(w, {}, st)
  BY <1>1, <1>2, <1>4, <1>5, <1>6, <1>7, RunParkedSound
<1>9. ASSUME Waiting(st), v.rowOf[st.at] = Nil
      PROVE  Late(s, Items(v.parked), st)
  <2>1. HasOutput(Items(v.parked) \cup {}, st.at)
    BY <1>9 DEF Sound, Announced, Waiting
  <2>2. s.rowOf[st.at] = Nil
    BY <1>3, <1>9 DEF Reveals
  <2>3. HasOutput(Items(s.parked) \cup Items(v.parked), st.at)
    BY <2>1 DEF HasOutput
  <2> QED BY <2>2, <2>3 DEF Late
<1>10. Onward(v, w, Queued(v) \cup Outputs(Items(v.parked)))
  BY <1>6, <1>8, OnwardTwice
<1> QED BY <1>8, <1>9, <1>10

\* releaseOutput
LEMMA ReleasedSound ==
  ASSUME NEW v, NEW st, Stream(st), NEW open \in BOOLEAN, Sound(v, {}, st, open),
         NEW w, w = Released(v)
  PROVE  Sound(w, {}, st, open) /\ Onward(v, w, Queued(v) \cup Outputs(Items(v.parked)))
<1> DEFINE s == Shifted(v)
<1>1. View(v) /\ Timed(v) /\ {} \in SUBSET Work /\ v.parked \in Seq(Work)
  BY DEF Sound, View
<1>2. w = Then(s)
  BY DEF Released
<1>3. CASE InFlight(s)
  <2>1. w = [s EXCEPT !.revealing = TRUE]
    BY <1>2, <1>3 DEF Then
  <2>2. Reveals(v, w) /\ InFlight(w) /\ w.parked = v.parked
    BY <1>1, <1>3, <2>1, PartsRevealed
  <2>3. Sound(w, {}, st, open) /\ Onward(v, w, Queued(v))
    BY <1>1, <2>2, Revealed
  <2> QED BY <2>3 DEF Onward
<1>4. CASE ~InFlight(s)
  <2> DEFINE q == [s EXCEPT !.parked = <<>>]
  <2>1. w = RunParked(s)
    BY <1>2, <1>4 DEF Then
  <2>2. Reveals(v, q) /\ ~InFlight(q) /\ q.parked = <<>> /\ s.parked = v.parked
    BY <1>1, <1>4, PartsRevealed
  <2>3. q = [s EXCEPT !.parked = <<>>]
    OBVIOUS
  <2> HIDE DEF q, s
  <2>4. Sound(q, Items(v.parked), st, open) /\ Onward(v, q, Queued(v))
    BY <1>1, <2>2, Revealed
  <2>5. \A j, k \in DOMAIN s.parked : j < k => Before(s.parked[j], s.parked[k])
    BY <2>2 DEF Sound, Lined
  <2>6. Sound(w, {}, st, open) /\ Onward(q, w, Outputs(Items(v.parked)))
    BY <1>1, <2>1, <2>2, <2>3, <2>4, <2>5, RunParkedSound
  <2>7. Onward(v, w, Queued(v) \cup Outputs(Items(v.parked)))
    BY <2>4, <2>6, OnwardTwice
  <2> QED BY <2>6, <2>7
<1> QED BY <1>3, <1>4

-----------------------------------------------------------------------------
(* A live line *)

\* The row of a running command opens once the parked work is done, whatever that
\* work left.
LEMMA LivePlaced ==
  ASSUME NEW v, NEW st, Stream(st), NEW open \in BOOLEAN, Sound(v, {}, st, open),
         Waiting(st), Late(v, {}, st),
         NEW items \in Seq(Nat), Items(items) \subseteq 0 .. st.clock,
         Items(items) \cap st.put \subseteq Items(v.kept[st.at]),
         NEW w, w = Place(v, st.at, items)
  PROVE  Sound(w, {}, st, open) /\ Onward(v, w, {})
<1> DEFINE c == st.at
           o == Open(v, "tool", c, items, "active")
<1>1. View(v) /\ Wired(v) /\ Timed(v) /\ c \in Calls /\ c \in Heard(st) /\ ~Edit(st, c)
  BY DEF Sound, Waiting, Heard
<1>2. OneMore(o, v, "tool", c, items, "active")
  BY <1>1, OpenedRows
<1>3. w = [o EXCEPT !.rowOf[c] = v.made + 1, !.unresolved = o.unresolved \cup {c}]
  BY DEF Place
<1> HIDE DEF o
<1> USE DEF Nil
<1>4. /\ w.rows = o.rows /\ w.made = o.made /\ w.tasks = o.tasks /\ w.parked = o.parked
      /\ w.rowOf = [o.rowOf EXCEPT ![c] = v.made + 1] /\ SameProse(w, o)
      /\ w.kept = o.kept /\ w.dropped = o.dropped /\ w.paced = o.paced /\ w.held = o.held
      /\ w.backlog = o.backlog /\ w.revealing = o.revealing
  BY <1>2, <1>3 DEF OneMore, View, SameProse
<1>5. /\ SameProse(w, v) /\ w.tasks = v.tasks /\ w.parked = v.parked /\ w.made = v.made + 1
      /\ w.kept = v.kept /\ w.dropped = v.dropped /\ w.paced = v.paced /\ w.held = v.held
      /\ w.backlog = v.backlog /\ w.revealing = v.revealing
      /\ w.rowOf[c] = w.made /\ \A d \in Calls : d # c => w.rowOf[d] = v.rowOf[d]
  BY <1>1, <1>2, <1>4 DEF OneMore, SameProse, SameTools, View
<1>6. /\ DOMAIN w.rows = DOMAIN v.rows \cup {w.made} /\ w.made \notin DOMAIN v.rows
      /\ \A id \in DOMAIN v.rows : w.rows[id] = v.rows[id] /\ id < w.made
      /\ w.rows[w.made].kind = "tool" /\ w.rows[w.made].call = c
      /\ w.rows[w.made].items = items /\ w.rows[w.made].status = "active"
      /\ w.made \in Nat \ {0}
  BY <1>2, <1>4 DEF OneMore
<1>7. View(w)
  <2>1. View(o) /\ v.made + 1 \in Nat
    BY <1>1, <1>2 DEF OneMore, View
  <2>2. [o.rowOf EXCEPT ![c] = v.made + 1] \in [Calls -> Nat] /\ o.unresolved \cup {c} \subseteq Calls
    BY <1>1, <2>1 DEF View
  <2> QED BY <1>3, <2>1, <2>2 DEF View
<1>8. Queued(w) = Queued(v) /\ (InFlight(w) <=> InFlight(v))
  BY <1>5 DEF Queued, InFlight
<1>9. InFlight(v) => HasOutput(Items(v.parked), c) /\ c \notin Queued(v)
  <2>1. InFlight(v) => v.rowOf[c] = 0 /\ HasOutput(Items(v.parked) \cup {}, c)
    BY DEF Late
  <2> QED BY <1>1, <2>1 DEF HasOutput, Timed
<1>10. Wired(w)
  <2>1. v.made \in Nat
    BY <1>1 DEF View
  <2>2. \A x \in 1 .. v.made : x \in 1 .. w.made
    BY <1>5, <2>1
  <2>3. w.made \in 1 .. w.made
    BY <1>6
  <2>4. DOMAIN w.rows \subseteq 1 .. w.made
    BY <1>1, <1>6, <2>2, <2>3 DEF Wired
  <2>5. w.active # 0 => w.active \in DOMAIN w.rows /\ w.rows[w.active].kind = "prose"
    BY <1>1, <1>5, <1>6 DEF Wired, SameProse
  <2>6. w.tasks # 0 => w.tasks \in DOMAIN w.rows /\ w.rows[w.tasks].kind = "tasks"
    BY <1>1, <1>5, <1>6 DEF Wired
  <2>7. \A d \in Calls : w.rowOf[d] # 0 =>
        /\ w.rowOf[d] \in DOMAIN w.rows
        /\ w.rows[w.rowOf[d]].kind = "tool" /\ w.rows[w.rowOf[d]].call = d
    <3> TAKE d \in Calls
    <3>1. CASE d = c
      BY <1>5, <1>6, <3>1
    <3>2. CASE d # c
      BY <1>1, <1>5, <1>6, <3>2 DEF Wired
    <3> QED BY <3>1, <3>2
  <2> QED BY <2>4, <2>5, <2>6, <2>7 DEF Wired
<1>11. Timed(w)
  <2>1. \A d \in Queued(w) : w.rowOf[d] # 0
    <3>1. \A d \in Queued(v) : d \in Calls /\ v.rowOf[d] # 0
      BY <1>1 DEF Timed, Queued
    <3> QED BY <1>5, <1>6, <1>8, <3>1
  <2> QED BY <1>1, <1>5, <1>8, <2>1 DEF Timed, InFlight, SameProse
<1>12. Known(w, st)
  <2>1. c \in Nat /\ c \notin v.dropped
    <3>1. c \in Nat /\ \A x \in v.dropped : x < c
      BY DEF Sound, Known, Stream
    <3> QED BY <3>1
  <2> QED BY <1>1, <1>5, <2>1 DEF Sound, Known
<1>13. Lined(w, {}, st)
  BY <1>1, <1>5 DEF Sound, Lined, Due
<1>14. Clear(w, {}, st)
  BY <1>1 DEF Clear, Expects, HasOutput
<1>15. Announced(w, {}, st)
  BY <1>5, <1>6 DEF Announced
<1>16. Under(w)
  <2> SUFFICES ASSUME NEW d \in Queued(v), NEW r \in Below(w, w.rowOf[d])
               PROVE  HasOutput(Items(v.parked), w.rows[r].call)
    BY <1>5, <1>8 DEF Under
  <2>1. d \in Calls /\ InFlight(v) /\ d # c
    BY <1>9 DEF Queued, InFlight
  <2>2. CASE r = w.made
    BY <1>6, <1>9, <2>1, <2>2
  <2>3. CASE r # w.made
    <3>1. r \in Below(v, v.rowOf[d]) /\ w.rows[r] = v.rows[r]
      BY <1>5, <1>6, <2>1, <2>3 DEF Below
    <3> QED BY <3>1 DEF Sound, Under
  <2> QED BY <2>2, <2>3
<1>17. OutputSaved(w, {}, st)
  <2>1. \A d \in Calls : w.rowOf[d] # 0 =>
            Items(w.rows[w.rowOf[d]].items) \cap st.put \subseteq Items(w.kept[d])
    <3> SUFFICES ASSUME NEW d \in Calls, w.rowOf[d] # 0
                 PROVE  Items(w.rows[w.rowOf[d]].items) \cap st.put \subseteq Items(w.kept[d])
      OBVIOUS
    <3>1. CASE d = c
      BY <1>5, <1>6, <3>1
    <3>2. CASE d # c
      <4>1. w.rows[w.rowOf[d]] = v.rows[v.rowOf[d]] /\ w.kept[d] = v.kept[d] /\ v.rowOf[d] # 0
        BY <1>1, <1>5, <1>6, <3>2 DEF Wired
      <4> QED BY <4>1 DEF Sound, OutputSaved
    <3> QED BY <3>1, <3>2
  <2>2. \A n : OnScreen(v, n) => OnScreen(w, n)
    BY <1>6 DEF OnScreen
  <2>3. \A n : InQueue(w, n) <=> InQueue(v, n)
    BY <1>5 DEF InQueue
  <2>4. \A id \in DOMAIN w.rows : \A n \in Items(w.rows[id].items) :
          n \in 0 .. st.clock /\ (n \in st.put => w.rows[id].kind = "tool")
    BY <1>6 DEF Sound, OutputSaved
  <2> QED BY <1>5, <2>1, <2>2, <2>3, <2>4 DEF Sound, OutputSaved, SameProse
<1>18. ASSUME open, NEW d \in Calls, v.rowOf[d] # 0, v.rows[v.rowOf[d]].status # "active"
       PROVE  d # c
  <2>1. d < st.at /\ st.at \in Nat
    BY <1>18 DEF Sound, Settled, Stream
  <2> QED BY <2>1
<1>19. open => Settled(w, {}, st)
  <2> SUFFICES ASSUME open, NEW d \in Calls, w.rowOf[d] # 0, w.rows[w.rowOf[d]].status # "active"
               PROVE  /\ d \in Queued(w) => d \in w.held
                      /\ d < st.at
                      /\ Edit(st, d) => ~HasOutput({}, d)
    BY DEF Settled
  <2>1. d # c
    BY <1>5, <1>6
  <2>2. v.rowOf[d] # 0 /\ v.rows[v.rowOf[d]].status # "active"
    BY <1>1, <1>5, <1>6, <2>1 DEF Wired
  <2> QED BY <1>5, <1>8, <2>2 DEF Sound, Settled
<1>20. open => Marked(w)
  <2> SUFFICES ASSUME open, NEW id \in DOMAIN w.rows,
                      w.rows[id].kind = "tool", w.rows[id].status # "active"
               PROVE  \E d \in Calls : w.rowOf[d] = id
    BY DEF Marked
  <2>1. id \in DOMAIN v.rows /\ v.rows[id] = w.rows[id]
    BY <1>6
  <2>2. PICK d \in Calls : v.rowOf[d] = id
    BY <2>1 DEF Sound, Marked
  <2>3. id # 0
    BY <1>1, <2>1 DEF Wired
  <2>4. d # c
    BY <1>18, <2>1, <2>2, <2>3
  <2> QED BY <1>5, <2>2, <2>4
<1>21. Onward(v, w, {})
  BY <1>5, <1>6 DEF Onward
<1> QED BY <1>7, <1>10, <1>11, <1>12, <1>13, <1>14, <1>15, <1>16, <1>17, <1>19, <1>20, <1>21 DEF Sound

\* A live line is shown under what is kept, and not kept.
Shows(w, v, c, items) == w = [v EXCEPT !.rows = WithItems(@, v.rowOf[c], items)]

LEMMA LiveShown ==
  ASSUME NEW v, NEW st, Stream(st), NEW open \in BOOLEAN, Sound(v, {}, st, open),
         NEW c \in Calls, v.rowOf[c] # Nil,
         NEW items \in Seq(Nat), Items(items) \subseteq 0 .. st.clock,
         Items(items) \cap st.put = Items(v.kept[c]) \cap st.put,
         NEW w, Shows(w, v, c, items)
  PROVE  Sound(w, {}, st, open) /\ Onward(v, w, {c})
<1> DEFINE t == WithItems(v.rows, v.rowOf[c], items)
<1> USE DEF Nil
<1>1. View(v) /\ Wired(v)
  BY DEF Sound
<1>2. w = [v EXCEPT !.rows = t]
  BY DEF Shows
<1>3. /\ t \in Tables /\ DOMAIN t = DOMAIN v.rows
      /\ \A id \in DOMAIN v.rows :
             /\ t[id].kind = v.rows[id].kind /\ t[id].call = v.rows[id].call
             /\ t[id].status = v.rows[id].status
             /\ t[id].items = IF id = v.rowOf[c] THEN items ELSE v.rows[id].items
  <2>1. v.rows \in Tables
    BY <1>1 DEF View
  <2> QED BY <2>1, RepaintedRows
<1> HIDE DEF t
<1>4. /\ w.rows = t /\ w.made = v.made /\ w.tasks = v.tasks /\ w.parked = v.parked
      /\ SameProse(w, v) /\ SameTools(w, v)
  BY <1>1, <1>2 DEF View, SameProse, SameTools
<1>5. View(w)
  BY <1>1, <1>2, <1>3 DEF View
<1>6. Wired(w)
  BY <1>1, <1>3, <1>4 DEF Wired, SameProse, SameTools
<1>7. Queued(w) = Queued(v) /\ \A id : Below(w, id) = Below(v, id)
  BY <1>3, <1>4 DEF Queued, Below, SameTools
<1>8. Timed(w) /\ Known(w, st) /\ Announced(w, {}, st)
  BY <1>4, <1>7 DEF Sound, Timed, Known, Announced, InFlight, SameProse, SameTools
<1>9. Lined(w, {}, st)
  BY <1>4 DEF Sound, Lined, Due, SameTools
<1>10. Clear(w, {}, st)
  <2> SUFFICES ASSUME NEW d \in Calls, Expects(w, {}, st, d) PROVE HasTheFloor(w, {}, d)
    BY DEF Clear
  <2>1. HasTheFloor(v, {}, d)
    BY <1>4 DEF Sound, Clear, Expects, SameTools
  <2> QED BY <1>4, <1>7, <2>1 DEF HasTheFloor, SameProse, SameTools
<1>11. Under(w)
  BY <1>3, <1>4, <1>7 DEF Sound, Under, Below, SameTools
<1>12. OutputSaved(w, {}, st)
  <2>1. \A d \in Calls : w.rowOf[d] # 0 =>
            Items(w.rows[w.rowOf[d]].items) \cap st.put \subseteq Items(w.kept[d])
    <3> SUFFICES ASSUME NEW d \in Calls, w.rowOf[d] # 0
                 PROVE  Items(w.rows[w.rowOf[d]].items) \cap st.put \subseteq Items(w.kept[d])
      OBVIOUS
    <3>1. v.rowOf[d] # 0 /\ v.rowOf[d] \in DOMAIN v.rows /\ v.rows[v.rowOf[d]].call = d
      BY <1>1, <1>4 DEF Wired, SameTools
    <3>2. CASE d = c
      BY <1>3, <1>4, <3>1, <3>2 DEF SameTools
    <3>3. CASE d # c
      <4>1. v.rowOf[d] # v.rowOf[c]
        BY <1>1, <3>1, <3>3 DEF Wired
      <4>2. w.rows[w.rowOf[d]].items = v.rows[v.rowOf[d]].items /\ w.kept[d] = v.kept[d]
        BY <1>3, <1>4, <3>1, <4>1 DEF SameTools
      <4> QED BY <3>1, <4>2 DEF Sound, OutputSaved
    <3> QED BY <3>2, <3>3
  <2>2. ASSUME NEW n \in st.put, OnScreen(v, n)
        PROVE  OnScreen(w, n)
    <3>1. PICK id \in DOMAIN v.rows : n \in Items(v.rows[id].items)
      BY <2>2 DEF OnScreen
    <3>2. n \in Items(t[id].items)
      <4>1. CASE id = v.rowOf[c]
        <5>1. n \in Items(v.kept[c])
          BY <3>1, <4>1 DEF Sound, OutputSaved
        <5> QED BY <1>3, <4>1, <5>1
      <4>2. CASE id # v.rowOf[c]
        BY <1>3, <3>1, <4>2
      <4> QED BY <4>1, <4>2
    <3> QED BY <1>3, <1>4, <3>2 DEF OnScreen
  <2>3. \A n : InQueue(w, n) <=> InQueue(v, n)
    BY <1>4 DEF InQueue, SameTools
  <2>4. ASSUME NEW id \in DOMAIN w.rows, NEW n \in Items(w.rows[id].items)
        PROVE  n \in 0 .. st.clock /\ (n \in st.put => w.rows[id].kind = "tool")
    <3>1. id \in DOMAIN v.rows /\ w.rows[id].kind = v.rows[id].kind
      BY <1>3, <1>4
    <3>2. CASE id = v.rowOf[c]
      BY <1>1, <1>3, <1>4, <3>1, <3>2 DEF Wired
    <3>3. CASE id # v.rowOf[c]
      <4>1. w.rows[id].items = v.rows[id].items
        BY <1>3, <1>4, <3>1, <3>3
      <4> QED BY <3>1, <4>1 DEF Sound, OutputSaved
    <3> QED BY <3>2, <3>3
  <2>5. \A n \in st.put : OnScreen(w, n) \/ InQueue(w, n) \/ Waits(Items(w.parked) \cup {}, n)
    BY <1>4, <2>2, <2>3 DEF Sound, OutputSaved
  <2> QED BY <1>4, <2>1, <2>4, <2>5 DEF Sound, OutputSaved, SameProse, SameTools
<1>13. open => Settled(w, {}, st) /\ Marked(w)
  <2>1. \A d \in Calls : v.rowOf[d] # 0 =>
          v.rowOf[d] \in DOMAIN v.rows /\ t[v.rowOf[d]].status = v.rows[v.rowOf[d]].status
    BY <1>1, <1>3 DEF Wired
  <2>2. open => Settled(w, {}, st)
    BY <1>4, <1>7, <2>1 DEF Sound, Settled, SameTools
  <2>3. open => Marked(w)
    BY <1>3, <1>4 DEF Sound, Marked, SameTools
  <2> QED BY <2>2, <2>3
<1>14. Onward(v, w, {c})
  <2>1. \A id \in DOMAIN v.rows : v.rows[id].call # c => id # v.rowOf[c]
    BY <1>1 DEF Wired
  <2> QED BY <1>3, <1>4, <2>1 DEF Onward, SameTools
<1> QED BY <1>5, <1>6, <1>8, <1>9, <1>10, <1>11, <1>12, <1>13, <1>14 DEF Sound

\* enqueueOutput of a live line of the running command
LEMMA LiveSound ==
  ASSUME NEW v, NEW st, Stream(st), NEW open \in BOOLEAN, Sound(v, {}, st, open),
         Waiting(st), NEW n \in 0 .. st.clock, n \notin st.put,
         NEW w, w = Live(v, st.at, n)
  PROVE  /\ Sound(w, {}, st, open)
         /\ Onward(v, w, Queued(v) \cup Outputs(Items(v.parked)) \cup {st.at})
<1> DEFINE c == st.at
           tails == Append(v.kept[c], n)
           X == Queued(v) \cup Outputs(Items(v.parked))
<1>1. View(v) /\ c \in Calls /\ n \in Nat /\ v.kept[c] \in Seq(Nat)
  <2>1. View(v) /\ c \in Calls
    BY DEF Sound, Waiting, Heard
  <2>2. st.clock \in Nat
    BY DEF Stream
  <2> QED BY <2>1, <2>2 DEF View
<1>2. tails \in Seq(Nat) /\ Items(tails) = Items(v.kept[c]) \cup {n}
  BY <1>1, ItemsAppend
<1>3. Items(tails) \subseteq 0 .. st.clock
  <2>1. Items(v.kept[c]) \subseteq 0 .. st.clock
    BY <1>1 DEF Sound, OutputSaved
  <2> QED BY <1>2, <2>1
<1>4. Items(tails) \cap st.put = Items(v.kept[c]) \cap st.put
  BY <1>2
<1>5. w = IF c \in v.dropped THEN v
          ELSE IF v.rowOf[c] # Nil THEN [v EXCEPT !.rows = WithItems(@, v.rowOf[c], tails)]
          ELSE Place(Drain(Seal(v)), c, tails)
  BY DEF Live
<1> HIDE DEF tails
<1>6. CASE c \in v.dropped
  BY <1>5, <1>6 DEF Onward
<1>7. CASE c \notin v.dropped /\ v.rowOf[c] # Nil
  <2>1. Shows(w, v, c, tails)
    BY <1>5, <1>7 DEF Shows
  <2>2. Sound(w, {}, st, open) /\ Onward(v, w, {c})
    BY <1>1, <1>2, <1>3, <1>4, <1>7, <2>1, LiveShown
  <2> QED BY <2>2 DEF Onward
<1>8. CASE c \notin v.dropped /\ v.rowOf[c] = Nil
  <2> DEFINE s == Seal(v)
             d == Drain(s)
  <2>1. w = Place(d, c, tails)
    BY <1>5, <1>8
  <2>2. Sound(s, {}, st, open) /\ Onward(v, s, {}) /\ Kin(s, v)
    BY SealSound
  <2> HIDE DEF s
  <2>3. /\ Sound(d, {}, st, open) /\ Onward(s, d, Queued(s) \cup Outputs(Items(s.parked)))
        /\ Waiting(st) /\ s.rowOf[c] = Nil => Late(d, {}, st)
    BY <2>2, DrainSound
  <2> HIDE DEF d
  <2>4. s.rowOf = v.rowOf /\ Queued(s) = Queued(v)
    BY <2>2 DEF Kin, SameTools, Queued
  <2>5. Outputs(Items(s.parked)) = Outputs(Items(v.parked))
    <3>1. v.parked \in Seq(Work) /\ FlushLater \in Work /\ FlushLater.do = "flush"
      BY <1>1, WorkTypes DEF View
    <3>2. Items(Append(v.parked, FlushLater)) = Items(v.parked) \cup {FlushLater}
      BY <3>1, ItemsAppend
    <3>3. \A x : HasOutput(Items(s.parked), x) <=> HasOutput(Items(v.parked), x)
      BY <2>2, <3>1, <3>2 DEF Kin, HasOutput
    <3> QED BY <3>3 DEF Outputs
  <2>6. Late(d, {}, st)
    BY <1>8, <2>3, <2>4
  <2>7. Onward(v, d, {} \cup X)
    BY <2>2, <2>3, <2>4, <2>5, OnwardTwice
  <2>8. Items(tails) \cap st.put \subseteq Items(d.kept[c])
    BY <1>1, <1>4, <2>7 DEF Onward
  <2>9. Sound(w, {}, st, open) /\ Onward(d, w, {})
    BY <1>2, <1>3, <2>1, <2>3, <2>6, <2>8, LivePlaced
  <2>10. Onward(v, w, ({} \cup X) \cup {})
    BY <2>7, <2>9, OnwardTwice
  <2> QED BY <2>9, <2>10 DEF Onward
<1> QED BY <1>6, <1>7, <1>8

-----------------------------------------------------------------------------
(* The remaining handlers *)

LEMMA OnwardMore ==
  ASSUME NEW u, NEW v, NEW w, NEW X, Onward(u, v, {}), Onward(v, w, X)
  PROVE  Onward(u, w, X)
<1>1. Onward(u, w, {} \cup X)
  BY OnwardTwice
<1> QED BY <1>1

LEMMA DeltaSound ==
  ASSUME NEW v, NEW st, Stream(st), NEW open \in BOOLEAN, Sound(v, {}, st, open),
         st.sent = 0, NEW n \in (0 .. st.clock) \ st.put, NEW w, w = Delta(v, n)
  PROVE  Sound(w, {}, st, open) /\ Onward(v, w, {})
<1>1. View(v) /\ v.pending \in Seq(Nat) /\ n \in Nat
  BY DEF Sound, View, Stream
<1>2. Append(v.pending, n) \in Seq(Nat) /\ Items(Append(v.pending, n)) = Items(v.pending) \cup {n}
  BY <1>1, ItemsAppend
<1>3. w = [v EXCEPT !.pending = Append(v.pending, n), !.fresh = TRUE, !.ticking = TRUE]
  BY DEF Delta
<1>4. /\ View(w) /\ SameTools(w, v) /\ w.rows = v.rows /\ w.made = v.made /\ w.active = v.active
      /\ w.tasks = v.tasks /\ w.parked = v.parked /\ w.content = v.content
      /\ w.pending = Append(v.pending, n) /\ w.ticking = TRUE
  BY <1>1, <1>2, <1>3 DEF View, SameTools
<1>5. ProseMoves(w, v, st)
  BY <1>2, <1>4 DEF ProseMoves, Sound, OutputSaved
<1>6. ~\E c \in Calls : Expects(v, {}, st, c)
  BY DEF Sound, Known, Heard, Expects, HasOutput, Stream
<1>7. {} \in SUBSET Work
  OBVIOUS
<1>8. Sound(w, {}, st, open)
  BY <1>5, <1>6, <1>7, ProseMoved
<1>9. Onward(v, w, {})
  BY <1>4 DEF Onward, SameTools
<1> QED BY <1>8, <1>9

LEMMA TextEndSound ==
  ASSUME NEW v, NEW st, Stream(st), NEW open \in BOOLEAN, Sound(v, {}, st, open),
         NEW w, w = TextEnd(v)
  PROVE  Sound(w, {}, st, open) /\ Onward(v, w, {})
<1> DEFINE b == DrainBacklog(v)
<1>1. {} \in SUBSET Work
  OBVIOUS
<1>2. Sound(b, {}, st, open) /\ SameTools(b, v) /\ b.rows = v.rows
  BY <1>1, BacklogSound
<1>3. w = Flush(b)
  BY DEF TextEnd
<1> HIDE DEF b
<1>4. Sound(w, {}, st, open) /\ Onward(b, w, {})
  BY <1>1, <1>2, <1>3, FlushSound
<1>5. Onward(v, b, {})
  BY <1>2 DEF Onward, SameTools
<1> QED BY <1>4, <1>5, OnwardMore

\* A row of another kind opens under sealed prose.
LEMMA NoticeSound ==
  ASSUME NEW v, NEW st, Stream(st), NEW open \in BOOLEAN, Sound(v, {}, st, open),
         NEW n \in (0 .. st.clock) \ st.put, NEW w, w = Notice(v, n)
  PROVE  Sound(w, {}, st, open) /\ Onward(v, w, {})
<1> DEFINE s == Seal(v)
<1>1. {} \in SUBSET Work
  OBVIOUS
<1>2. Sound(s, {}, st, open) /\ Onward(v, s, {})
  BY <1>1, SealSound
<1>3. w = Open(s, "notice", Nil, <<n>>, "complete")
  BY DEF Notice
<1>4. <<n>> \in Seq(Nat) /\ Items(<<n>>) \subseteq (0 .. st.clock) \ st.put
  BY DEF Items, Stream
<1> HIDE DEF s
<1>5. Sound(w, {}, st, open) /\ Added(w, s, "notice")
  BY <1>1, <1>2, <1>3, <1>4, Opened
<1>6. Onward(s, w, {})
  BY <1>5 DEF Added
<1> QED BY <1>2, <1>5, <1>6, OnwardMore

LEMMA SealedOutputs ==
  ASSUME NEW v, NEW st, NEW open \in BOOLEAN, Sound(v, {}, st, open), NEW s, Kin(s, v)
  PROVE  Queued(s) = Queued(v) /\ Outputs(Items(s.parked)) = Outputs(Items(v.parked))
<1>1. v.parked \in Seq(Work) /\ FlushLater \in Work /\ FlushLater.do = "flush"
  BY WorkTypes DEF Sound, View
<1>2. Items(Append(v.parked, FlushLater)) = Items(v.parked) \cup {FlushLater}
  BY <1>1, ItemsAppend
<1>3. \A x : HasOutput(Items(s.parked), x) <=> HasOutput(Items(v.parked), x)
  BY <1>1, <1>2 DEF Kin, HasOutput
<1>4. Queued(s) = Queued(v)
  BY DEF Kin, SameTools, Queued
<1> QED BY <1>3, <1>4 DEF Outputs

LEMMA EffectSound ==
  ASSUME NEW v, NEW st, Stream(st), NEW open \in BOOLEAN, Sound(v, {}, st, open),
         NEW n \in (0 .. st.clock) \ st.put, NEW w, w = Effect(v, n)
  PROVE  Sound(w, {}, st, open) /\ Onward(v, w, Queued(v) \cup Outputs(Items(v.parked)))
<1> DEFINE s == Seal(v)
           d == Drain(s)
           X == Queued(v) \cup Outputs(Items(v.parked))
<1>1. {} \in SUBSET Work
  OBVIOUS
<1>2. Sound(s, {}, st, open) /\ Onward(v, s, {}) /\ Kin(s, v)
  BY <1>1, SealSound
<1>3. w = Open(d, "effect", Nil, <<n>>, "complete")
  BY DEF Effect
<1>4. <<n>> \in Seq(Nat) /\ Items(<<n>>) \subseteq (0 .. st.clock) \ st.put
  BY DEF Items, Stream
<1> HIDE DEF s
<1>5. Sound(d, {}, st, open) /\ Onward(s, d, Queued(s) \cup Outputs(Items(s.parked)))
  BY <1>2, DrainSound
<1>6. Queued(s) = Queued(v) /\ Outputs(Items(s.parked)) = Outputs(Items(v.parked))
  BY <1>2, SealedOutputs
<1>7. Onward(v, d, X)
  BY <1>2, <1>5, <1>6, OnwardMore
<1> HIDE DEF d, X
<1>8. Sound(w, {}, st, open) /\ Added(w, d, "effect")
  BY <1>1, <1>3, <1>4, <1>5, Opened
<1>9. Onward(d, w, {})
  BY <1>8 DEF Added
<1>10. Onward(v, w, X \cup {})
  BY <1>7, <1>9, OnwardTwice
<1> QED BY <1>8, <1>10 DEF X

LEMMA TasklistSound ==
  ASSUME NEW v, NEW st, Stream(st), NEW open \in BOOLEAN, Sound(v, {}, st, open),
         NEW n \in (0 .. st.clock) \ st.put, NEW w, w = Tasklist(v, n)
  PROVE  Sound(w, {}, st, open) /\ Onward(v, w, {})
<1>1. {} \in SUBSET Work
  OBVIOUS
<1>2. <<n>> \in Seq(Nat) /\ Items(<<n>>) \subseteq (0 .. st.clock) \ st.put
  BY DEF Items, Stream
<1>3. CASE v.tasks # Nil
  <2> DEFINE items == <<n>>
             t == WithItems(v.rows, v.tasks, items)
  <2>1. w = [v EXCEPT !.rows = t]
    BY <1>3 DEF Tasklist
  <2>6. items \in Seq(Nat) /\ Items(items) \subseteq (0 .. st.clock) \ st.put
    BY <1>2
  <2> HIDE DEF items
  <2>2. v.rows \in Tables /\ v.rows[v.tasks].kind = "tasks"
    BY <1>3 DEF Sound, View, Wired
  <2>3. /\ t \in Tables /\ DOMAIN t = DOMAIN v.rows
        /\ \A id \in DOMAIN v.rows :
             /\ t[id].kind = v.rows[id].kind /\ t[id].call = v.rows[id].call
             /\ t[id].status = v.rows[id].status
             /\ t[id].items = IF id = v.tasks THEN items ELSE v.rows[id].items
    BY <2>2, <2>6, RepaintedRows
  <2> HIDE DEF t
  <2>4. Repaints(t, v, st, open)
    BY <2>2, <2>3, <2>6 DEF Repaints
  <2>5. Sound(w, {}, st, open) /\ Repainted(w, v, t)
    BY <1>1, <2>1, <2>4, Redrawn
  <2> QED BY <2>5 DEF Repainted
<1>4. CASE v.tasks = Nil
  <2> DEFINE s == Seal(v)
             o == Open(s, "tasks", Nil, <<n>>, "active")
  <2>1. w = [o EXCEPT !.tasks = s.made + 1]
    BY <1>4 DEF Tasklist
  <2>2. Sound(s, {}, st, open) /\ Onward(v, s, {})
    BY <1>1, SealSound
  <2> HIDE DEF s
  <2>3. Sound(o, {}, st, open) /\ Added(o, s, "tasks")
    BY <1>1, <1>2, <2>2, Opened
  <2> HIDE DEF o
  <2>4. /\ o.made = s.made + 1 /\ o.made \in Nat /\ o.made \in DOMAIN o.rows
        /\ o.rows[o.made].kind = "tasks" /\ Onward(s, o, {}) /\ View(o) /\ Wired(o)
    BY <2>3 DEF Added, Sound
  <2>5. /\ SameTools(w, o) /\ w.rows = o.rows /\ w.content = o.content /\ w.tasks = o.made
        /\ w.made = o.made /\ w.active = o.active
        /\ w.pending = o.pending /\ w.parked = o.parked /\ w.ticking = o.ticking /\ View(w)
    BY <2>1, <2>4 DEF View, SameTools
  <2>6. Sound(w, {}, st, open)
    <3>1. Wired(w)
      BY <2>4, <2>5 DEF Wired, SameTools
    <3>2. Points(w, o)
      BY <2>5, <3>1 DEF Points
    <3> QED BY <1>1, <2>3, <3>2, Pointed
  <2>7. Onward(s, w, {})
    BY <2>4, <2>5 DEF Onward, SameTools
  <2> QED BY <2>2, <2>6, <2>7, OnwardMore
<1> QED BY <1>3, <1>4

\* tick
LEMMA TickedSound ==
  ASSUME NEW v, NEW st, Stream(st), NEW open \in BOOLEAN, Sound(v, {}, st, open),
         NEW cut \in 0 .. Len(v.pending), NEW w, w = Ticked(v, cut)
  PROVE  Sound(w, {}, st, open) /\ Onward(v, w, {})
<1> DEFINE out == IF cut = 0 THEN Len(v.pending) ELSE cut
           front == SubSeq(v.pending, 1, out)
           back == SubSeq(v.pending, out + 1, Len(v.pending))
           b == [v EXCEPT !.content = v.content \o front, !.pending = back,
                          !.ticking = out < Len(v.pending), !.fresh = FALSE]
<1>1. /\ View(v) /\ v.pending \in Seq(Nat) /\ v.content \in Seq(Nat) /\ {} \in SUBSET Work
      /\ Len(v.pending) \in Nat
      /\ Items(v.content) \cup Items(v.pending) \subseteq (0 .. st.clock) \ st.put
      /\ v.pending # <<>> => v.ticking
  BY DEF Sound, View, OutputSaved, Timed
<1>2. \/ v.pending = <<>> /\ w = [v EXCEPT !.ticking = FALSE]
      \/ v.pending # <<>> /\ w = [v EXCEPT !.fresh = FALSE]
      \/ v.pending # <<>> /\ w = Flush(b)
  BY DEF Ticked
<1>3. CASE \/ v.pending = <<>> /\ w = [v EXCEPT !.ticking = FALSE]
           \/ v.pending # <<>> /\ w = [v EXCEPT !.fresh = FALSE]
  <2>1. /\ View(w) /\ SameTools(w, v) /\ w.rows = v.rows /\ w.made = v.made /\ w.active = v.active
        /\ w.tasks = v.tasks /\ w.parked = v.parked /\ w.content = v.content
        /\ w.pending = v.pending /\ (w.pending # <<>> => w.ticking)
    BY <1>1, <1>3 DEF View, SameTools
  <2>2. ProseMoves(w, v, st)
    BY <1>1, <2>1 DEF ProseMoves
  <2>3. (\E c \in Calls : Expects(v, {}, st, c)) => w.content = <<>> /\ w.pending = <<>>
    BY <2>1 DEF Sound, Clear, HasTheFloor
  <2>4. Sound(w, {}, st, open)
    BY <1>1, <2>2, <2>3, ProseMoved
  <2> QED BY <2>1, <2>4 DEF Onward, SameTools
<1>4. CASE v.pending # <<>> /\ w = Flush(b)
  <2>1. out \in 1 .. Len(v.pending)
    <3>1. Len(v.pending) # 0
      BY <1>1, <1>4, EmptySeq
    <3> QED BY <1>1, <3>1
  <2> HIDE DEF out
  <2>2. front \in Seq(Nat) /\ back \in Seq(Nat) /\ (back # <<>> => out < Len(v.pending))
    <3>1. \A i \in 1 .. Len(v.pending) : v.pending[i] \in Nat
      BY <1>1
    <3>2. front \in Seq(Nat)
      BY <1>1, <2>1, <3>1
    <3>3. back \in Seq(Nat)
      BY <1>1, <2>1, <3>1
    <3>4. out = Len(v.pending) => Len(back) = 0
      BY <1>1, <2>1
    <3> QED BY <1>1, <2>1, <3>2, <3>3, <3>4, EmptySeq
  <2>3. Items(front) \subseteq Items(v.pending) /\ Items(back) \subseteq Items(v.pending)
    <3>1. \A i \in 1 .. Len(front) : i \in 1 .. Len(v.pending) /\ front[i] = v.pending[i]
      BY <1>1, <2>1
    <3>2. \A i \in 1 .. Len(back) : i + out \in 1 .. Len(v.pending) /\ back[i] = v.pending[i + out]
      BY <1>1, <2>1
    <3>3. \A x : /\ x \in Items(front) <=> \E i \in 1 .. Len(front) : front[i] = x
                 /\ x \in Items(back) <=> \E i \in 1 .. Len(back) : back[i] = x
                 /\ x \in Items(v.pending) <=> \E i \in 1 .. Len(v.pending) : v.pending[i] = x
      BY <1>1, <2>2, ItemIs
    <3> HIDE DEF front, back
    <3> QED BY <3>1, <3>2, <3>3
  <2> HIDE DEF front, back
  <2>4. v.content \o front \in Seq(Nat) /\ Items(v.content \o front) = Items(v.content) \cup Items(front)
    BY <1>1, <2>2, ConcatProperties, ItemsConcat
  <2>5. /\ View(b) /\ SameTools(b, v) /\ b.rows = v.rows /\ b.made = v.made /\ b.active = v.active
        /\ b.tasks = v.tasks /\ b.parked = v.parked /\ b.content = v.content \o front
        /\ b.pending = back /\ b.ticking = (out < Len(v.pending))
    BY <1>1, <2>2, <2>4 DEF View, SameTools
  <2> HIDE DEF b
  <2>6. ProseMoves(b, v, st)
    BY <1>1, <2>2, <2>3, <2>4, <2>5 DEF ProseMoves
  <2>7. ~\E c \in Calls : Expects(v, {}, st, c)
    BY <1>4 DEF Sound, Clear, HasTheFloor
  <2>8. Sound(b, {}, st, open)
    BY <1>1, <2>6, <2>7, ProseMoved
  <2>9. Sound(w, {}, st, open) /\ Onward(b, w, {})
    <3>1. w = Flush(b)
      BY <1>4
    <3> QED BY <1>1, <2>8, <3>1, FlushSound
  <2>10. Onward(v, b, {})
    BY <2>5 DEF Onward, SameTools
  <2> QED BY <2>9, <2>10, OnwardMore
<1> QED BY <1>2, <1>3, <1>4

-----------------------------------------------------------------------------
(* The end of the turn *)

LEMMA CancelSound ==
  ASSUME NEW v, NEW st, Sound(v, {}, st, FALSE), NEW w, w = CancelUnresolved(v)
  PROVE  /\ Sound(w, {}, st, FALSE) /\ SameProse(w, v) /\ SameTools(w, v)
         /\ w.made = v.made /\ w.tasks = v.tasks /\ w.parked = v.parked /\ Onward(v, w, {})
<1> DEFINE ids == {v.rowOf[c] : c \in v.unresolved}
           t == WithStatus(v.rows, ids, "cancelled")
<1>1. w = [v EXCEPT !.unresolved = {}, !.rows = t]
  BY DEF CancelUnresolved
<1>2. v.rows \in Tables /\ {} \in SUBSET Work
  BY DEF Sound, View
<1> HIDE DEF ids
<1>3. /\ t \in Tables /\ DOMAIN t = DOMAIN v.rows
      /\ \A id \in DOMAIN v.rows :
             /\ t[id].kind = v.rows[id].kind /\ t[id].call = v.rows[id].call
             /\ t[id].items = v.rows[id].items
             /\ t[id].status = IF id \in ids THEN "cancelled" ELSE v.rows[id].status
  BY <1>2, MarkedRows
<1> HIDE DEF t
<1>4. Repaints(t, v, st, FALSE)
  BY <1>3 DEF Repaints
<1>5. Sound(w, {}, st, FALSE) /\ Repainted(w, v, t)
  BY <1>1, <1>2, <1>4, Redrawn
<1> QED BY <1>5 DEF Repainted

\* Rows of other kinds go, and what led to them.
Cleared(w, v, ids) ==
    /\ View(w) /\ SameTools(w, v) /\ w.parked = v.parked /\ w.made = v.made
    /\ w.rows = [id \in DOMAIN v.rows \ ids |-> v.rows[id]]
    /\ \A id \in DOMAIN v.rows \cap ids : v.rows[id].kind # "tool"
    /\ w.active = Nil \/ (w.active = v.active /\ v.active \notin ids)
    /\ w.tasks = Nil
    /\ w.content = v.content \/ w.content = <<>>
    /\ w.pending = <<>> \/ (w.pending = v.pending /\ w.ticking = v.ticking)

LEMMA RowsRemoved ==
  ASSUME NEW v, NEW st, Sound(v, {}, st, FALSE), NEW ids, NEW w, Cleared(w, v, ids)
  PROVE  Sound(w, {}, st, FALSE) /\ Onward(v, w, {})
<1> USE DEF Nil
<1>1. View(v) /\ Wired(v) /\ Timed(v) /\ View(w)
  BY DEF Sound, Cleared
<1>2. /\ SameTools(w, v) /\ w.parked = v.parked /\ w.made = v.made
      /\ w.active = 0 \/ (w.active = v.active /\ v.active \notin ids)
      /\ w.tasks = 0
      /\ w.content = v.content \/ w.content = <<>>
      /\ w.pending = <<>> \/ (w.pending = v.pending /\ w.ticking = v.ticking)
  BY DEF Cleared
<1>3. /\ DOMAIN w.rows = DOMAIN v.rows \ ids
      /\ \A id \in DOMAIN w.rows : w.rows[id] = v.rows[id]
      /\ \A id \in DOMAIN v.rows : v.rows[id].kind = "tool" => id \in DOMAIN w.rows
  BY DEF Cleared
<1>4. \A c \in Calls : v.rowOf[c] # 0 =>
        /\ v.rowOf[c] \in DOMAIN w.rows /\ w.rows[v.rowOf[c]] = v.rows[v.rowOf[c]]
        /\ v.rowOf[c] \in DOMAIN v.rows
        /\ v.rows[v.rowOf[c]].kind = "tool" /\ v.rows[v.rowOf[c]].call = c
  BY <1>1, <1>3 DEF Wired
<1>5. Wired(w)
  <2>1. w.active # 0 => w.active \in DOMAIN w.rows /\ w.rows[w.active].kind = "prose"
    BY <1>1, <1>2, <1>3 DEF Wired
  <2>2. DOMAIN w.rows \subseteq 1 .. w.made
    BY <1>1, <1>2, <1>3 DEF Wired
  <2> QED BY <1>2, <1>4, <2>1, <2>2 DEF Wired, SameTools
<1>6. Queued(w) = Queued(v)
  BY <1>2 DEF Queued, SameTools
<1>7. Timed(w)
  BY <1>1, <1>2, <1>6 DEF Timed, InFlight, SameTools
<1>8. Known(w, st) /\ Announced(w, {}, st)
  BY <1>2 DEF Sound, Known, Announced, SameTools
<1>9. Lined(w, {}, st)
  BY <1>2 DEF Sound, Lined, Due, SameTools
<1>10. \A id : Below(w, id) \subseteq Below(v, id)
  BY <1>3 DEF Below
<1>11. Clear(w, {}, st)
  <2> SUFFICES ASSUME NEW c \in Calls, Expects(w, {}, st, c) PROVE HasTheFloor(w, {}, c)
    BY DEF Clear
  <2>1. HasTheFloor(v, {}, c)
    BY <1>2 DEF Sound, Clear, Expects, SameTools
  <2>2. Below(w, w.rowOf[c]) = {}
    BY <1>2, <1>10, <2>1 DEF SameTools, HasTheFloor
  <2> QED BY <1>2, <2>1, <2>2 DEF HasTheFloor
<1>12. Under(w)
  <2> SUFFICES ASSUME NEW c \in Queued(v), NEW r \in Below(w, v.rowOf[c])
               PROVE  HasOutput(Items(v.parked), w.rows[r].call)
    BY <1>2, <1>6 DEF Under, SameTools
  <2>1. r \in Below(v, v.rowOf[c]) /\ w.rows[r] = v.rows[r]
    BY <1>3, <1>10 DEF Below
  <2> QED BY <2>1 DEF Sound, Under
<1>13. OutputSaved(w, {}, st)
  <2>1. ASSUME NEW n \in st.put, OnScreen(v, n)
        PROVE  OnScreen(w, n)
    <3>1. PICK id \in DOMAIN v.rows : n \in Items(v.rows[id].items)
      BY <2>1 DEF OnScreen
    <3>2. v.rows[id].kind = "tool"
      BY <3>1 DEF Sound, OutputSaved
    <3> QED BY <1>3, <3>1, <3>2 DEF OnScreen
  <2>2. \A n : InQueue(w, n) <=> InQueue(v, n)
    BY <1>2 DEF InQueue, SameTools
  <2>3. \A id \in DOMAIN w.rows : \A n \in Items(w.rows[id].items) :
          n \in 0 .. st.clock /\ (n \in st.put => w.rows[id].kind = "tool")
    BY <1>3 DEF Sound, OutputSaved
  <2>4. Items(w.content) \cup Items(w.pending) \subseteq (0 .. st.clock) \ st.put
    BY <1>2, ItemsEmpty DEF Sound, OutputSaved
  <2>5. \A c \in Calls : w.rowOf[c] # 0 =>
          Items(w.rows[w.rowOf[c]].items) \cap st.put \subseteq Items(w.kept[c])
    <3>1. \A c \in Calls : v.rowOf[c] # 0 =>
            Items(v.rows[v.rowOf[c]].items) \cap st.put \subseteq Items(v.kept[c])
      BY DEF Sound, OutputSaved
    <3> QED BY <1>2, <1>4, <3>1 DEF SameTools
  <2>6. \A n \in st.put : OnScreen(w, n) \/ InQueue(w, n) \/ Waits(Items(w.parked) \cup {}, n)
    BY <1>2, <2>1, <2>2 DEF Sound, OutputSaved
  <2> QED BY <1>2, <2>3, <2>4, <2>5, <2>6 DEF Sound, OutputSaved, SameTools
<1>14. Onward(v, w, {})
  BY <1>2, <1>3 DEF Onward, SameTools
<1> QED BY <1>1, <1>5, <1>7, <1>8, <1>9, <1>11, <1>12, <1>13, <1>14 DEF Sound

LEMMA LessRows ==
  ASSUME NEW rows \in Tables, NEW ids, NEW t, t = [id \in DOMAIN rows \ ids |-> rows[id]]
  PROVE  t \in Tables
<1>1. DOMAIN rows \in SUBSET Nat /\ \A x \in DOMAIN rows : rows[x] \in Row
  BY TableHas
<1>2. DOMAIN rows \ ids \in SUBSET Nat /\ \A x \in DOMAIN rows \ ids : t[x] \in Row
  BY <1>1
<1>3. t = [x \in DOMAIN rows \ ids |-> t[x]]
  OBVIOUS
<1> QED BY <1>2, <1>3, TableIs

LEMMA FinalizedSound ==
  ASSUME NEW v, NEW st, Stream(st), Sound(v, {}, st, TRUE), NEW w, w = Finalized(v)
  PROVE  Sound(w, {}, st, FALSE) /\ Onward(v, w, Queued(v) \cup Outputs(Items(v.parked)))
<1> DEFINE X == Queued(v) \cup Outputs(Items(v.parked))
           d == Drain(v)
           s == Seal(d)
           c == CancelUnresolved(s)
           t == [id \in DOMAIN c.rows \ {c.tasks} |-> c.rows[id]]
<1> USE DEF Nil
<1>1. Sound(v, {}, st, FALSE) /\ {} \in SUBSET Work
  BY DEF Sound
<1>2. Sound(d, {}, st, FALSE) /\ Onward(v, d, X)
  BY <1>1, DrainSound
<1> HIDE DEF d
<1>3. Sound(s, {}, st, FALSE) /\ s.active = 0 /\ Onward(d, s, {})
  BY <1>1, <1>2, SealSound
<1> HIDE DEF s
<1>4. Sound(c, {}, st, FALSE) /\ c.active = 0 /\ Onward(s, c, {})
  BY <1>3, CancelSound DEF SameProse
<1>5. w = [c EXCEPT !.rows = t, !.tasks = 0]
  BY <1>4 DEF Finalized, Without, d, s
<1> HIDE DEF c
<1>6. View(c) /\ Wired(c) /\ c.rows \in Tables
  BY <1>4 DEF Sound, View
<1>7. t \in Tables
  BY <1>6, LessRows
<1>8. \A id \in DOMAIN c.rows \cap {c.tasks} : c.rows[id].kind # "tool"
  <2>1. \A id \in DOMAIN c.rows : id # 0
    BY <1>6 DEF Wired
  <2> QED BY <1>6, <2>1 DEF Wired
<1>9. Cleared(w, c, {c.tasks})
  <2>1. w.rows = t
    BY <1>5, <1>6 DEF View
  <2> HIDE DEF t
  <2>2. /\ View(w) /\ SameTools(w, c) /\ w.parked = c.parked /\ w.made = c.made
        /\ w.active = c.active /\ w.tasks = 0 /\ w.content = c.content
        /\ w.pending = c.pending /\ w.ticking = c.ticking
    BY <1>5, <1>6, <1>7 DEF View, SameTools
  <2> QED BY <1>4, <1>8, <2>1, <2>2 DEF Cleared, t
<1>10. Sound(w, {}, st, FALSE) /\ Onward(c, w, {})
  BY <1>4, <1>9, RowsRemoved
<1> HIDE DEF X
<1>11. Onward(v, s, X \cup {})
  BY <1>2, <1>3, OnwardTwice
<1>12. Onward(s, w, {})
  BY <1>4, <1>10, OnwardMore
<1>13. Onward(v, w, (X \cup {}) \cup {})
  BY <1>11, <1>12, OnwardTwice
<1> QED BY <1>10, <1>13 DEF X

LEMMA DisposedSound ==
  ASSUME NEW v, NEW st, Stream(st), Sound(v, {}, st, TRUE), NEW w, w = Disposed(v)
  PROVE  Sound(w, {}, st, FALSE) /\ Onward(v, w, Queued(v) \cup Outputs(Items(v.parked)))
<1> DEFINE X == Queued(v) \cup Outputs(Items(v.parked))
           d == Drain(v)
           e == CancelUnresolved(d)
           c == [e EXCEPT !.ticking = FALSE]
           ids == {id \in DOMAIN c.rows : c.rows[id].kind = "prose"} \cup {c.tasks}
           t == [id \in DOMAIN c.rows \ ids |-> c.rows[id]]
<1> USE DEF Nil
<1>1. Sound(v, {}, st, FALSE) /\ {} \in SUBSET Work
  BY DEF Sound
<1>2. Sound(d, {}, st, FALSE) /\ Onward(v, d, X)
  BY <1>1, DrainSound
<1> HIDE DEF d
<1>3. Sound(e, {}, st, FALSE) /\ Onward(d, e, {})
  BY <1>2, CancelSound
<1>4. w = [c EXCEPT !.rows = t, !.tasks = 0, !.active = 0, !.content = <<>>, !.pending = <<>>]
  <2>1. w = [Without(c, ids) EXCEPT !.tasks = 0, !.active = 0, !.content = <<>>, !.pending = <<>>]
    BY DEF Disposed, d
  <2> HIDE DEF c, ids
  <2> QED BY <2>1 DEF Without
<1> HIDE DEF e
<1>5. View(e) /\ Wired(e) /\ e.rows \in Tables
  BY <1>3 DEF Sound, View
<1>6. /\ c.rows = e.rows /\ c.tasks = e.tasks /\ SameTools(c, e) /\ c.parked = e.parked
      /\ c.made = e.made /\ DOMAIN c = DOMAIN e /\ View(c)
  BY <1>5 DEF View, SameTools
<1> HIDE DEF c
<1>7. t \in Tables
  BY <1>5, <1>6, LessRows
<1>8. \A id \in DOMAIN e.rows \cap ids : e.rows[id].kind # "tool"
  <2>1. \A id \in DOMAIN e.rows : id # 0
    BY <1>5 DEF Wired
  <2> QED BY <1>5, <1>6, <2>1 DEF Wired
<1>9. Cleared(w, e, ids)
  <2>1. w.rows = t /\ t = [id \in DOMAIN e.rows \ ids |-> e.rows[id]]
    BY <1>4, <1>6 DEF View
  <2> HIDE DEF t, ids
  <2>2. <<>> \in Seq(Nat)
    BY EmptySeq
  <2>3. /\ View(w) /\ SameTools(w, e) /\ w.parked = e.parked /\ w.made = e.made
        /\ w.active = 0 /\ w.tasks = 0 /\ w.content = <<>> /\ w.pending = <<>>
    BY <1>4, <1>6, <1>7, <2>2 DEF View, SameTools
  <2> QED BY <1>8, <2>1, <2>3 DEF Cleared
<1>10. Sound(w, {}, st, FALSE) /\ Onward(e, w, {})
  BY <1>3, <1>9, RowsRemoved
<1> HIDE DEF X
<1>11. Onward(v, e, X \cup {})
  BY <1>2, <1>3, OnwardTwice
<1>12. Onward(v, w, (X \cup {}) \cup {})
  BY <1>10, <1>11, OnwardTwice
<1> QED BY <1>10, <1>12 DEF X

-----------------------------------------------------------------------------
(* A call that leaves no row *)

Steady(v, w, X) ==
    \A id \in DOMAIN v.rows : v.rows[id].kind = "tool" /\ v.rows[id].call \notin X =>
        id \in DOMAIN w.rows /\ w.rows[id].items = v.rows[id].items

LEMMA OnwardSteady ==
  ASSUME NEW v, NEW w, NEW X, Onward(v, w, X)
  PROVE  Steady(v, w, X)
BY DEF Onward, Steady

LEMMA DropSound ==
  ASSUME NEW v, NEW st, Stream(st), NEW open \in BOOLEAN, Sound(v, {}, st, open),
         NEW c \in Calls, c < st.at, v.rowOf[c] = Nil, ~HasOutput(Items(v.parked), c),
         NEW w, w = DropCall(v, c)
  PROVE  Sound(w, {}, st, open) /\ Steady(v, w, {})
<1> USE DEF Nil
<1>1. View(v) /\ Wired(v) /\ Timed(v)
  BY DEF Sound
<1> DEFINE t == [id \in DOMAIN v.rows \ {0} |-> v.rows[id]]
<1>2. t = v.rows
  <2>1. \A id \in DOMAIN v.rows : id # 0
    BY <1>1 DEF Wired
  <2>2. v.rows = [id \in DOMAIN v.rows |-> v.rows[id]]
    <3>1. PICK D \in SUBSET Nat : v.rows \in [D -> Row]
      BY <1>1 DEF View, Tables
    <3> QED BY <3>1
  <2>3. DOMAIN v.rows \ {0} = DOMAIN v.rows
    BY <2>1
  <2> QED BY <2>2, <2>3
<1>3. c \notin Queued(v) /\ v.backlog[c] = <<>>
  BY <1>1 DEF Timed, Queued
<1>4. /\ w.rows = v.rows /\ w.made = v.made /\ w.tasks = v.tasks /\ w.parked = v.parked
      /\ SameProse(w, v) /\ w.revealing = v.revealing
      /\ w.dropped = v.dropped \cup {c} /\ w.paced = v.paced \ {c} /\ w.held = v.held \ {c}
      /\ w.unresolved = v.unresolved \ {c} /\ DOMAIN w = DOMAIN v
      /\ w.rowOf = [v.rowOf EXCEPT ![c] = 0] /\ w.kept = [v.kept EXCEPT ![c] = <<>>]
      /\ w.backlog = [v.backlog EXCEPT ![c] = <<>>]
  BY <1>1, <1>2 DEF DropCall, Without, View, SameProse
<1> HIDE DEF t
<1>5. w.rowOf = v.rowOf /\ w.backlog = v.backlog
  BY <1>1, <1>3, <1>4 DEF View
<1>6. /\ w.kept \in [Calls -> Seq(Nat)] /\ Items(w.kept[c]) = {}
      /\ \A d \in Calls : d # c => w.kept[d] = v.kept[d]
  <2>1. <<>> \in Seq(Nat)
    BY EmptySeq
  <2> QED BY <1>1, <1>4, <2>1, ItemsEmpty DEF View
<1>7. View(w)
  BY <1>1, <1>4, <1>5, <1>6 DEF View, SameProse
<1>8. Wired(w)
  BY <1>1, <1>4, <1>5 DEF Wired, SameProse
<1>9. Queued(w) = Queued(v) /\ \A id : Below(w, id) = Below(v, id)
  BY <1>4, <1>5 DEF Queued, Below
<1>10. Timed(w)
  BY <1>1, <1>3, <1>4, <1>5, <1>9 DEF Timed, InFlight, SameProse
<1>11. Known(w, st)
  BY <1>4, <1>5 DEF Sound, Known
<1>12. Lined(w, {}, st)
  <2>1. \A u \in Items(w.parked) \cup {} : Due(u, w, st)
    BY <1>4 DEF Sound, Lined, Due, HasOutput
  <2> QED BY <1>4, <1>5, <2>1 DEF Sound, Lined
<1>13. Clear(w, {}, st)
  <2> SUFFICES ASSUME NEW d \in Calls, Expects(w, {}, st, d) PROVE HasTheFloor(w, {}, d)
    BY DEF Clear
  <2>1. HasTheFloor(v, {}, d)
    BY <1>5 DEF Sound, Clear, Expects
  <2> QED BY <1>4, <1>5, <1>9, <2>1 DEF HasTheFloor, SameProse
<1>14. Announced(w, {}, st)
  BY <1>4, <1>5 DEF Sound, Announced
<1>15. Under(w)
  BY <1>4, <1>5, <1>9 DEF Sound, Under, Below
<1>16. OutputSaved(w, {}, st)
  <2>1. \A n : (OnScreen(w, n) <=> OnScreen(v, n)) /\ (InQueue(w, n) <=> InQueue(v, n))
    BY <1>4, <1>5 DEF OnScreen, InQueue
  <2>2. \A d \in Calls : Items(w.kept[d]) \cup Items(w.backlog[d]) \subseteq 0 .. st.clock
    BY <1>5, <1>6 DEF Sound, OutputSaved
  <2>3. \A d \in Calls : w.rowOf[d] # 0 =>
          Items(w.rows[w.rowOf[d]].items) \cap st.put \subseteq Items(w.kept[d])
    BY <1>4, <1>5, <1>6 DEF Sound, OutputSaved
  <2>4. \A n \in st.put : OnScreen(w, n) \/ InQueue(w, n) \/ Waits(Items(w.parked) \cup {}, n)
    BY <1>4, <2>1 DEF Sound, OutputSaved
  <2> QED BY <1>4, <2>2, <2>3, <2>4 DEF Sound, OutputSaved, SameProse
<1>17. open => Settled(w, {}, st) /\ Marked(w)
  BY <1>3, <1>4, <1>5, <1>9 DEF Sound, Settled, Marked
<1>18. Steady(v, w, {})
  BY <1>4 DEF Steady
<1> QED BY <1>7, <1>8, <1>10, <1>11, <1>12, <1>13, <1>14, <1>15, <1>16, <1>17, <1>18 DEF Sound

-----------------------------------------------------------------------------
(* The stream moves, and then a handler runs *)

\* Nothing comes of a tool, and no call ends.
Calm(st, s2) ==
    /\ s2.at = st.at /\ s2.put = st.put /\ Heard(s2) = Heard(st) /\ st.clock <= s2.clock
    /\ \A c \in Heard(st) : s2.calls[c] = st.calls[c]

LEMMA CalmSound ==
  ASSUME NEW v, NEW st, Stream(st), NEW open \in BOOLEAN, Sound(v, {}, st, open),
         NEW s2, Stream(s2), Calm(st, s2)
  PROVE  Sound(v, {}, s2, open)
<1>0. View(v) /\ Wired(v) /\ Timed(v) /\ Under(v)
  BY DEF Sound
<1>1. /\ s2.at = st.at /\ s2.put = st.put /\ Heard(s2) = Heard(st)
      /\ \A c \in Heard(st) : Edit(s2, c) <=> Edit(st, c)
  BY DEF Calm, Edit
<1>2. \A n : n \in 0 .. st.clock => n \in 0 .. s2.clock
  BY DEF Calm, Stream
<1>3. \A c \in Calls : v.rowOf[c] # Nil => c \in Heard(st)
  BY DEF Sound, Known
<1>4. Known(v, s2)
  BY <1>1 DEF Sound, Known
<1>5. Lined(v, {}, s2)
  <2>1. \A u \in Items(v.parked) : u.item <= s2.clock
    <3>1. \A u \in Items(v.parked) : u \in Work
      BY <1>0, ItemsType DEF View
    <3>2. \A u \in Items(v.parked) : u.item <= st.clock /\ u.item \in Nat
      <4> TAKE u \in Items(v.parked)
      <4>1. u.item <= st.clock
        BY DEF Sound, Lined, Due
      <4>2. u.item \in Nat
        BY <3>1, WorkIs, WorkTypes
      <4> QED BY <4>1, <4>2
    <3> QED BY <3>2 DEF Calm, Stream
  <2>2. \A u \in Items(v.parked) \cup {} : Due(u, v, s2)
    BY <1>1, <2>1 DEF Sound, Lined, Due
  <2>3. \A c \in Calls : v.rowOf[c] # Nil /\ Edit(s2, c) => ~HasOutput(Items(v.parked), c)
    BY <1>1, <1>3 DEF Sound, Lined
  <2>4. \A c \in v.paced : c \in Heard(s2) /\ Edit(s2, c)
    BY <1>1 DEF Sound, Lined
  <2> QED BY <2>2, <2>3, <2>4 DEF Sound, Lined
<1>6. Clear(v, {}, s2)
  BY <1>1, <1>3 DEF Sound, Clear, Expects
<1>7. Announced(v, {}, s2)
  BY <1>1 DEF Sound, Announced
<1>8. OutputSaved(v, {}, s2)
  BY <1>1, <1>2 DEF Sound, OutputSaved
<1>9. open => Settled(v, {}, s2) /\ Marked(v)
  BY <1>1, <1>3 DEF Sound, Settled
<1> QED BY <1>0, <1>4, <1>5, <1>6, <1>7, <1>8, <1>9 DEF Sound

\* Output of the running call comes, and is to be handled.
Sends(st, s2) ==
    /\ s2.at = st.at /\ s2.calls = st.calls /\ s2.sent > 0 /\ s2.clock = st.clock + 1
    /\ s2.put = st.put \cup {s2.clock}

LEMMA SentSound ==
  ASSUME NEW v, NEW st, Stream(st), NEW open \in BOOLEAN, Sound(v, {}, st, open),
         NEW s2, Stream(s2), Sends(st, s2),
         NEW u \in Work, u.do = "output", u.call = st.at, u.item = s2.clock,
         u.edit => Edit(st, st.at), st.at \in Calls
  PROVE  Sound(v, {u}, s2, open)
<1> USE DEF Nil
<1>0. View(v) /\ Wired(v) /\ Timed(v) /\ Under(v)
  BY DEF Sound
<1>1. /\ s2.at = st.at /\ s2.calls = st.calls /\ s2.clock = st.clock + 1
      /\ s2.put = st.put \cup {s2.clock} /\ st.clock \in Nat /\ st.at \in Nat
      /\ \A c : Edit(s2, c) <=> Edit(st, c)
  BY DEF Sends, Stream, Edit
<1>2. st.at \in Heard(s2) /\ \A c \in Heard(st) : c \in Heard(s2)
  BY DEF Sends, Heard
<1>3. \A c \in Heard(st) : c \in Nat /\ c <= st.at
  BY <1>1 DEF Heard, Calls
<1>4. \A n : n \in 0 .. st.clock => n \in 0 .. s2.clock /\ n # s2.clock
  BY <1>1
<1>5. Known(v, s2)
  BY <1>1, <1>2 DEF Sound, Known
<1>6. \A c \in v.dropped : c # st.at
  <2>1. \A c \in v.dropped : c < st.at
    BY DEF Sound, Known
  <2> QED BY <1>1, <2>1
<1>7. Lined(v, {u}, s2)
  <2>1. \A x \in Items(v.parked) : x.item <= s2.clock
    <3>1. \A x \in Items(v.parked) : x \in Work
      BY <1>0, ItemsType DEF View
    <3>2. \A x \in Items(v.parked) : x.item <= st.clock /\ x.item \in Nat
      <4> TAKE x \in Items(v.parked)
      <4>1. x.item <= st.clock
        BY DEF Sound, Lined, Due
      <4>2. x.item \in Nat
        BY <3>1, WorkIs, WorkTypes
      <4> QED BY <4>1, <4>2
    <3> QED BY <1>1, <3>2
  <2>2. \A x \in Items(v.parked) : Due(x, v, s2)
    BY <1>1, <1>2, <2>1 DEF Sound, Lined, Due
  <2>3. Due(u, v, s2)
    <3>1. u.item <= s2.clock
      BY <1>1
    <3> QED BY <1>1, <1>2, <1>6, <3>1 DEF Due
  <2>4. \A a \in Items(v.parked) : Before(a, u)
    BY <1>3 DEF Sound, Lined, Due, Before
  <2>5. /\ \A c \in Calls : v.rowOf[c] # 0 /\ Edit(s2, c) => ~HasOutput(Items(v.parked), c)
        /\ \A c \in v.paced : c \in Heard(s2) /\ Edit(s2, c)
    BY <1>1, <1>2 DEF Sound, Lined
  <2> QED BY <2>2, <2>3, <2>4, <2>5 DEF Sound, Lined
<1>8. Clear(v, {u}, s2)
  <2> SUFFICES ASSUME NEW c \in Calls, Expects(v, {u}, s2, c) PROVE HasTheFloor(v, {u}, c)
    BY DEF Clear
  <2>1. c = st.at /\ v.rowOf[c] # 0 /\ Edit(st, c)
    BY <1>1 DEF Expects, HasOutput
  <2>2. HasTheFloor(v, {}, c)
    BY <2>1 DEF Sound, Clear, Expects
  <2>3. c <= u.call
    BY <1>1, <2>1
  <2> QED BY <2>2, <2>3 DEF HasTheFloor
<1>9. Announced(v, {u}, s2)
  BY <1>1 DEF Announced, HasOutput
<1>10. OutputSaved(v, {u}, s2)
  <2>1. Waits(Items(v.parked) \cup {u}, s2.clock)
    BY DEF Waits
  <2>2. \A n : Waits(Items(v.parked) \cup {}, n) => Waits(Items(v.parked) \cup {u}, n)
    BY DEF Waits
  <2>3. \A n \in s2.put : OnScreen(v, n) \/ InQueue(v, n) \/ Waits(Items(v.parked) \cup {u}, n)
    BY <1>1, <2>1, <2>2 DEF Sound, OutputSaved
  <2>4. s2.put \subseteq 0 .. s2.clock
    <3>1. s2.clock \in 0 .. s2.clock
      BY <1>1
    <3> QED BY <1>1, <1>4, <3>1 DEF Sound, OutputSaved
  <2>5. Items(v.content) \cup Items(v.pending) \subseteq (0 .. s2.clock) \ s2.put
    BY <1>1, <1>4 DEF Sound, OutputSaved
  <2>6. \A id \in DOMAIN v.rows : \A n \in Items(v.rows[id].items) :
          n \in 0 .. st.clock /\ (n \in st.put => v.rows[id].kind = "tool")
    BY DEF Sound, OutputSaved
  <2>7. \A id \in DOMAIN v.rows : \A n \in Items(v.rows[id].items) :
          n \in 0 .. s2.clock /\ (n \in s2.put => v.rows[id].kind = "tool")
    BY <1>1, <1>4, <2>6
  <2>8. \A c \in Calls : Items(v.kept[c]) \cup Items(v.backlog[c]) \subseteq 0 .. s2.clock
    BY <1>4 DEF Sound, OutputSaved
  <2>9. \A c \in Calls : v.rowOf[c] # 0 =>
          Items(v.rows[v.rowOf[c]].items) \cap s2.put \subseteq Items(v.kept[c])
    <3>1. \A c \in Calls : v.rowOf[c] # 0 => v.rowOf[c] \in DOMAIN v.rows
      BY <1>0 DEF Wired
    <3>2. \A c \in Calls : v.rowOf[c] # 0 =>
            Items(v.rows[v.rowOf[c]].items) \cap st.put \subseteq Items(v.kept[c])
      BY DEF Sound, OutputSaved
    <3> QED BY <1>1, <1>4, <2>6, <3>1, <3>2
  <2> QED BY <2>3, <2>4, <2>5, <2>7, <2>8, <2>9 DEF OutputSaved
<1>11. open => Settled(v, {u}, s2) /\ Marked(v)
  <2> SUFFICES ASSUME open, NEW c \in Calls, v.rowOf[c] # 0, v.rows[v.rowOf[c]].status # "active"
               PROVE  /\ c \in Queued(v) => c \in v.held
                      /\ c < s2.at
                      /\ Edit(s2, c) => ~HasOutput({u}, c)
    BY DEF Sound, Settled
  <2>1. (c \in Queued(v) => c \in v.held) /\ c < st.at
    BY DEF Sound, Settled
  <2>2. c # u.call
    BY <1>1, <2>1
  <2> QED BY <1>1, <2>1, <2>2 DEF HasOutput
<1> QED BY <1>0, <1>5, <1>7, <1>8, <1>9, <1>10, <1>11 DEF Sound

\* The running call ends.
Answers(st, s2) ==
    /\ s2.at = st.at + 1 /\ s2.calls = st.calls /\ s2.sent = 0 /\ st.clock <= s2.clock
    /\ s2.put = st.put

LEMMA AnsweredSound ==
  ASSUME NEW v, NEW st, Stream(st), NEW open \in BOOLEAN, Sound(v, {}, st, open),
         NEW s2, Stream(s2), Answers(st, s2), NEW rest \in SUBSET Work,
         \A u \in rest : u.do = "result" /\ u.call = st.at /\ u.outcome # "none" /\ u.item = 0,
         st.at \in Calls
  PROVE  Sound(v, rest, s2, open)
<1> USE DEF Nil
<1>0. View(v) /\ Wired(v) /\ Timed(v) /\ Under(v)
  BY DEF Sound
<1>1. /\ s2.at = st.at + 1 /\ s2.put = st.put /\ st.clock \in Nat /\ s2.clock \in Nat
      /\ st.clock <= s2.clock /\ st.at \in Nat /\ s2.sent = 0
      /\ \A c : Edit(s2, c) <=> Edit(st, c)
  BY DEF Answers, Stream, Edit
<1>2. /\ \A c \in Heard(st) : c \in Nat /\ c <= st.at /\ c # s2.at /\ c \in Heard(s2)
      /\ s2.at \notin Heard(s2) /\ \A c \in Calls : c < st.at => c < s2.at
  BY <1>1 DEF Heard, Calls
<1>3. \A n : n \in 0 .. st.clock => n \in 0 .. s2.clock
  BY <1>1
<1>4. \A c : ~HasOutput(rest, c)
  BY DEF HasOutput
<1>5. Known(v, s2)
  <2>1. \A c \in v.dropped : c < st.at /\ c \in Calls
    BY <1>0 DEF Sound, Known, View
  <2>2. \A c \in Calls : v.rowOf[c] # 0 => c \in Heard(st) /\ c \notin v.dropped
    BY DEF Sound, Known
  <2> QED BY <1>2, <2>1, <2>2 DEF Known
<1>6. \A c \in Calls : v.rowOf[c] # 0 => c \in Heard(st)
  BY DEF Sound, Known
<1>7. Lined(v, rest, s2)
  <2>1. \A x \in Items(v.parked) : x.item <= s2.clock
    <3>1. \A x \in Items(v.parked) : x \in Work
      BY <1>0, ItemsType DEF View
    <3>2. \A x \in Items(v.parked) : x.item <= st.clock /\ x.item \in Nat
      <4> TAKE x \in Items(v.parked)
      <4>1. x.item <= st.clock
        BY DEF Sound, Lined, Due
      <4>2. x.item \in Nat
        BY <3>1, WorkIs, WorkTypes
      <4> QED BY <4>1, <4>2
    <3> QED BY <1>1, <3>2
  <2>2. \A x \in Items(v.parked) : Due(x, v, s2)
    BY <1>1, <1>2, <2>1 DEF Sound, Lined, Due
  <2>3. \A x \in rest : Due(x, v, s2)
    <3>1. st.at < s2.at /\ 0 <= s2.clock
      BY <1>1
    <3> QED BY <3>1 DEF Due
  <2>4. \A a \in Items(v.parked), b \in rest : Before(a, b)
    BY DEF Before
  <2>5. /\ \A c \in Calls : v.rowOf[c] # 0 /\ Edit(s2, c) => ~HasOutput(Items(v.parked), c)
        /\ \A c \in v.paced : c \in Heard(s2) /\ Edit(s2, c)
    BY <1>1, <1>2 DEF Sound, Lined
  <2> QED BY <2>2, <2>3, <2>4, <2>5 DEF Sound, Lined
<1>8. Clear(v, rest, s2)
  BY <1>2, <1>4, <1>6 DEF Clear, Expects
<1>9. Announced(v, rest, s2)
  BY <1>2 DEF Announced
<1>10. OutputSaved(v, rest, s2)
  <2>1. \A n : Waits(Items(v.parked) \cup {}, n) => Waits(Items(v.parked) \cup rest, n)
    BY DEF Waits
  <2> QED BY <1>1, <1>3, <2>1 DEF Sound, OutputSaved
<1>11. open => Settled(v, rest, s2) /\ Marked(v)
  BY <1>2, <1>4 DEF Sound, Settled
<1> QED BY <1>0, <1>5, <1>7, <1>8, <1>9, <1>10, <1>11 DEF Sound

-----------------------------------------------------------------------------
(* Steps *)

TranscriptInv ==
    Stream(stream) /\ Sound(view, {}, stream, phase = "open")
Moving == Queued(view) \cup Outputs(Items(view.parked)) \cup {stream.at}
Freezes == phase = "open" => Steady(view, view', Moving)

LEMMA InitIsSound ==
  ASSUME TranscriptInit
  PROVE  TranscriptInv
<1> USE DEF Nil
<1>1. MaxCalls \in Nat
  BY ConstantsAssumption
<1>2. Stream(stream)
  BY <1>1, EmptySeq DEF TranscriptInit, Stream
<1>3. View(view)
  <2>1. [id \in {} |-> 0] \in Tables
    <3>1. {} \in SUBSET Nat /\ [id \in {} |-> 0] \in [{} -> Row]
      OBVIOUS
    <3> QED BY <3>1 DEF Tables
  <2>2. <<>> \in Seq(Nat) /\ <<>> \in Seq(Work)
    BY EmptySeq
  <2> QED BY <2>1, <2>2 DEF TranscriptInit, View
<1>4. /\ DOMAIN view.rows = {} /\ view.made = 0 /\ view.active = 0 /\ view.tasks = 0
      /\ view.content = <<>> /\ view.pending = <<>> /\ view.parked = <<>>
      /\ view.revealing = FALSE /\ view.dropped = {} /\ view.paced = {} /\ view.held = {}
      /\ \A c \in Calls : view.rowOf[c] = 0 /\ view.kept[c] = <<>> /\ view.backlog[c] = <<>>
      /\ stream.put = {} /\ stream.sent = 0 /\ stream.at = 1 /\ stream.clock = 0
  BY DEF TranscriptInit
<1>5. Queued(view) = {} /\ Items(view.parked) = {} /\ Items(view.content) = {}
      /\ Items(view.pending) = {} /\ DOMAIN view.parked = {}
  BY <1>4, ItemsEmpty DEF Queued
<1>6. Wired(view) /\ Timed(view)
  BY <1>4, <1>5 DEF Wired, Timed, InFlight
<1>7. Known(view, stream) /\ Lined(view, {}, stream)
  BY <1>4, <1>5 DEF Known, Lined
<1>8. Clear(view, {}, stream) /\ Under(view)
  BY <1>4, <1>5 DEF Clear, Expects, Under
<1>9. Announced(view, {}, stream)
  BY <1>4 DEF Announced, Heard
<1>10. OutputSaved(view, {}, stream)
  BY <1>4, <1>5, ItemsEmpty DEF OutputSaved
<1>11. Settled(view, {}, stream) /\ Marked(view)
  BY <1>4 DEF Settled, Marked
<1> QED BY <1>2, <1>3, <1>6, <1>7, <1>8, <1>9, <1>10, <1>11 DEF Sound, TranscriptInv

\* What every event of the stream begins with.
LEMMA EventBegins ==
  ASSUME TranscriptInv, phase = "open"
  PROVE  /\ Stream(stream) /\ Sound(view, {}, stream, TRUE)
         /\ Now \in Nat /\ Now = stream.clock + 1 /\ stream.clock \in Nat
         /\ Now \notin stream.put /\ stream.clock <= Now
         /\ Running => stream.at \in Calls /\ stream.at \in Nat
<1>1. Stream(stream) /\ Sound(view, {}, stream, TRUE)
  BY DEF TranscriptInv
<1>2. Now \in Nat /\ Now = stream.clock + 1 /\ stream.clock \in Nat /\ stream.clock <= Now
  BY <1>1 DEF Stream, Now
<1>3. Now \notin stream.put
  <2>1. stream.put \subseteq 0 .. stream.clock
    BY <1>1 DEF Sound, OutputSaved
  <2> QED BY <1>2, <2>1
<1>4. Running => stream.at \in Calls /\ stream.at \in Nat
  BY <1>1, ConstantsAssumption DEF Running, Stream, Calls
<1> QED BY <1>1, <1>2, <1>3, <1>4

\* An event after which the turn goes on.
LEMMA EventEnds ==
  ASSUME phase = "open", phase' = phase, Stream(stream'), Sound(view', {}, stream', TRUE),
         NEW X, Onward(view, view', X), X \subseteq Moving
  PROVE  TranscriptInv' /\ Freezes
<1>1. (phase = "open")' = TRUE
  OBVIOUS
<1>2. TranscriptInv'
  BY <1>1 DEF TranscriptInv
<1>3. Steady(view, view', Moving)
  BY DEF Onward, Steady
<1> QED BY <1>2, <1>3 DEF Freezes

LEMMA TextDeltaSound ==
  ASSUME TranscriptInv, TextDelta
  PROVE  TranscriptInv' /\ Freezes
<1>1. phase = "open" /\ phase' = phase /\ view' = Delta(view, Now) /\ ~stream.busy
  BY DEF TextDelta, Received
<1>2. stream' = [stream EXCEPT !.said = @ \cup {Now}, !.block = TRUE, !.clock = Now]
  BY DEF TextDelta, Received
<1>3. /\ Stream(stream) /\ Sound(view, {}, stream, TRUE) /\ Now \in Nat /\ Now \notin stream.put
      /\ stream.clock <= Now
  BY <1>1, EventBegins
<1>4. /\ stream'.calls = stream.calls /\ stream'.at = stream.at /\ stream'.sent = stream.sent
      /\ stream'.put = stream.put /\ stream'.clock = Now /\ Stream(stream')
  BY <1>2, <1>3 DEF Stream
<1>5. Calm(stream, stream') /\ stream'.sent = 0
  BY <1>1, <1>3, <1>4 DEF Calm, Heard, Stream
<1>6. Sound(view, {}, stream', TRUE)
  BY <1>3, <1>4, <1>5, CalmSound
<1>7. Now \in (0 .. stream'.clock) \ stream'.put
  BY <1>3, <1>4
<1>8. Sound(view', {}, stream', TRUE) /\ Onward(view, view', {})
  BY <1>1, <1>4, <1>5, <1>6, <1>7, DeltaSound
<1> QED BY <1>1, <1>4, <1>8, EventEnds

LEMMA TextDoneSound ==
  ASSUME TranscriptInv, TextDone
  PROVE  TranscriptInv' /\ Freezes
<1>1. phase = "open" /\ phase' = phase /\ view' = TextEnd(view)
  BY DEF TextDone, Received
<1>2. stream' = [stream EXCEPT !.block = FALSE, !.clock = Now]
  BY DEF TextDone, Received
<1>3. Stream(stream) /\ Sound(view, {}, stream, TRUE) /\ Now \in Nat /\ stream.clock <= Now
  BY <1>1, EventBegins
<1>4. /\ stream'.calls = stream.calls /\ stream'.at = stream.at /\ stream'.sent = stream.sent
      /\ stream'.put = stream.put /\ stream'.clock = Now /\ Stream(stream')
  BY <1>2, <1>3 DEF Stream
<1>5. Calm(stream, stream')
  BY <1>3, <1>4 DEF Calm, Heard
<1>6. Sound(view, {}, stream', TRUE)
  BY <1>3, <1>4, <1>5, CalmSound
<1>7. Sound(view', {}, stream', TRUE) /\ Onward(view, view', {})
  BY <1>1, <1>4, <1>6, TextEndSound
<1> QED BY <1>1, <1>4, <1>7, EventEnds

LEMMA ToolCallSound ==
  ASSUME TranscriptInv, ToolCall
  PROVE  TranscriptInv' /\ Freezes
<1>1. phase = "open" /\ phase' = phase /\ view' = Seal(view) /\ Len(stream.calls) < MaxCalls
  BY DEF ToolCall, Received
<1>2. PICK k \in Kind : stream' = [stream EXCEPT !.calls = Append(@, k), !.clock = Now]
  BY DEF ToolCall, Received
<1>3. Stream(stream) /\ Sound(view, {}, stream, TRUE) /\ Now \in Nat /\ stream.clock <= Now
  BY <1>1, EventBegins
<1>4. /\ stream'.calls = Append(stream.calls, k) /\ stream'.at = stream.at
      /\ stream'.sent = stream.sent /\ stream'.busy = stream.busy
      /\ stream'.put = stream.put /\ stream'.clock = Now
      /\ DOMAIN stream' = DOMAIN stream
  BY <1>2, <1>3 DEF Stream
<1>5. /\ Append(stream.calls, k) \in Seq(Kind) /\ Len(stream.calls) \in Nat
      /\ Len(Append(stream.calls, k)) = Len(stream.calls) + 1
      /\ \A i \in 1 .. Len(stream.calls) : Append(stream.calls, k)[i] = stream.calls[i]
  BY <1>3 DEF Stream
<1>6. Stream(stream')
  BY <1>1, <1>3, <1>4, <1>5, ConstantsAssumption DEF Stream
<1>7. Calm(stream, stream')
  <2>1. \A c \in Heard(stream) : c \in 1 .. Len(stream.calls)
    BY <1>3, <1>5 DEF Heard, Stream, Calls
  <2> QED BY <1>3, <1>4, <1>5, <2>1 DEF Calm, Heard
<1>8. Sound(view, {}, stream', TRUE) /\ {} \in SUBSET Work
  BY <1>3, <1>6, <1>7, CalmSound
<1>9. Sound(view', {}, stream', TRUE) /\ Onward(view, view', {})
  BY <1>1, <1>6, <1>8, SealSound
<1> QED BY <1>1, <1>6, <1>9, EventEnds

\* A part of the running call's output.
LEMMA OutputSound ==
  ASSUME TranscriptInv, phase = "open", phase' = phase, Running,
         NEW n \in Nat \ {0}, NEW e \in BOOLEAN, e => Edit(stream, stream.at),
         view' = Enqueue(view, stream.at, Now, e), stream' = [Sent(n) EXCEPT !.clock = Now]
  PROVE  TranscriptInv' /\ Freezes
<1> DEFINE u == OutputLater(stream.at, Now, e)
<1>1. /\ Stream(stream) /\ Sound(view, {}, stream, TRUE) /\ Now \in Nat /\ stream.at \in Calls
      /\ Now = stream.clock + 1
  BY EventBegins
<1>2. stream' = [stream EXCEPT !.busy = TRUE, !.sent = n, !.put = @ \cup {Now}, !.clock = Now]
  BY DEF Sent
<1>3. /\ stream'.calls = stream.calls /\ stream'.at = stream.at /\ stream'.sent = n
      /\ stream'.put = stream.put \cup {Now} /\ stream'.clock = Now /\ stream'.busy = TRUE
      /\ DOMAIN stream' = DOMAIN stream
  BY <1>1, <1>2 DEF Stream
<1>4. Stream(stream')
  BY <1>1, <1>3 DEF Stream, Running
<1>5. Sends(stream, stream')
  BY <1>1, <1>3 DEF Sends
<1>6. u \in Work /\ u.do = "output" /\ u.call = stream.at /\ u.item = Now /\ u.edit = e
  BY <1>1, WorkTypes
<1> HIDE DEF u
<1>7. Sound(view, {u}, stream', TRUE)
  <2>1. u.item = stream'.clock
    BY <1>3, <1>6
  <2>2. u.edit => Edit(stream, stream.at)
    BY <1>6
  <2> QED BY <1>1, <1>4, <1>5, <1>6, <2>1, <2>2, SentSound
<1>8. Sound(view', {}, stream', TRUE) /\ Onward(view, view', {stream.at})
  <2>1. Sound(view, {u} \cup {}, stream', TRUE) /\ {} \in SUBSET Work /\ TRUE \in BOOLEAN
    BY <1>7
  <2>2. view' = Enqueue(view, u.call, u.item, u.edit)
    BY <1>6
  <2>3. Sound(view', {}, stream', TRUE) /\ Onward(view, view', {u.call})
    BY <1>4, <1>6, <2>1, <2>2, EnqueueSound
  <2> QED BY <1>6, <2>3
<1>9. {stream.at} \subseteq Moving
  BY DEF Moving
<1> QED BY <1>4, <1>8, <1>9, EventEnds

LEMMA LiveLineSound ==
  ASSUME TranscriptInv, LiveLine
  PROVE  TranscriptInv' /\ Freezes
<1>1. /\ phase = "open" /\ phase' = phase /\ view' = Live(view, stream.at, Now) /\ Running
      /\ stream.calls[stream.at] = "command" /\ stream.sent \in 1 .. MaxLive
  BY DEF LiveLine, Received, Kinds
<1>2. stream' = [stream EXCEPT !.sent = @ + 1, !.clock = Now]
  BY DEF LiveLine, Received
<1>3. /\ Stream(stream) /\ Sound(view, {}, stream, TRUE) /\ Now \in Nat /\ Now \notin stream.put
      /\ stream.clock <= Now /\ stream.at \in Calls
  BY <1>1, EventBegins
<1>4. /\ stream'.calls = stream.calls /\ stream'.at = stream.at /\ stream'.sent = stream.sent + 1
      /\ stream'.put = stream.put /\ stream'.clock = Now /\ stream'.busy = stream.busy
      /\ DOMAIN stream' = DOMAIN stream
  BY <1>2, <1>3 DEF Stream
<1>5. stream.sent > 0 /\ stream.sent + 1 > 0 /\ stream.sent + 1 \in Nat
  BY <1>1, <1>3 DEF Stream
<1>6. Stream(stream')
  BY <1>3, <1>4, <1>5 DEF Stream
<1>7. Calm(stream, stream')
  BY <1>3, <1>4, <1>5 DEF Calm, Heard
<1>8. Sound(view, {}, stream', TRUE)
  BY <1>3, <1>6, <1>7, CalmSound
<1>9. Waiting(stream')
  BY <1>1, <1>3, <1>4, <1>5 DEF Waiting, Heard, Edit
<1>10. Now \in 0 .. stream'.clock /\ Now \notin stream'.put
  BY <1>3, <1>4
<1>11. view' = Live(view, stream'.at, Now)
  BY <1>1, <1>4
<1>12. /\ Sound(view', {}, stream', TRUE)
       /\ Onward(view, view', Queued(view) \cup Outputs(Items(view.parked)) \cup {stream'.at})
  BY <1>6, <1>8, <1>9, <1>10, <1>11, LiveSound
<1>13. Queued(view) \cup Outputs(Items(view.parked)) \cup {stream'.at} \subseteq Moving
  BY <1>4 DEF Moving
<1> QED BY <1>1, <1>6, <1>12, <1>13, EventEnds

LEMMA ToolResultSound ==
  ASSUME TranscriptInv, ToolResult
  PROVE  TranscriptInv' /\ Freezes
<1>1. phase = "open" /\ phase' = phase /\ Running /\ stream' = [Answered EXCEPT !.clock = Now]
  BY DEF ToolResult, Received
<1>2. stream' = [stream EXCEPT !.sent = 0, !.at = @ + 1, !.busy = stream.at < Len(stream.calls),
                               !.clock = Now]
  BY <1>1 DEF Answered
<1>3. /\ Stream(stream) /\ Sound(view, {}, stream, TRUE) /\ Now \in Nat /\ stream.clock <= Now
      /\ stream.at \in Calls /\ stream.at \in Nat
  BY <1>1, EventBegins
<1>4. /\ stream'.calls = stream.calls /\ stream'.at = stream.at + 1 /\ stream'.sent = 0
      /\ stream'.put = stream.put /\ stream'.clock = Now
      /\ stream'.busy = (stream.at < Len(stream.calls)) /\ DOMAIN stream' = DOMAIN stream
  BY <1>2, <1>3 DEF Stream
<1>5. Stream(stream')
  <2>1. stream.at <= Len(stream.calls) /\ Len(stream.calls) \in Nat
    BY <1>1, <1>3 DEF Running, Stream
  <2>2. stream'.at \in Nat \ {0} /\ stream'.at <= Len(stream.calls) + 1
    BY <1>3, <1>4, <2>1
  <2>3. stream'.busy \in BOOLEAN
    BY <1>4
  <2> QED BY <1>3, <1>4, <2>2, <2>3 DEF Stream
<1>6. Answers(stream, stream')
  BY <1>3, <1>4 DEF Answers
<1>7. CASE \E o \in {"success", "error"} : view' = Result(view, stream.at, o)
  <2>1. PICK o \in {"success", "error"} : view' = Result(view, stream.at, o)
    BY <1>7
  <2> DEFINE u == ResultLater(stream.at, o)
  <2>2. u \in Work /\ u.do = "result" /\ u.call = stream.at /\ u.outcome = o /\ u.item = 0
    BY <1>3, WorkTypes
  <2> HIDE DEF u
  <2>3. {u} \in SUBSET Work /\ \A x \in {u} :
           x.do = "result" /\ x.call = stream.at /\ x.outcome # "none" /\ x.item = 0
    BY <2>2
  <2>4. Sound(view, {u}, stream', TRUE)
    BY <1>3, <1>5, <1>6, <2>3, AnsweredSound
  <2>5. Sound(view, {u} \cup {}, stream', TRUE) /\ {} \in SUBSET Work /\ TRUE \in BOOLEAN
    BY <2>4
  <2>6. view' = Result(view, u.call, u.outcome)
    BY <2>1, <2>2
  <2>7. Sound(view', {}, stream', TRUE) /\ Onward(view, view', {})
    BY <1>5, <2>2, <2>5, <2>6, ResultSound
  <2> QED BY <1>1, <1>5, <2>7, EventEnds
<1>8. CASE stream.sent = 0 /\ view' = DropCall(view, stream.at)
  <2>1. Sound(view, {}, stream', TRUE)
    BY <1>3, <1>5, <1>6, AnsweredSound
  <2>2. stream.at \notin Heard(stream)
    BY <1>3, <1>8 DEF Heard
  <2>3. view.rowOf[stream.at] = Nil
    BY <1>3, <2>2 DEF Sound, Known
  <2>4. ~HasOutput(Items(view.parked), stream.at)
    BY <1>3, <2>2 DEF Sound, Lined, Due, HasOutput
  <2>5. stream.at < stream'.at
    BY <1>3, <1>4
  <2>6. Sound(view', {}, stream', TRUE) /\ Steady(view, view', {})
    BY <1>3, <1>5, <1>8, <2>1, <2>3, <2>4, <2>5, DropSound
  <2>7. (phase = "open")' = TRUE
    BY <1>1
  <2>8. TranscriptInv'
    BY <1>5, <2>6, <2>7 DEF TranscriptInv
  <2> QED BY <2>6, <2>8 DEF Freezes, Steady
<1> QED BY <1>7, <1>8 DEF ToolResult, Received

\* An effect, a task list or a notice.
LEMMA AsideMoves ==
  ASSUME TranscriptInv, NEW v, Aside(v)
  PROVE  /\ phase = "open" /\ phase' = phase /\ view' = v
         /\ Stream(stream') /\ Sound(view, {}, stream', TRUE)
         /\ Now \in (0 .. stream'.clock) \ stream'.put
<1>1. phase = "open" /\ phase' = phase /\ view' = v
  BY DEF Aside, Received
<1>2. stream' = [stream EXCEPT !.asides = @ + 1, !.clock = Now]
  BY DEF Aside, Received
<1>3. /\ Stream(stream) /\ Sound(view, {}, stream, TRUE) /\ Now \in Nat /\ stream.clock <= Now
      /\ Now \notin stream.put
  BY <1>1, EventBegins
<1>4. /\ stream'.calls = stream.calls /\ stream'.at = stream.at /\ stream'.sent = stream.sent
      /\ stream'.put = stream.put /\ stream'.clock = Now /\ Stream(stream')
  BY <1>2, <1>3 DEF Stream
<1>5. Calm(stream, stream')
  BY <1>3, <1>4 DEF Calm, Heard
<1>6. Sound(view, {}, stream', TRUE)
  BY <1>3, <1>4, <1>5, CalmSound
<1>7. Now \in (0 .. stream'.clock) \ stream'.put
  BY <1>3, <1>4
<1> QED BY <1>1, <1>4, <1>6, <1>7

LEMMA AsideSound ==
  ASSUME TranscriptInv, EffectDone \/ TasklistSent \/ NoticeSent
  PROVE  TranscriptInv' /\ Freezes
<1>1. CASE EffectDone
  <2>1. /\ phase = "open" /\ phase' = phase /\ view' = Effect(view, Now)
        /\ Stream(stream') /\ Sound(view, {}, stream', TRUE)
        /\ Now \in (0 .. stream'.clock) \ stream'.put
    BY <1>1, AsideMoves DEF EffectDone
  <2>2. /\ Sound(view', {}, stream', TRUE)
        /\ Onward(view, view', Queued(view) \cup Outputs(Items(view.parked)))
    BY <2>1, EffectSound
  <2>3. Queued(view) \cup Outputs(Items(view.parked)) \subseteq Moving
    BY DEF Moving
  <2> QED BY <2>1, <2>2, <2>3, EventEnds
<1>2. CASE TasklistSent
  <2>1. /\ phase = "open" /\ phase' = phase /\ view' = Tasklist(view, Now)
        /\ Stream(stream') /\ Sound(view, {}, stream', TRUE)
        /\ Now \in (0 .. stream'.clock) \ stream'.put
    BY <1>2, AsideMoves DEF TasklistSent
  <2>2. Sound(view', {}, stream', TRUE) /\ Onward(view, view', {})
    BY <2>1, TasklistSound
  <2> QED BY <2>1, <2>2, EventEnds
<1>3. CASE NoticeSent
  <2>1. /\ phase = "open" /\ phase' = phase /\ view' = Notice(view, Now)
        /\ Stream(stream') /\ Sound(view, {}, stream', TRUE)
        /\ Now \in (0 .. stream'.clock) \ stream'.put
    BY <1>3, AsideMoves DEF NoticeSent
  <2>2. Sound(view', {}, stream', TRUE) /\ Onward(view, view', {})
    BY <2>1, NoticeSound
  <2> QED BY <2>1, <2>2, EventEnds
<1> QED BY <1>1, <1>2, <1>3

\* A timer, which fires after the turn too.
LEMMA TimerSound ==
  ASSUME TranscriptInv, Tick \/ Reveal
  PROVE  TranscriptInv' /\ Freezes
<1> DEFINE open == phase = "open"
           X == Queued(view) \cup Outputs(Items(view.parked))
<1>1. Stream(stream) /\ Sound(view, {}, stream, open) /\ open \in BOOLEAN
  BY DEF TranscriptInv
<1>2. stream' = stream /\ phase' = phase
  BY DEF Tick, Reveal
<1> HIDE DEF open, X
<1>3. Sound(view', {}, stream, open) /\ Onward(view, view', X)
  <2>1. CASE Tick
    <3>1. PICK cut \in 0 .. Len(view.pending) : view' = Ticked(view, cut)
      BY <2>1 DEF Tick
    <3>2. Sound(view', {}, stream, open) /\ Onward(view, view', {})
      BY <1>1, <3>1, TickedSound
    <3> QED BY <3>2 DEF Onward
  <2>2. CASE Reveal
    <3>1. view' = Released(view)
      BY <2>2 DEF Reveal
    <3> QED BY <1>1, <3>1, ReleasedSound DEF X
  <2> QED BY <2>1, <2>2
<1>4. TranscriptInv'
  BY <1>1, <1>2, <1>3 DEF TranscriptInv, open
<1>5. Freezes
  BY <1>3 DEF Freezes, Onward, Steady, Moving, X
<1> QED BY <1>4, <1>5

LEMMA EndSound ==
  ASSUME TranscriptInv, Finalize \/ Dispose
  PROVE  TranscriptInv' /\ Freezes
<1> DEFINE X == Queued(view) \cup Outputs(Items(view.parked))
<1>1. phase = "open" /\ phase' # "open" /\ stream' = stream
  BY DEF Finalize, Dispose
<1>2. Stream(stream) /\ Sound(view, {}, stream, TRUE)
  BY <1>1 DEF TranscriptInv
<1>3. Sound(view', {}, stream, FALSE) /\ Onward(view, view', X)
  <2>1. CASE Finalize
    <3>1. view' = Finalized(view)
      BY <2>1 DEF Finalize
    <3> QED BY <1>2, <3>1, FinalizedSound
  <2>2. CASE Dispose
    <3>1. view' = Disposed(view)
      BY <2>2 DEF Dispose
    <3> QED BY <1>2, <3>1, DisposedSound
  <2> QED BY <2>1, <2>2 DEF Finalize, Dispose
<1>4. (phase = "open")' = FALSE
  BY <1>1
<1>5. TranscriptInv'
  BY <1>1, <1>2, <1>3, <1>4 DEF TranscriptInv
<1>6. Freezes
  BY <1>3 DEF Freezes, Onward, Steady, Moving
<1> QED BY <1>5, <1>6

LEMMA TranscriptStep ==
  ASSUME TranscriptInv, [TranscriptNext]_transcriptVars
  PROVE  TranscriptInv' /\ Freezes
<1>1. CASE TextDelta
  BY <1>1, TextDeltaSound
<1>2. CASE TextDone
  BY <1>2, TextDoneSound
<1>3. CASE ToolCall
  BY <1>3, ToolCallSound
<1>4. CASE Header
  <2>1. /\ phase = "open" /\ phase' = phase /\ Running
        /\ view' = Enqueue(view, stream.at, Now, Kinds("edit")) /\ stream' = [Sent(1) EXCEPT !.clock = Now]
    BY <1>4 DEF Header, Received
  <2>2. Kinds("edit") \in BOOLEAN /\ (Kinds("edit") => Edit(stream, stream.at)) /\ 1 \in Nat \ {0}
    BY DEF Kinds, Edit, Running
  <2> QED BY <2>1, <2>2, OutputSound
<1>5. CASE EditLine \/ CommandTail
  <2>1. /\ phase = "open" /\ phase' = phase /\ Running
        /\ view' = Enqueue(view, stream.at, Now, FALSE)
    BY <1>5 DEF EditLine, CommandTail, Received, Kinds
  <2>2. \E n \in Nat \ {0} : stream' = [Sent(n) EXCEPT !.clock = Now]
    <3>1. CASE EditLine
      <4>1. stream.sent + 1 \in Nat \ {0}
        BY <3>1, ConstantsAssumption DEF EditLine
      <4> QED BY <3>1, <4>1 DEF EditLine, Received
    <3>2. CASE CommandTail
      <4>1. MaxLive + 2 \in Nat \ {0}
        BY ConstantsAssumption
      <4> QED BY <3>2, <4>1 DEF CommandTail, Received
    <3> QED BY <1>5, <3>1, <3>2
  <2>3. FALSE \in BOOLEAN
    OBVIOUS
  <2> QED BY <2>1, <2>2, <2>3, OutputSound
<1>6. CASE LiveLine
  BY <1>6, LiveLineSound
<1>7. CASE ToolResult
  BY <1>7, ToolResultSound
<1>8. CASE EffectDone \/ TasklistSent \/ NoticeSent
  BY <1>8, AsideSound
<1>9. CASE Tick \/ Reveal
  BY <1>9, TimerSound
<1>10. CASE Finalize \/ Dispose
  BY <1>10, EndSound
<1>11. CASE UNCHANGED transcriptVars
  BY <1>11 DEF transcriptVars, TranscriptInv, Freezes, Steady
<1> QED BY <1>1, <1>2, <1>3, <1>4, <1>5, <1>6, <1>7, <1>8, <1>9, <1>10, <1>11 DEF TranscriptNext

-----------------------------------------------------------------------------
(* Theorems *)

\* The view of a transcript is sound after every step.
THEOREM TranscriptInvariance == TranscriptSpec => []TranscriptInv
<1>1. TranscriptInit => TranscriptInv
  BY InitIsSound
<1>2. TranscriptInv /\ [TranscriptNext]_transcriptVars => TranscriptInv'
  BY TranscriptStep
<1> QED BY <1>1, <1>2, PTL DEF TranscriptSpec

\* Whatever waits for a timer of the client has that timer running.
THEOREM NothingIsStranded == TranscriptSpec => []NothingStranded
<1>1. TranscriptInv => NothingStranded
  BY DEF TranscriptInv, Sound, Timed, NothingStranded
<1> QED BY <1>1, TranscriptInvariance, PTL

\* What a tool has put out is on screen, queued or parked.
THEOREM OutputIsKept == TranscriptSpec => []OutputKept
<1>1. TranscriptInv => OutputKept
  <2> DEFINE queued == UNION {Items(view.backlog[c]) : c \in Calls}
             parked == {w.item : w \in Items(view.parked)}
  <2> HIDE DEF queued, parked
  <2>1. ASSUME TranscriptInv, NEW n \in stream.put
        PROVE  n \in Shown \/ n \in queued \/ n \in parked
    <3>1. OnScreen(view, n) \/ InQueue(view, n) \/ Waits(Items(view.parked) \cup {}, n)
      BY <2>1 DEF TranscriptInv, Sound, OutputSaved
    <3>2. OnScreen(view, n) => n \in Shown
      BY DEF OnScreen, Shown
    <3>3. InQueue(view, n) => n \in queued
      BY DEF InQueue, queued
    <3>4. Waits(Items(view.parked) \cup {}, n) => n \in parked
      BY DEF Waits, parked
    <3> QED BY <3>1, <3>2, <3>3, <3>4
  <2>2. TranscriptInv => stream.put \subseteq Shown \cup queued \cup parked
    BY <2>1
  <2>3. OutputKept <=> stream.put \subseteq Shown \cup queued \cup parked
    BY DEF OutputKept, queued, parked
  <2> QED BY <2>2, <2>3
<1> QED BY <1>1, TranscriptInvariance, PTL

\* Nothing opens beneath a row that is still being revealed, but for the rows of
\* calls whose first part is parked.
THEOREM NothingUnderReveals == TranscriptSpec => []NothingUnderReveal
<1>1. TranscriptInv => NothingUnderReveal
  <2> SUFFICES ASSUME TranscriptInv, NEW above \in DOMAIN view.rows, NEW below \in DOMAIN view.rows,
                      above < below, above \in Growing, view.rows[below].kind \in {"prose", "tool"}
               PROVE  view.rows[below].call \in Overtaken
    BY DEF NothingUnderReveal
  <2>1. PICK c \in Queued(view) : above = view.rowOf[c]
    BY DEF Growing
  <2>2. DOMAIN view.rows \in SUBSET Nat
    BY TableHas DEF TranscriptInv, Sound, View
  <2>3. below \in Below(view, view.rowOf[c])
    BY <2>1, <2>2 DEF Below
  <2>4. HasOutput(Items(view.parked), view.rows[below].call)
    BY <2>3 DEF TranscriptInv, Sound, Under
  <2> QED BY <2>4 DEF HasOutput, Overtaken
<1> QED BY <1>1, TranscriptInvariance, PTL

\* A row whose call is over gains no line while the turn is open.
THEOREM RowsAreFrozen == TranscriptSpec => RowsFreeze
<1>1. ASSUME TranscriptInv, Freezes, phase = "open",
             NEW id \in DOMAIN view.rows \cap DOMAIN view'.rows,
             view.rows[id].kind = "tool", view.rows[id].status # "active", id \notin Held,
             view.rows[id].call \notin Overtaken
      PROVE  view.rows[id].items = view'.rows[id].items
  <2>1. Sound(view, {}, stream, TRUE) /\ Steady(view, view', Moving) /\ Stream(stream)
    BY <1>1 DEF TranscriptInv, Freezes
  <2>2. PICK c \in Calls : view.rowOf[c] = id
    BY <1>1, <2>1 DEF Sound, Marked
  <2>3. id # Nil /\ view.rows[id].call = c
    BY <2>1, <2>2 DEF Sound, Wired, Nil
  <2>4. c < stream.at /\ (c \in Queued(view) => c \in view.held)
    BY <1>1, <2>1, <2>2, <2>3 DEF Sound, Settled
  <2>5. c \notin Queued(view)
    BY <1>1, <2>2, <2>4 DEF Held
  <2>6. c \notin Outputs(Items(view.parked))
    BY <1>1, <2>3 DEF Outputs, HasOutput, Overtaken
  <2>7. c # stream.at
    BY <2>1, <2>4 DEF Stream
  <2>8. c \notin Moving
    BY <2>5, <2>6, <2>7 DEF Moving
  <2> QED BY <1>1, <2>1, <2>3, <2>8 DEF Steady
<1>2. TranscriptInv /\ [TranscriptNext]_transcriptVars
        => [\A id \in DOMAIN view.rows \cap DOMAIN view'.rows :
              (/\ phase = "open" /\ view.rows[id].kind = "tool"
               /\ view.rows[id].status # "active" /\ id \notin Held
               /\ view.rows[id].call \notin Overtaken)
              => view.rows[id].items = view'.rows[id].items]_transcriptVars
  BY <1>1, TranscriptStep
<1> QED BY <1>2, TranscriptInvariance, PTL DEF TranscriptSpec, RowsFreeze

=============================================================================
