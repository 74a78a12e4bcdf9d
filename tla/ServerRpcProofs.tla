--------------------------- MODULE ServerRpcProofs ---------------------------
(***************************************************************************)
(* Theorems about ServerRpc, for any number of connections, requests and   *)
(* tasks, any queue bound and any registry size.                           *)
(***************************************************************************)
EXTENDS ServerRpc, FiniteSetTheorems, SequenceTheorems, TLAPS

(***************************************************************************)
(* What a batch of registry transitions does to each record: a record that *)
(* was not asked to move keeps its state, one that may move has the state  *)
(* asked for, and either may have been evicted if that state is terminal.  *)
(***************************************************************************)
RegistryType == [Task -> TaskStates \cup {Absent}]

KeptOrEvicted(s, new) == new = s \/ (s \in TerminalStates /\ new = Absent)

LEMMA TransitionedFacts ==
    ASSUME NEW st \in RegistryType, NEW upd, DOMAIN upd \subseteq Task,
           \A x \in DOMAIN upd : upd[x] \in TaskStates,
           NEW new \in Transitioned(st, upd)
    PROVE  /\ new \in RegistryType
           /\ \A t \in Task :
                KeptOrEvicted(IF t \in DOMAIN upd /\ Accepts(st, t, upd[t])
                              THEN upd[t] ELSE st[t], new[t])
  <1> DEFINE mv == Moved(st, upd)
  <1>1. PICK gone \in Evictions(mv) : new = Without(mv, gone)
    BY DEF Transitioned
  <1>2. gone \subseteq TerminalIn(mv)
    BY <1>1 DEF Evictions
  <1>3. mv \in RegistryType
    BY DEF Moved, RegistryType
  <1>4. /\ new \in RegistryType
        /\ \A t \in Task : new[t] = IF t \in gone THEN Absent ELSE mv[t]
    BY <1>1, <1>3 DEF Without, RegistryType
  <1>5. \A t \in gone : mv[t] \in TerminalStates
    BY <1>2 DEF TerminalIn
  <1>6. \A t \in Task : mv[t] = IF t \in DOMAIN upd /\ Accepts(st, t, upd[t])
                                THEN upd[t] ELSE st[t]
    BY DEF Moved
  <1> HIDE DEF mv
  <1> QED
    BY <1>4, <1>5, <1>6 DEF KeptOrEvicted

(***************************************************************************)
(* The same for one task t that moves to state s, in the terms the         *)
(* invariant speaks: t is in s (or evicted, if s is terminal), tasks that  *)
(* are not terminal keep their state, and nothing becomes live by itself.  *)
(***************************************************************************)
LEMMA OneTransition ==
    ASSUME NEW st \in RegistryType, NEW t \in Task, NEW s \in TaskStates,
           Accepts(st, t, s), NEW new \in Transitioned(st, Only(t, s))
    PROVE  /\ new \in RegistryType
           /\ KeptOrEvicted(s, new[t])
           /\ \A u \in Task \ {t} : KeptOrEvicted(st[u], new[u])
  <1> DEFINE upd == Only(t, s)
  <1>1. DOMAIN upd \subseteq Task /\ \A x \in DOMAIN upd : upd[x] \in TaskStates
    BY DEF Only
  <1>2. /\ new \in RegistryType
        /\ \A u \in Task :
                KeptOrEvicted(IF u \in DOMAIN upd /\ Accepts(st, u, upd[u])
                              THEN upd[u] ELSE st[u], new[u])
    BY <1>1, TransitionedFacts
  <1>3. DOMAIN upd = {t} /\ upd[t] = s
    BY DEF Only
  <1> HIDE DEF upd
  <1> QED
    BY <1>2, <1>3

(***************************************************************************)
(* The typing of what the queues, the runs and activeChats hold.           *)
(***************************************************************************)
LEMMA Held ==
    ASSUME TypeOK
    PROVE  /\ \A d \in Conn : /\ queue[d] \in Seq(Entry)
                             /\ Len(queue[d]) \in Nat
                             /\ \A i \in 1..Len(queue[d]) :
                                    /\ queue[d][i] \in Entry
                                    /\ queue[d][i].id \in Req
                                    /\ queue[d][i].task \in Task
           /\ \A v \in runs : /\ v \in Run /\ v.conn \in Conn /\ v.id \in Req /\ v.task \in Task
                             /\ v = [conn |-> v.conn, id |-> v.id, task |-> v.task]
  <1>1. ASSUME NEW d \in Conn
        PROVE  /\ queue[d] \in Seq(Entry)
               /\ Len(queue[d]) \in Nat
               /\ \A i \in 1..Len(queue[d]) : queue[d][i] \in Entry
    BY DEF TypeOK
  <1>2. \A e \in Entry : e.id \in Req /\ e.task \in Task
    BY DEF Entry
  <1>3. \A v \in Run : /\ v.conn \in Conn /\ v.id \in Req /\ v.task \in Task
                       /\ v = [conn |-> v.conn, id |-> v.id, task |-> v.task]
    BY DEF Run
  <1>4. runs \subseteq Run
    BY DEF TypeOK
  <1> QED
    BY <1>1, <1>2, <1>3, <1>4

LEMMA InitInv == Init => IInv
  <1> SUFFICES ASSUME Init PROVE IInv
    OBVIOUS
  <1> USE DEF Init
  <1>1. TypeOK
    BY MaxQueuedAssumption DEF TypeOK, Told, View, Msgs, TaskStates
  <1>2. ClosedHoldsNothing /\ RunsAreActiveChats /\ RunningIsActive
    BY NoTaskAssumption DEF ClosedHoldsNothing, RunsAreActiveChats, RunningIsActive, Open
  <1>3. QueueHoldsQueued /\ QueueBounded /\ HeldOnce /\ RunStates
    BY MaxQueuedAssumption DEF QueueHoldsQueued, QueueBounded, HeldOnce, RunStates
  <1>4. LiveIsHeld /\ UnusedUntouched
    BY DEF LiveIsHeld, UnusedUntouched, Unused, LiveIn, LiveStates, Absent
  <1> QED
    BY <1>1, <1>2, <1>3, <1>4 DEF IInv

-----------------------------------------------------------------------------
LEMMA StartNowInv ==
    ASSUME IInv, NEW c \in Conn, NEW r \in Req, NEW s \in Session, NEW t \in Task,
           ChatStartNow(c, r, s, t)
    PROVE  IInv'
  <1> DEFINE w == [conn |-> c, id |-> r, task |-> t]
  <1>1. /\ conn[c] = "open" /\ runningChatId[c] = NoReq /\ t \in Unused
        /\ sessionOf' = [sessionOf EXCEPT ![t] = s]
        /\ runningChatId' = [runningChatId EXCEPT ![c] = r]
        /\ activeChats' = [activeChats EXCEPT ![c][r] = t]
        /\ runs' = runs \cup {w}
        /\ view' = [view EXCEPT ![t] = Told("started")]
        /\ UNCHANGED <<conn, queue, queuedCount, aborted, daemon>>
        /\ taskState' \in Transitioned(taskState, Only(t, "running"))
    BY DEF ChatStartNow, MustWait, AcceptRequest
  <1>2. taskState[t] = Absent /\ t \notin aborted /\ \A v \in runs : v.task # t
    BY <1>1 DEF IInv, UnusedUntouched
  <1>3. TypeOK
    BY DEF IInv
  <1>4. taskState \in RegistryType /\ "running" \in TaskStates
    BY <1>3 DEF TypeOK, RegistryType, TaskStates, LiveStates
  <1>5. Accepts(taskState, t, "running")
    BY <1>2 DEF Accepts
  <1>6. /\ taskState' \in RegistryType
        /\ KeptOrEvicted("running", taskState'[t])
        /\ \A u \in Task \ {t} : KeptOrEvicted(taskState[u], taskState'[u])
    BY <1>1, <1>4, <1>5, OneTransition
  <1>7. taskState'[t] = "running"
    BY <1>6 DEF KeptOrEvicted, TerminalStates
  <1>8. queue[c] = <<>> /\ \A q \in Req : activeChats[c][q] = NoTask
    BY <1>1, NoReqAssumption DEF IInv, RunningIsActive, Open
  <1>9. \A d \in Conn : \A i \in 1..Len(queue[d]) :
            queue[d][i].task \in Task /\ queue[d][i].task # t
    BY <1>2, <1>3, Held DEF IInv, QueueHoldsQueued, Absent
  <1>10. TypeOK'
    <2>1. w \in Run
      BY DEF Run
    <2>2. Told("started") \in View
      BY MaxQueuedAssumption DEF Told, View, Msgs
    <2> HIDE DEF w
    <2> QED
      BY <1>1, <1>3, <1>6, <2>1, <2>2 DEF TypeOK, RegistryType
  <1>11. ClosedHoldsNothing'
    BY <1>1, <1>3 DEF IInv, ClosedHoldsNothing, TypeOK
  <1>12. RunsAreActiveChats'
    <2> SUFFICES ASSUME NEW d \in Conn, NEW q \in Req, NEW u \in Task
                 PROVE  [conn |-> d, id |-> q, task |-> u] \in runs' <=> activeChats'[d][q] = u
      BY DEF RunsAreActiveChats
    <2>1. [conn |-> d, id |-> q, task |-> u] \in runs' <=>
            \/ [conn |-> d, id |-> q, task |-> u] \in runs
            \/ d = c /\ q = r /\ u = t
      BY <1>1
    <2>2. activeChats'[d][q] = IF d = c /\ q = r THEN t ELSE activeChats[d][q]
      BY <1>1, <1>3 DEF TypeOK
    <2>3. [conn |-> d, id |-> q, task |-> u] \in runs <=> activeChats[d][q] = u
      BY DEF IInv, RunsAreActiveChats
    <2> QED
      BY <2>1, <2>2, <2>3, <1>8, NoTaskAssumption
  <1>13. RunningIsActive'
    BY <1>1, <1>3, <1>8, NoReqAssumption, NoTaskAssumption
    DEF IInv, RunningIsActive, Open, TypeOK
  <1>14. QueueHoldsQueued'
    BY <1>1, <1>6, <1>9 DEF IInv, QueueHoldsQueued, KeptOrEvicted, TerminalStates
  <1>15. QueueBounded'
    BY <1>1 DEF IInv, QueueBounded
  <1>16. HeldOnce'
    BY <1>1, <1>2 DEF IInv, HeldOnce
  <1>17. RunStates'
    <2> SUFFICES ASSUME NEW v \in runs'
                 PROVE  /\ v.task \notin aborted => taskState'[v.task] = "running" /\ conn[v.conn] = "open"
                        /\ v.task \in aborted => taskState'[v.task] \in {"cancelled", Absent}
      BY <1>1 DEF RunStates
    <2>1. CASE v = w
      BY <2>1, <1>1, <1>2, <1>7
    <2>2. CASE v \in runs
      <3>1. v.task \in Task \ {t}
        BY <2>2, <1>2, <1>3, Held
      <3> QED
        BY <2>2, <3>1, <1>6 DEF IInv, RunStates, KeptOrEvicted, TerminalStates, Absent
    <2> QED
      BY <1>1, <2>1, <2>2
  <1>18. LiveIsHeld'
    <2> SUFFICES ASSUME NEW u \in Task, taskState'[u] \in LiveStates
                 PROVE  \/ \E d \in Conn : \E i \in 1..Len(queue[d]) : queue[d][i].task = u
                        \/ \E v \in runs' : v.task = u /\ u \notin aborted
      BY <1>1 DEF LiveIsHeld, LiveIn
    <2>1. CASE u = t
      <3>1. w \in runs' /\ w.task = t
        BY <1>1
      <3> QED
        BY <2>1, <3>1, <1>2
    <2>2. CASE u # t
      <3>1. u \in LiveIn(taskState)
        BY <2>2, <1>6 DEF LiveIn, KeptOrEvicted, LiveStates, Absent
      <3> QED
        BY <3>1, <1>1 DEF IInv, LiveIsHeld
    <2> QED
      BY <2>1, <2>2
  <1>19. UnusedUntouched'
    <2> SUFFICES ASSUME NEW u \in Task, sessionOf'[u] = NoSession
                 PROVE  taskState'[u] = Absent /\ u \notin aborted /\ \A v \in runs' : v.task # u
      BY <1>1 DEF UnusedUntouched, Unused
    <2>1. u # t /\ u \in Unused
      BY <1>1, <1>3, NoSessionAssumption DEF TypeOK, Unused
    <2> QED
      BY <2>1, <1>1, <1>6 DEF IInv, UnusedUntouched, KeptOrEvicted, TerminalStates, Absent
  <1> QED
    BY <1>10, <1>11, <1>12, <1>13, <1>14, <1>15, <1>16, <1>17, <1>18, <1>19 DEF IInv

-----------------------------------------------------------------------------
LEMMA StartQueuedInv ==
    ASSUME IInv, NEW c \in Conn, NEW r \in Req, NEW s \in Session, NEW t \in Task,
           ChatStartQueued(c, r, s, t)
    PROVE  IInv'
  <1> DEFINE e == [id |-> r, task |-> t]
             n == Len(queue[c])
  <1>1. /\ conn[c] = "open" /\ runningChatId[c] # NoReq /\ t \in Unused
        /\ n < MaxQueued
        /\ sessionOf' = [sessionOf EXCEPT ![t] = s]
        /\ queue' = [queue EXCEPT ![c] = Append(queue[c], e)]
        /\ queuedCount' = queuedCount + 1
        /\ view' = [view EXCEPT ![t] = QueuedAt(n + 1)]
        /\ UNCHANGED <<conn, activeChats, runningChatId, aborted, runs, daemon>>
        /\ taskState' \in Transitioned(taskState, Only(t, "queued"))
    <2>1. queue[c] \in Seq(Entry)
      BY Held DEF IInv
    <2> QED
      BY <2>1, MaxQueuedAssumption DEF ChatStartQueued, MustWait, AcceptRequest, QueueFull
  <1>2. taskState[t] = Absent /\ t \notin aborted /\ \A v \in runs : v.task # t
    BY <1>1 DEF IInv, UnusedUntouched
  <1>3. TypeOK
    BY DEF IInv
  <1>4. taskState \in RegistryType /\ "queued" \in TaskStates
    BY <1>3 DEF TypeOK, RegistryType, TaskStates, LiveStates
  <1>5. Accepts(taskState, t, "queued")
    BY <1>2 DEF Accepts
  <1>6. /\ taskState' \in RegistryType
        /\ KeptOrEvicted("queued", taskState'[t])
        /\ \A u \in Task \ {t} : KeptOrEvicted(taskState[u], taskState'[u])
    BY <1>1, <1>4, <1>5, OneTransition
  <1>7. taskState'[t] = "queued"
    BY <1>6 DEF KeptOrEvicted, TerminalStates
  <1>8. e \in Entry /\ e.task = t
    BY DEF Entry
  <1> HIDE DEF e
  <1>9. /\ \A d \in Conn \ {c} : queue'[d] = queue[d]
        /\ queue'[c] = Append(queue[c], e)
        /\ queue'[c] \in Seq(Entry)
        /\ Len(queue'[c]) = n + 1
        /\ n \in Nat
        /\ \A i \in 1..n : queue'[c][i] = queue[c][i]
        /\ queue'[c][n + 1] = e
        /\ queue' \in [Conn -> Seq(Entry)]
    <2>1. queue[c] \in Seq(Entry) /\ queue \in [Conn -> Seq(Entry)]
      BY <1>3 DEF TypeOK
    <2>2. queue'[c] = Append(queue[c], e)
      BY <1>1, <2>1
    <2> QED
      BY <1>1, <1>8, <2>1, <2>2
  <1>10. \A d \in Conn : \A i \in 1..Len(queue[d]) :
            queue[d][i].task \in Task /\ queue[d][i].task # t
    BY <1>2, <1>3, Held DEF IInv, QueueHoldsQueued, Absent
  <1>11. TypeOK'
    <2>1. QueuedAt(n + 1) \in View
      BY <1>1, <1>9, MaxQueuedAssumption DEF QueuedAt, View, Msgs
    <2> QED
      BY <1>1, <1>3, <1>6, <1>9, <2>1 DEF TypeOK, RegistryType
  <1>12. ClosedHoldsNothing' /\ RunsAreActiveChats' /\ RunningIsActive'
    BY <1>1, <1>9
    DEF IInv, ClosedHoldsNothing, RunsAreActiveChats, RunningIsActive, Open
  <1>13. QueueHoldsQueued'
    <2> SUFFICES ASSUME NEW d \in Conn, NEW i \in 1..Len(queue'[d])
                 PROVE  queue'[d][i].task \notin aborted /\ taskState'[queue'[d][i].task] = "queued"
      BY <1>1 DEF QueueHoldsQueued
    <2>1. CASE d = c /\ i = n + 1
      BY <2>1, <1>2, <1>7, <1>8, <1>9
    <2>2. CASE ~(d = c /\ i = n + 1)
      <3>1. i \in 1..Len(queue[d]) /\ queue'[d][i] = queue[d][i]
        BY <2>2, <1>9
      <3> QED
        BY <3>1, <1>6, <1>10 DEF IInv, QueueHoldsQueued, KeptOrEvicted, TerminalStates
    <2> QED
      BY <2>1, <2>2
  <1>14. QueueBounded'
    BY <1>1, <1>9, MaxQueuedAssumption DEF IInv, QueueBounded
  <1>15. HeldOnce'
    <2>1. ASSUME NEW d \in Conn, NEW f \in Conn,
                 NEW i \in 1..Len(queue'[d]), NEW j \in 1..Len(queue'[f]),
                 queue'[d][i].task = queue'[f][j].task
          PROVE  d = f /\ i = j
      <3>1. ASSUME NEW g \in Conn, NEW k \in 1..Len(queue'[g])
            PROVE  \/ g = c /\ k = n + 1 /\ queue'[g][k].task = t
                   \/ k \in 1..Len(queue[g]) /\ queue'[g][k] = queue[g][k]
        <4>1. CASE g = c /\ k = n + 1
          BY <4>1, <1>8, <1>9
        <4>2. CASE ~(g = c /\ k = n + 1)
          BY <4>2, <1>9
        <4> QED
          BY <4>1, <4>2
      <3>2. CASE queue'[d][i].task = t
        <4>1. d = c /\ i = n + 1
          BY <3>1, <3>2, <1>10
        <4>2. queue'[f][j].task = t
          BY <2>1, <3>2
        <4>3. f = c /\ j = n + 1
          BY <4>2, <3>1, <1>10
        <4> QED
          BY <4>1, <4>3
      <3>3. CASE queue'[d][i].task # t
        <4>1. /\ i \in 1..Len(queue[d]) /\ queue'[d][i] = queue[d][i]
              /\ j \in 1..Len(queue[f]) /\ queue'[f][j] = queue[f][j]
          BY <2>1, <3>1, <3>3
        <4> QED
          BY <4>1, <2>1 DEF IInv, HeldOnce
      <3> QED
        BY <3>2, <3>3
    <2>2. \A v, w \in runs' : v.task = w.task => v = w
      BY <1>1 DEF IInv, HeldOnce
    <2> QED
      BY <2>1, <2>2 DEF HeldOnce
  <1>16. RunStates'
    BY <1>1, <1>2, <1>3, <1>6, Held
    DEF IInv, RunStates, KeptOrEvicted, TerminalStates, Absent
  <1>17. LiveIsHeld'
    <2> SUFFICES ASSUME NEW u \in Task, taskState'[u] \in LiveStates
                 PROVE  \/ \E d \in Conn : \E i \in 1..Len(queue'[d]) : queue'[d][i].task = u
                        \/ \E v \in runs : v.task = u /\ u \notin aborted
      BY <1>1 DEF LiveIsHeld, LiveIn
    <2>1. CASE u = t
      <3>1. n + 1 \in 1..Len(queue'[c])
        BY <1>9
      <3>2. queue'[c][n + 1].task = u
        BY <2>1, <1>8, <1>9
      <3> QED
        BY <3>1, <3>2
    <2>2. CASE u # t
      <3>1. u \in LiveIn(taskState)
        BY <2>2, <1>6 DEF LiveIn, KeptOrEvicted, LiveStates, Absent
      <3>2. \A d \in Conn : \A i \in 1..Len(queue[d]) :
                i \in 1..Len(queue'[d]) /\ queue'[d][i] = queue[d][i]
        BY <1>9
      <3> QED
        BY <3>1, <3>2 DEF IInv, LiveIsHeld
    <2> QED
      BY <2>1, <2>2
  <1>18. UnusedUntouched'
    <2> SUFFICES ASSUME NEW u \in Task, sessionOf'[u] = NoSession
                 PROVE  taskState'[u] = Absent /\ u \notin aborted /\ \A v \in runs : v.task # u
      BY <1>1 DEF UnusedUntouched, Unused
    <2>1. u # t /\ u \in Unused
      BY <1>1, <1>3, NoSessionAssumption DEF TypeOK, Unused
    <2> QED
      BY <2>1, <1>1, <1>6 DEF IInv, UnusedUntouched, KeptOrEvicted, TerminalStates, Absent
  <1> QED
    BY <1>11, <1>12, <1>13, <1>14, <1>15, <1>16, <1>17, <1>18 DEF IInv

-----------------------------------------------------------------------------
LEMMA AbortActiveInv ==
    ASSUME IInv, NEW c \in Conn, NEW r \in Req, AbortActive(c, r)
    PROVE  IInv'
  <1> DEFINE t == activeChats[c][r]
  <1>1. /\ conn[c] = "open" /\ t # NoTask
        /\ aborted' = aborted \cup {t}
        /\ taskState' \in Transitioned(taskState, Only(t, "cancelled"))
        /\ view' = [view EXCEPT ![t] = Told("aborted")]
        /\ UNCHANGED <<conn, activeChats, runningChatId, queue, queuedCount, runs,
                       sessionOf, daemon>>
    BY DEF AbortActive
  <1>2. TypeOK
    BY DEF IInv
  <1>3. t \in Task /\ [conn |-> c, id |-> r, task |-> t] \in runs
    BY <1>1, <1>2 DEF IInv, RunsAreActiveChats, TypeOK
  <1>4. \/ taskState[t] = "running" /\ t \notin aborted
        \/ taskState[t] \in {"cancelled", Absent} /\ t \in aborted
    BY <1>3 DEF IInv, RunStates
  <1> HIDE DEF t
  <1>5. taskState \in RegistryType /\ "cancelled" \in TaskStates
    BY <1>2 DEF TypeOK, RegistryType, TaskStates, TerminalStates
  <1>6. Accepts(taskState, t, "cancelled")
    BY <1>4 DEF Accepts, CanTransition, ALLOWED_TRANSITIONS, TaskStates, LiveStates
  <1>7. /\ taskState' \in RegistryType
        /\ KeptOrEvicted("cancelled", taskState'[t])
        /\ \A u \in Task \ {t} : KeptOrEvicted(taskState[u], taskState'[u])
    BY <1>1, <1>3, <1>5, <1>6, OneTransition
  <1>8. \A d \in Conn : \A i \in 1..Len(queue[d]) :
            queue[d][i].task \in Task /\ queue[d][i].task # t
    BY <1>2, <1>4, Held DEF IInv, QueueHoldsQueued, Absent
  <1>9. TypeOK'
    <2>1. Told("aborted") \in View
      BY MaxQueuedAssumption DEF Told, View, Msgs
    <2> QED
      BY <1>1, <1>2, <1>3, <1>7, <2>1 DEF TypeOK, RegistryType
  <1>10. /\ ClosedHoldsNothing' /\ RunsAreActiveChats' /\ RunningIsActive'
         /\ QueueBounded' /\ HeldOnce'
    BY <1>1 DEF IInv, ClosedHoldsNothing, RunsAreActiveChats, RunningIsActive, Open,
                QueueBounded, HeldOnce
  <1>11. QueueHoldsQueued'
    BY <1>1, <1>7, <1>8 DEF IInv, QueueHoldsQueued, KeptOrEvicted, TerminalStates
  <1>12. RunStates'
    <2> SUFFICES ASSUME NEW v \in runs
                 PROVE  /\ v.task \notin aborted' => taskState'[v.task] = "running" /\ conn[v.conn] = "open"
                        /\ v.task \in aborted' => taskState'[v.task] \in {"cancelled", Absent}
      BY <1>1 DEF RunStates
    <2>1. v.task \in Task
      BY <1>2, Held
    <2> QED
      BY <2>1, <1>1, <1>7 DEF IInv, RunStates, KeptOrEvicted, TerminalStates, Absent
  <1>13. LiveIsHeld'
    <2> SUFFICES ASSUME NEW u \in Task, taskState'[u] \in LiveStates
                 PROVE  \/ \E d \in Conn : \E i \in 1..Len(queue[d]) : queue[d][i].task = u
                        \/ \E v \in runs : v.task = u /\ u \notin aborted'
      BY <1>1 DEF LiveIsHeld, LiveIn
    <2>1. u # t
      BY <1>7 DEF KeptOrEvicted, LiveStates, Absent
    <2>2. u \in LiveIn(taskState)
      BY <2>1, <1>7 DEF LiveIn, KeptOrEvicted, LiveStates, Absent
    <2> QED
      BY <2>1, <2>2, <1>1 DEF IInv, LiveIsHeld
  <1>14. UnusedUntouched'
    <2> SUFFICES ASSUME NEW u \in Unused
                 PROVE  taskState'[u] = Absent /\ u \notin aborted' /\ \A v \in runs : v.task # u
      BY <1>1 DEF UnusedUntouched, Unused
    <2>1. u \in Task /\ u # t
      BY <1>3 DEF IInv, UnusedUntouched, Unused
    <2> QED
      BY <2>1, <1>1, <1>7 DEF IInv, UnusedUntouched, KeptOrEvicted, TerminalStates, Absent
  <1> QED
    BY <1>9, <1>10, <1>11, <1>12, <1>13, <1>14 DEF IInv

-----------------------------------------------------------------------------
(***************************************************************************)
(* Splicing one entry out of a sequence, and dropping its first.           *)
(***************************************************************************)
LEMMA RemoveAtFacts ==
    ASSUME NEW S, NEW q \in Seq(S), NEW i \in 1..Len(q)
    PROVE  /\ RemoveAt(q, i) \in Seq(S)
           /\ Len(RemoveAt(q, i)) = Len(q) - 1
           /\ \A j \in 1..(Len(q) - 1) :
                RemoveAt(q, i)[j] = q[IF j < i THEN j ELSE j + 1]
  <1> DEFINE front == SubSeq(q, 1, i - 1)
             back  == SubSeq(q, i + 1, Len(q))
  <1>1. /\ front \in Seq(S) /\ Len(front) = i - 1
        /\ \A j \in 1..(i - 1) : front[j] = q[j]
    OBVIOUS
  <1>2. /\ back \in Seq(S) /\ Len(back) = Len(q) - i
        /\ \A j \in 1..(Len(q) - i) : back[j] = q[i + j]
    OBVIOUS
  <1>3. RemoveAt(q, i) = front \o back
    BY DEF RemoveAt
  <1> HIDE DEF front, back
  <1>4. /\ front \o back \in Seq(S)
        /\ Len(front \o back) = Len(front) + Len(back)
        /\ \A j \in 1..(Len(front) + Len(back)) :
             (front \o back)[j] = IF j <= Len(front) THEN front[j] ELSE back[j - Len(front)]
    BY <1>1, <1>2, ConcatProperties
  <1>5. ASSUME NEW j \in 1..(Len(q) - 1)
        PROVE  (front \o back)[j] = q[IF j < i THEN j ELSE j + 1]
    <2>1. CASE j < i
      BY <2>1, <1>1, <1>2, <1>4
    <2>2. CASE j >= i
      <3>1. (front \o back)[j] = back[j - (i - 1)]
        BY <2>2, <1>1, <1>2, <1>4
      <3>2. j - (i - 1) \in 1..(Len(q) - i)
        BY <2>2
      <3>3. back[j - (i - 1)] = q[i + (j - (i - 1))]
        BY <3>2, <1>2
      <3>4. i + (j - (i - 1)) = j + 1
        OBVIOUS
      <3> QED
        BY <2>2, <3>1, <3>3, <3>4
    <2>3. j < i \/ j >= i
      OBVIOUS
    <2> QED
      BY <2>1, <2>2, <2>3
  <1> QED
    BY <1>1, <1>2, <1>3, <1>4, <1>5

(***************************************************************************)
(* Telling the entries of a queue their positions keeps view well typed.   *)
(***************************************************************************)
LEMMA WithPositionsType ==
    ASSUME NEW v \in [Task -> View], NEW q \in Seq(Entry), Len(q) <= MaxQueued
    PROVE  WithPositions(v, q) \in [Task -> View]
  <1> SUFFICES ASSUME NEW t \in Task, t \in QueuedTasks(q)
               PROVE  QueuedAt(CHOOSE i \in 1..Len(q) : q[i].task = t) \in View
    BY DEF WithPositions
  <1> DEFINE i == CHOOSE i \in 1..Len(q) : q[i].task = t
  <1>1. i \in 1..Len(q)
    BY DEF QueuedTasks
  <1>2. i \in 0..MaxQueued
    BY <1>1, MaxQueuedAssumption
  <1>3. \A j \in 0..MaxQueued : QueuedAt(j) \in View
    BY DEF QueuedAt, View, Msgs
  <1> QED
    BY <1>2, <1>3

LEMMA AbortQueuedInv ==
    ASSUME IInv, NEW c \in Conn, NEW r \in Req, AbortQueued(c, r)
    PROVE  IInv'
  <1>1. TypeOK
    BY DEF IInv
  <1>2. PICK k \in 1..Len(queue[c]) :
            LET t    == queue[c][k].task
                rest == WithoutEntry(queue[c], k)
            IN  /\ aborted' = aborted \cup {t}
                /\ queue' = [queue EXCEPT ![c] = rest]
                /\ queuedCount' = Minus(queuedCount, 1)
                /\ taskState' \in Transitioned(taskState, Only(t, "cancelled"))
                /\ view' = WithPositions([view EXCEPT ![t] = Told("aborted")], rest)
    BY DEF AbortQueued
  <1> DEFINE t    == queue[c][k].task
             rest == RemoveAt(queue[c], k)
             n    == Len(queue[c])
  <1>3. /\ conn[c] = "open"
        /\ aborted' = aborted \cup {t}
        /\ queue' = [queue EXCEPT ![c] = rest]
        /\ queuedCount' = Minus(queuedCount, 1)
        /\ taskState' \in Transitioned(taskState, Only(t, "cancelled"))
        /\ view' = WithPositions([view EXCEPT ![t] = Told("aborted")], rest)
        /\ UNCHANGED <<conn, activeChats, runningChatId, runs, sessionOf, daemon>>
    BY <1>2 DEF AbortQueued, WithoutEntry
  <1>4. t \in Task /\ n \in Nat /\ queue[c] \in Seq(Entry) /\ queue \in [Conn -> Seq(Entry)]
    BY <1>1, Held DEF TypeOK
  <1>5. taskState[t] = "queued" /\ t \notin aborted
    BY DEF IInv, QueueHoldsQueued
  <1>6. \A v \in runs : v.task # t
    BY <1>5 DEF IInv, RunStates, Absent
  <1>7. /\ rest \in Seq(Entry)
        /\ Len(rest) = n - 1
        /\ \A j \in 1..(n - 1) : rest[j] = queue[c][IF j < k THEN j ELSE j + 1]
    BY <1>4, RemoveAtFacts
  <1> HIDE DEF t, rest
  <1>8. /\ \A d \in Conn \ {c} : queue'[d] = queue[d]
        /\ queue'[c] = rest
        /\ queue' \in [Conn -> Seq(Entry)]
    BY <1>3, <1>4, <1>7
  <1>9. /\ taskState \in RegistryType /\ "cancelled" \in TaskStates
        /\ Accepts(taskState, t, "cancelled")
    BY <1>1, <1>5 DEF TypeOK, RegistryType, TaskStates, TerminalStates, LiveStates,
                      Accepts, CanTransition, ALLOWED_TRANSITIONS
  <1>10. /\ taskState' \in RegistryType
         /\ KeptOrEvicted("cancelled", taskState'[t])
         /\ \A u \in Task \ {t} : KeptOrEvicted(taskState[u], taskState'[u])
    BY <1>3, <1>4, <1>9, OneTransition
  \* Every place of the new queues is a place of the old ones, not the one removed.
  <1> DEFINE old(d, i) == IF d = c /\ i >= k THEN i + 1 ELSE i
  <1>11. ASSUME NEW d \in Conn, NEW i \in 1..Len(queue'[d])
         PROVE  /\ old(d, i) \in 1..Len(queue[d])
                /\ queue'[d][i] = queue[d][old(d, i)]
                /\ queue'[d][i].task \in Task
                /\ queue'[d][i].task # t
    <2>1. CASE d = c
      <3>1. i \in 1..(n - 1)
        BY <2>1, <1>7, <1>8
      <3>2. old(d, i) \in 1..n /\ old(d, i) # k
        BY <3>1, <2>1, <1>4
      <3>3. queue'[d][i] = queue[c][old(d, i)]
        BY <3>1, <2>1, <1>4, <1>7, <1>8
      <3>4. queue[c][old(d, i)].task # t
        BY <3>2 DEF IInv, HeldOnce, t
      <3> QED
        BY <2>1, <3>2, <3>3, <3>4, <1>1, Held
    <2>2. CASE d # c
      <3>1. i \in 1..Len(queue[d]) /\ queue'[d] = queue[d] /\ old(d, i) = i
        BY <2>2, <1>8
      <3>2. queue[d][i].task # t
        BY <2>2, <3>1 DEF IInv, HeldOnce, t
      <3> QED
        BY <3>1, <3>2, <1>1, Held
    <2> QED
      BY <2>1, <2>2
  <1>12. TypeOK'
    <2>0. Told("aborted") \in View
      BY MaxQueuedAssumption DEF Told, View, Msgs
    <2>1. [view EXCEPT ![t] = Told("aborted")] \in [Task -> View]
      BY <2>0, <1>1 DEF TypeOK
    <2>2. Len(rest) <= MaxQueued
      BY <1>4, <1>7, MaxQueuedAssumption DEF IInv, QueueBounded
    <2>3. view' \in [Task -> View]
      BY <2>1, <2>2, <1>3, <1>7, WithPositionsType
    <2>4. queuedCount' \in Nat
      BY <1>1, <1>3 DEF TypeOK, Minus
    <2> QED
      BY <1>1, <1>3, <1>4, <1>8, <1>10, <2>3, <2>4 DEF TypeOK, RegistryType
  <1>13. ClosedHoldsNothing' /\ RunsAreActiveChats'
    BY <1>3, <1>8 DEF IInv, ClosedHoldsNothing, RunsAreActiveChats
  <1>14. RunningIsActive'
    <2>1. queue[c] # <<>>
      BY <1>4
    <2> QED
      BY <2>1, <1>3, <1>8 DEF IInv, RunningIsActive, Open
  <1>15. QueueHoldsQueued'
    <2> SUFFICES ASSUME NEW d \in Conn, NEW i \in 1..Len(queue'[d])
                 PROVE  queue'[d][i].task \notin aborted' /\ taskState'[queue'[d][i].task] = "queued"
      BY DEF QueueHoldsQueued
    <2>1. /\ queue'[d][i].task \in Task \ {t}
          /\ queue'[d][i].task \notin aborted
          /\ taskState[queue'[d][i].task] = "queued"
      BY <1>11 DEF IInv, QueueHoldsQueued
    <2> QED
      BY <2>1, <1>3, <1>10 DEF KeptOrEvicted, TerminalStates
  <1>16. QueueBounded'
    <2>1. \A d \in Conn : Len(queue[d]) <= MaxQueued
      BY DEF IInv, QueueBounded
    <2>2. Len(queue'[c]) <= MaxQueued
      BY <2>1, <1>4, <1>7, <1>8, MaxQueuedAssumption
    <2> QED
      BY <2>1, <2>2, <1>8 DEF QueueBounded
  <1>17. HeldOnce'
    <2>1. ASSUME NEW d \in Conn, NEW f \in Conn,
                 NEW i \in 1..Len(queue'[d]), NEW j \in 1..Len(queue'[f]),
                 queue'[d][i].task = queue'[f][j].task
          PROVE  d = f /\ i = j
      <3>0. /\ old(d, i) \in 1..Len(queue[d]) /\ old(f, j) \in 1..Len(queue[f])
            /\ queue[d][old(d, i)].task = queue[f][old(f, j)].task
        BY <2>1, <1>11
      <3> HIDE DEF old
      <3>1. d = f /\ old(d, i) = old(f, j)
        BY <3>0 DEF IInv, HeldOnce
      <3> USE DEF old
      <3>2. i \in Int /\ j \in Int
        BY <1>8, <1>4
      <3> QED
        BY <3>1, <3>2
    <2>2. \A v, w \in runs' : v.task = w.task => v = w
      BY <1>3 DEF IInv, HeldOnce
    <2> QED
      BY <2>1, <2>2 DEF HeldOnce
  <1>18. RunStates'
    BY <1>1, <1>3, <1>6, <1>10, Held
    DEF IInv, RunStates, KeptOrEvicted, TerminalStates, Absent
  <1>19. LiveIsHeld'
    <2> SUFFICES ASSUME NEW u \in Task, taskState'[u] \in LiveStates
                 PROVE  \/ \E d \in Conn : \E i \in 1..Len(queue'[d]) : queue'[d][i].task = u
                        \/ \E v \in runs : v.task = u /\ u \notin aborted'
      BY <1>3 DEF LiveIsHeld, LiveIn
    <2>1. u # t
      BY <1>10 DEF KeptOrEvicted, LiveStates, Absent
    <2>2. u \in LiveIn(taskState)
      BY <2>1, <1>10 DEF LiveIn, KeptOrEvicted, LiveStates, Absent
    <2>3. CASE \E v \in runs : v.task = u /\ u \notin aborted
      BY <2>1, <2>3, <1>3
    <2>4. ASSUME NEW d \in Conn, NEW i \in 1..Len(queue[d]), queue[d][i].task = u
          PROVE  \E j \in 1..Len(queue'[d]) : queue'[d][j].task = u
      <3>1. CASE d # c
        BY <2>4, <3>1, <1>8
      <3>2. CASE d = c
        <4>1. i # k
          BY <2>1, <2>4, <3>2 DEF t
        <4>2. CASE i < k
          BY <2>4, <3>2, <4>2, <1>4, <1>7, <1>8
        <4>3. CASE i > k
          <5>1. i - 1 \in 1..Len(queue'[c]) /\ queue'[c][i - 1] = queue[c][(i - 1) + 1]
            <6>1. i - 1 \in 1..(n - 1) /\ ~(i - 1 < k)
              BY <3>2, <4>3, <1>4
            <6> QED
              BY <6>1, <1>4, <1>7, <1>8
          <5>2. (i - 1) + 1 = i
            BY <1>4, <3>2
          <5> QED
            BY <5>1, <5>2, <2>4, <3>2
        <4> QED
          BY <4>1, <4>2, <4>3, <1>4
      <3> QED
        BY <3>1, <3>2
    <2> QED
      BY <2>2, <2>3, <2>4 DEF IInv, LiveIsHeld
  <1>20. UnusedUntouched'
    <2> SUFFICES ASSUME NEW u \in Unused
                 PROVE  taskState'[u] = Absent /\ u \notin aborted' /\ \A v \in runs : v.task # u
      BY <1>3 DEF UnusedUntouched, Unused
    <2>1. u \in Task /\ u # t
      BY <1>5 DEF IInv, UnusedUntouched, Unused, Absent
    <2> QED
      BY <2>1, <1>3, <1>10 DEF IInv, UnusedUntouched, KeptOrEvicted, TerminalStates, Absent
  <1> QED
    BY <1>12, <1>13, <1>14, <1>15, <1>16, <1>17, <1>18, <1>19, <1>20 DEF IInv

-----------------------------------------------------------------------------
(***************************************************************************)
(* No chat in a queue is aborted, so the loop of dequeueNextQueuedChat     *)
(* takes the first entry: it never skips one.                              *)
(***************************************************************************)
LEMMA DequeueFirst ==
    ASSUME IInv, NEW c \in Conn
    PROVE  DequeueIndex(queue[c]) = 1
  <1> DEFINE q == queue[c]
  <1>1. Len(q) \in Nat /\ q \in Seq(Entry)
    BY Held DEF IInv
  <1>2. \A i \in 1..Len(q) : q[i].task \notin aborted
    BY DEF IInv, QueueHoldsQueued
  <1>3. CASE Len(q) = 0
    BY <1>1, <1>3 DEF DequeueIndex
  <1>4. CASE Len(q) # 0
    <2> DEFINE P(i) == q[i].task \notin aborted /\ \A j \in 1..(i - 1) : q[j].task \in aborted
    <2>1. 1 \in 1..Len(q) /\ P(1)
      BY <1>1, <1>2, <1>4
    <2>2. \A i \in 1..Len(q) : P(i) => i = 1
      BY <1>1, <1>2, <2>1
    <2>3. (CHOOSE i \in 1..Len(q) : P(i)) = 1
      BY <2>1, <2>2
    <2> QED
      BY <2>1, <2>3 DEF DequeueIndex
  <1> QED
    BY <1>3, <1>4

(***************************************************************************)
(* The end of run w moves w's task out of running, if it was not aborted;  *)
(* an aborted chat's record stays as it is.                                *)
(***************************************************************************)
LEMMA RunEnds ==
    ASSUME IInv, NEW w \in runs, NEW outcome \in Outcomes
    PROVE  /\ \A t \in Reported(w) : /\ t = w.task /\ taskState[t] = "running"
                                     /\ Accepts(taskState, t, outcome)
           /\ w.task \notin Reported(w) => w.task \in aborted
           /\ outcome \in TaskStates /\ outcome \in TerminalStates
           /\ Reported(w) \subseteq Task
           /\ ViewAtEnd(w, outcome) \in [Task -> View]
  <1>1. w.task \in Task
    BY Held DEF IInv
  <1>2. \A t \in Reported(w) : t = w.task /\ t \notin aborted
    BY DEF Reported, Silenced
  <1>3. w.task \notin aborted => taskState[w.task] = "running"
    BY DEF IInv, RunStates
  <1>4. outcome \in TaskStates /\ outcome \in TerminalStates
    BY DEF Outcomes, TaskStates, TerminalStates
  <1>5. \A t \in Reported(w) : Accepts(taskState, t, outcome)
    BY <1>2, <1>3
    DEF Outcomes, Accepts, CanTransition, ALLOWED_TRANSITIONS, TaskStates, LiveStates
  <1>6. Told(OutcomeMsg(outcome)) \in View
    BY MaxQueuedAssumption DEF Told, OutcomeMsg, View, Msgs
  <1>7. ViewAtEnd(w, outcome) \in [Task -> View]
    BY <1>1, <1>6 DEF ViewAtEnd, IInv, TypeOK
  <1>8. w.task \notin Reported(w) => w.task \in aborted
    BY DEF Reported, Silenced
  <1> QED
    BY <1>1, <1>2, <1>3, <1>4, <1>5, <1>7, <1>8

LEMMA FinishIdleInv ==
    ASSUME IInv, NEW w \in runs, NEW outcome \in Outcomes, FinishIdle(w, outcome)
    PROVE  IInv'
  <1> DEFINE c == w.conn
  <1>1. TypeOK
    BY DEF IInv
  <1>2. /\ w \in Run /\ c \in Conn /\ w.id \in Req /\ w.task \in Task
        /\ w = [conn |-> c, id |-> w.id, task |-> w.task]
    BY <1>1, Held
  <1>3. activeChats[c][w.id] = w.task /\ w.task # NoTask
    BY <1>2, NoTaskAssumption DEF IInv, RunsAreActiveChats
  <1>4. queue[c] = <<>>
    BY <1>1, <1>2, DequeueFirst, Held DEF FinishIdle
  <1>5. /\ runs' = runs \ {w}
        /\ queue' = queue
        /\ queuedCount' = Minus(queuedCount, 0)
        /\ activeChats' = [activeChats EXCEPT ![c][w.id] = NoTask]
        /\ runningChatId' = [runningChatId EXCEPT ![c] =
                IF runningChatId[c] = w.id THEN NoReq ELSE runningChatId[c]]
        /\ taskState' \in Transitioned(taskState, Settled(w, outcome))
        /\ view' = ViewAtEnd(w, outcome)
        /\ UNCHANGED <<conn, aborted, sessionOf, daemon>>
    BY <1>1, <1>2, <1>4 DEF FinishIdle, TypeOK
  <1> HIDE DEF c
  <1>6. /\ taskState' \in RegistryType
        /\ \A u \in Task : KeptOrEvicted(IF u \in Reported(w) THEN outcome ELSE taskState[u],
                                         taskState'[u])
    <2> DEFINE upd == Settled(w, outcome)
    <2>1. /\ DOMAIN upd = Reported(w) /\ DOMAIN upd \subseteq Task
          /\ \A x \in DOMAIN upd : upd[x] = outcome /\ upd[x] \in TaskStates
          /\ \A x \in DOMAIN upd : Accepts(taskState, x, upd[x])
      BY RunEnds DEF Settled
    <2>2. taskState \in RegistryType
      BY <1>1 DEF TypeOK, RegistryType
    <2>3. taskState' \in Transitioned(taskState, upd)
      BY <1>5
    <2> HIDE DEF upd
    <2>4. /\ taskState' \in RegistryType
          /\ \A u \in Task : KeptOrEvicted(IF u \in DOMAIN upd /\ Accepts(taskState, u, upd[u])
                                           THEN upd[u] ELSE taskState[u], taskState'[u])
      BY <2>1, <2>2, <2>3, TransitionedFacts
    <2> QED
      BY <2>1, <2>4
  <1>7. /\ \A u \in Task \ {w.task} : KeptOrEvicted(taskState[u], taskState'[u])
        /\ taskState'[w.task] \in TerminalStates \cup {Absent}
        /\ w.task \in aborted => taskState'[w.task] \in {"cancelled", Absent}
    <2>1. \A u \in Task \ {w.task} : u \notin Reported(w)
      BY DEF Reported
    <2>2. w.task \in aborted => taskState[w.task] \in {"cancelled", Absent} /\ w.task \notin Reported(w)
      BY DEF IInv, RunStates, Reported, Silenced
    <2>3. w.task \notin Reported(w) => w.task \in aborted
      BY RunEnds
    <2> QED
      BY <1>2, <1>6, <2>1, <2>2, <2>3 DEF KeptOrEvicted, TerminalStates, Outcomes
  <1>8. TypeOK'
    <2>1. queuedCount' \in Nat
      BY <1>1, <1>5 DEF TypeOK, Minus
    <2>2. view' \in [Task -> View]
      BY <1>5, RunEnds
    <2> QED
      BY <1>1, <1>2, <1>5, <1>6, <2>1, <2>2 DEF TypeOK, RegistryType
  <1>9. ClosedHoldsNothing'
    BY <1>1, <1>2, <1>5 DEF IInv, ClosedHoldsNothing, TypeOK
  <1>10. RunsAreActiveChats'
    <2> SUFFICES ASSUME NEW d \in Conn, NEW q \in Req, NEW u \in Task
                 PROVE  [conn |-> d, id |-> q, task |-> u] \in runs' <=> activeChats'[d][q] = u
      BY DEF RunsAreActiveChats
    <2>1. activeChats'[d][q] = IF d = c /\ q = w.id THEN NoTask ELSE activeChats[d][q]
      BY <1>1, <1>2, <1>5 DEF TypeOK
    <2>2. [conn |-> d, id |-> q, task |-> u] \in runs <=> activeChats[d][q] = u
      BY DEF IInv, RunsAreActiveChats
    <2>3. [conn |-> d, id |-> q, task |-> u] = w <=> d = c /\ q = w.id /\ u = w.task
      BY <1>2
    <2> QED
      BY <2>1, <2>2, <2>3, <1>3, <1>5, NoTaskAssumption
  <1>11. RunningIsActive'
    <2> SUFFICES ASSUME NEW d \in Open
                 PROVE  /\ \A q \in Req : activeChats'[d][q] # NoTask => runningChatId'[d] = q
                        /\ runningChatId'[d] # NoReq => activeChats'[d][runningChatId'[d]] # NoTask
                        /\ queue'[d] # <<>> => runningChatId'[d] # NoReq
      BY <1>5 DEF RunningIsActive, Open
    <2>1. CASE d = c
      <3>1. runningChatId[c] = w.id
        BY <2>1, <1>2, <1>3 DEF IInv, RunningIsActive
      <3>2. runningChatId'[c] = NoReq
        BY <3>1, <1>1, <1>2, <1>5 DEF TypeOK
      <3>3. \A q \in Req : activeChats'[c][q] = NoTask
        BY <2>1, <3>1, <1>1, <1>2, <1>5 DEF IInv, RunningIsActive, TypeOK
      <3> QED
        BY <2>1, <3>2, <3>3, <1>4, <1>5
    <2>2. CASE d # c
      <3>1. /\ activeChats'[d] = activeChats[d] /\ runningChatId'[d] = runningChatId[d]
            /\ queue'[d] = queue[d] /\ d \in Conn
        BY <2>2, <1>1, <1>5 DEF TypeOK, Open
      <3> QED
        BY <3>1 DEF IInv, RunningIsActive
    <2> QED
      BY <2>1, <2>2
  <1>12. \A d \in Conn : \A i \in 1..Len(queue[d]) :
            queue[d][i].task \in Task /\ queue[d][i].task # w.task
    BY <1>1, Held DEF IInv, QueueHoldsQueued, RunStates, Absent
  <1>13. QueueHoldsQueued'
    BY <1>5, <1>7, <1>12 DEF IInv, QueueHoldsQueued, KeptOrEvicted, TerminalStates
  <1>14. QueueBounded' /\ HeldOnce'
    BY <1>5 DEF IInv, QueueBounded, HeldOnce
  <1>15. RunStates'
    <2> SUFFICES ASSUME NEW v \in runs, v # w
                 PROVE  /\ v.task \notin aborted => taskState'[v.task] = "running" /\ conn[v.conn] = "open"
                        /\ v.task \in aborted => taskState'[v.task] \in {"cancelled", Absent}
      BY <1>5 DEF RunStates
    <2>1. v.task \in Task \ {w.task}
      BY <1>1, Held DEF IInv, HeldOnce
    <2> QED
      BY <2>1, <1>7 DEF IInv, RunStates, KeptOrEvicted, TerminalStates, Absent
  <1>16. LiveIsHeld'
    <2> SUFFICES ASSUME NEW u \in Task, taskState'[u] \in LiveStates
                 PROVE  \/ \E d \in Conn : \E i \in 1..Len(queue[d]) : queue[d][i].task = u
                        \/ \E v \in runs' : v.task = u /\ u \notin aborted
      BY <1>5 DEF LiveIsHeld, LiveIn
    <2>1. u # w.task
      BY <1>7 DEF LiveStates, TerminalStates, Absent
    <2>2. u \in LiveIn(taskState)
      BY <2>1, <1>7 DEF LiveIn, KeptOrEvicted, LiveStates, Absent
    <2> QED
      BY <2>1, <2>2, <1>5 DEF IInv, LiveIsHeld
  <1>17. UnusedUntouched'
    <2> SUFFICES ASSUME NEW u \in Unused
                 PROVE  taskState'[u] = Absent /\ u \notin aborted /\ \A v \in runs' : v.task # u
      BY <1>5 DEF UnusedUntouched, Unused
    <2>1. u \in Task /\ u # w.task
      BY DEF IInv, UnusedUntouched, Unused
    <2> QED
      BY <2>1, <1>5, <1>7 DEF IInv, UnusedUntouched, KeptOrEvicted, TerminalStates, Absent
  <1> QED
    BY <1>8, <1>9, <1>10, <1>11, <1>13, <1>14, <1>15, <1>16, <1>17 DEF IInv

-----------------------------------------------------------------------------
LEMMA FinishHandOverInv ==
    ASSUME IInv, NEW w \in runs, NEW outcome \in Outcomes, FinishHandOver(w, outcome)
    PROVE  IInv'
  <1> DEFINE c    == w.conn
             next == queue[c][1]
             n    == Len(queue[c])
             rest == SubSeq(queue[c], 2, n)
             t    == next.task
             v0   == [conn |-> c, id |-> next.id, task |-> t]
  <1>1. TypeOK
    BY DEF IInv
  <1>2. /\ w \in Run /\ c \in Conn /\ w.id \in Req /\ w.task \in Task
        /\ w = [conn |-> c, id |-> w.id, task |-> w.task]
    BY <1>1, Held
  <1>3. activeChats[c][w.id] = w.task /\ w.task # NoTask
    BY <1>2, NoTaskAssumption DEF IInv, RunsAreActiveChats
  <1>4. /\ n \in Nat /\ 1 <= n /\ queue[c] \in Seq(Entry) /\ queue \in [Conn -> Seq(Entry)]
        /\ next.id \in Req /\ t \in Task
    <2>1. n \in Nat /\ queue[c] \in Seq(Entry) /\ queue \in [Conn -> Seq(Entry)]
      BY <1>1, <1>2, Held DEF TypeOK
    <2>2. 1 <= n
      BY <1>2, DequeueFirst DEF FinishHandOver
    <2> QED
      BY <1>1, <1>2, <2>1, <2>2, Held
  <1>5. /\ runs' = (runs \ {w}) \cup {v0}
        /\ queue' = [queue EXCEPT ![c] = rest]
        /\ queuedCount' = Minus(queuedCount, 1)
        /\ activeChats' = [activeChats EXCEPT ![c] =
                [[activeChats[c] EXCEPT ![w.id] = NoTask] EXCEPT ![next.id] = t]]
        /\ runningChatId' = [runningChatId EXCEPT ![c] = next.id]
        /\ taskState' \in Transitioned(taskState, SettledAndNext(w, outcome, t))
        /\ view' = WithPositions([ViewAtEnd(w, outcome) EXCEPT ![t] = Told("started")], rest)
        /\ UNCHANGED <<conn, aborted, sessionOf, daemon>>
    <2>1. DequeueIndex(queue[c]) = 1 /\ 1 + 1 = 2
      BY <1>2, DequeueFirst
    <2> QED
      BY <2>1, <1>1, <1>2 DEF FinishHandOver, TypeOK
  <1>6. taskState[t] = "queued" /\ t \notin aborted /\ t # w.task
    <2>1. taskState[t] = "queued" /\ t \notin aborted
      BY <1>2, <1>4 DEF IInv, QueueHoldsQueued
    <2> QED
      BY <2>1 DEF IInv, RunStates, Absent
  <1>7. /\ conn[c] = "open" /\ runningChatId[c] = w.id
        /\ \A q \in Req : q # w.id => activeChats[c][q] = NoTask
    <2>1. conn[c] = "open"
      BY <1>2, <1>4 DEF IInv, ClosedHoldsNothing
    <2> QED
      BY <2>1, <1>2, <1>3 DEF IInv, RunningIsActive, Open
  <1>8. /\ rest \in Seq(Entry) /\ Len(rest) = n - 1
        /\ \A j \in 1..(n - 1) : rest[j] = queue[c][j + 1]
    <2>1. \A j \in 2..n : queue[c][j] \in Entry
      BY <1>4
    <2>2. /\ rest \in Seq(Entry)
          /\ Len(rest) = IF 2 <= n THEN n - 2 + 1 ELSE 0
          /\ \A j \in 1..(n - 2 + 1) : rest[j] = queue[c][2 + j - 1]
      BY <1>4, <2>1, SubSeqProperties
    <2>3. (IF 2 <= n THEN n - 2 + 1 ELSE 0) = n - 1 /\ n - 2 + 1 = n - 1
      BY <1>4
    <2>4. \A j \in 1..(n - 1) : 2 + j - 1 = j + 1
      BY <1>4
    <2> QED
      BY <2>2, <2>3, <2>4
  <1>9. v0 \in Run /\ v0.task = t /\ v0.conn = c
    BY <1>2, <1>4 DEF Run
  <1> HIDE DEF c, rest, next, v0, t, n
  <1>10. /\ \A d \in Conn \ {c} : queue'[d] = queue[d]
         /\ queue'[c] = rest
         /\ queue' \in [Conn -> Seq(Entry)]
    BY <1>2, <1>4, <1>5, <1>8
  <1>11. /\ taskState' \in RegistryType
         /\ taskState'[t] = "running"
         /\ \A u \in Task \ {t, w.task} : KeptOrEvicted(taskState[u], taskState'[u])
         /\ taskState'[w.task] \in TerminalStates \cup {Absent}
         /\ w.task \in aborted => taskState'[w.task] \in {"cancelled", Absent}
    <2> DEFINE upd == SettledAndNext(w, outcome, t)
    <2>1. /\ DOMAIN upd = Reported(w) \cup {t}
          /\ upd[t] = "running"
          /\ \A x \in Reported(w) : upd[x] = outcome
      BY <1>6, RunEnds DEF SettledAndNext
    <2>2. /\ DOMAIN upd \subseteq Task
          /\ \A x \in DOMAIN upd : upd[x] \in TaskStates
      BY <2>1, <1>4, RunEnds DEF TaskStates, LiveStates
    <2>3. taskState \in RegistryType /\ taskState' \in Transitioned(taskState, upd)
      BY <1>1, <1>5 DEF TypeOK, RegistryType
    <2> HIDE DEF upd
    <2>4. /\ taskState' \in RegistryType
          /\ \A u \in Task : KeptOrEvicted(IF u \in DOMAIN upd /\ Accepts(taskState, u, upd[u])
                                           THEN upd[u] ELSE taskState[u], taskState'[u])
      BY <2>2, <2>3, TransitionedFacts
    <2>5. Accepts(taskState, t, "running")
      BY <1>6 DEF Accepts, CanTransition, ALLOWED_TRANSITIONS, TaskStates, LiveStates
    <2>6. taskState'[t] = "running"
      BY <2>1, <2>4, <2>5, <1>4 DEF KeptOrEvicted, TerminalStates
    <2>7. \A u \in Task \ {t, w.task} : KeptOrEvicted(taskState[u], taskState'[u])
      BY <2>1, <2>4, RunEnds
    <2>8. CASE w.task \in Reported(w)
      <3>1. KeptOrEvicted(outcome, taskState'[w.task])
        BY <2>8, <2>1, <2>4, <1>2, RunEnds
      <3>2. w.task \notin aborted
        BY <2>8 DEF Reported, Silenced
      <3> QED
        BY <3>1, <3>2, <2>4, <2>6, <2>7, RunEnds DEF KeptOrEvicted
    <2>9. CASE w.task \notin Reported(w)
      <3>1. w.task \in aborted
        BY <2>9, RunEnds
      <3>2. taskState[w.task] \in {"cancelled", Absent}
        BY <3>1 DEF IInv, RunStates
      <3>3. KeptOrEvicted(taskState[w.task], taskState'[w.task])
        BY <2>9, <2>1, <2>4, <1>2, <1>6
      <3> QED
        BY <3>1, <3>2, <3>3, <2>4, <2>6, <2>7 DEF KeptOrEvicted, TerminalStates
    <2> QED
      BY <2>8, <2>9
  \* A place of the new queues is the next place of the old ones.
  <1> DEFINE old(d, i) == IF d = c THEN i + 1 ELSE i
  <1>12. ASSUME NEW d \in Conn, NEW i \in 1..Len(queue'[d])
         PROVE  /\ old(d, i) \in 1..Len(queue[d])
                /\ queue'[d][i] = queue[d][old(d, i)]
                /\ queue'[d][i].task \in Task \ {t, w.task}
    <2>1. /\ old(d, i) \in 1..Len(queue[d])
          /\ queue'[d][i] = queue[d][old(d, i)]
          /\ d = c => old(d, i) # 1
      BY <1>4, <1>8, <1>10 DEF n
    <2> HIDE DEF old
    <2>2. queue[d][old(d, i)].task \in Task
      BY <2>1, <1>1, Held
    <2>3. queue[d][old(d, i)].task # t
      <3>1. 1 \in 1..Len(queue[c]) /\ t = queue[c][1].task /\ c \in Conn
        BY <1>2, <1>4 DEF t, next, n
      <3> QED
        BY <2>1, <3>1 DEF IInv, HeldOnce
    <2>4. queue[d][old(d, i)].task # w.task
      BY <2>1 DEF IInv, QueueHoldsQueued, RunStates, Absent
    <2> QED
      BY <2>1, <2>2, <2>3, <2>4
  <1>13. TypeOK'
    <2>1. queuedCount' \in Nat
      BY <1>1, <1>5 DEF TypeOK, Minus
    <2>2. Told("started") \in View
      BY MaxQueuedAssumption DEF Told, View, Msgs
    <2>3. [ViewAtEnd(w, outcome) EXCEPT ![t] = Told("started")] \in [Task -> View]
      BY <2>2, RunEnds
    <2>4. Len(rest) <= MaxQueued
      BY <1>2, <1>4, <1>8, MaxQueuedAssumption DEF IInv, QueueBounded, n, c
    <2>5. view' \in [Task -> View]
      BY <2>3, <2>4, <1>5, <1>8, WithPositionsType
    <2>6. activeChats' \in [Conn -> [Req -> Task \cup {NoTask}]]
      BY <1>1, <1>2, <1>4, <1>5 DEF TypeOK
    <2> QED
      BY <1>1, <1>2, <1>4, <1>5, <1>9, <1>10, <1>11, <2>1, <2>5, <2>6 DEF TypeOK, RegistryType
  <1>14. \A d \in Conn, q \in Req :
            activeChats'[d][q] = IF d = c
                                 THEN IF q = next.id THEN t ELSE NoTask
                                 ELSE activeChats[d][q]
    BY <1>1, <1>2, <1>4, <1>5, <1>7 DEF TypeOK
  <1>15. ClosedHoldsNothing'
    BY <1>1, <1>2, <1>5, <1>7, <1>10, <1>14 DEF IInv, ClosedHoldsNothing, TypeOK
  <1>16. RunsAreActiveChats'
    <2> SUFFICES ASSUME NEW d \in Conn, NEW q \in Req, NEW u \in Task
                 PROVE  [conn |-> d, id |-> q, task |-> u] \in runs' <=> activeChats'[d][q] = u
      BY DEF RunsAreActiveChats
    <2> DEFINE v == [conn |-> d, id |-> q, task |-> u]
    <2>1. v \in runs <=> activeChats[d][q] = u
      BY DEF IInv, RunsAreActiveChats
    <2>2. v = w <=> d = c /\ q = w.id /\ u = w.task
      BY <1>2
    <2>3. v = v0 <=> d = c /\ q = next.id /\ u = t
      BY DEF v0
    <2>4. v \in runs' <=> (v \in runs /\ v # w) \/ v = v0
      BY <1>5
    <2> HIDE DEF v
    <2>5. CASE d = c
      BY <2>5, <2>1, <2>2, <2>3, <2>4, <1>3, <1>7, <1>14, NoTaskAssumption DEF v
    <2>6. CASE d # c
      BY <2>6, <2>1, <2>2, <2>3, <2>4, <1>14 DEF v
    <2> QED
      BY <2>5, <2>6
  <1>17. RunningIsActive'
    <2> SUFFICES ASSUME NEW d \in Open
                 PROVE  /\ \A q \in Req : activeChats'[d][q] # NoTask => runningChatId'[d] = q
                        /\ runningChatId'[d] # NoReq => activeChats'[d][runningChatId'[d]] # NoTask
                        /\ queue'[d] # <<>> => runningChatId'[d] # NoReq
      BY <1>5 DEF RunningIsActive, Open
    <2>1. CASE d = c
      <3>1. runningChatId'[c] = next.id /\ next.id # NoReq /\ t # NoTask
        BY <1>1, <1>2, <1>4, <1>5, NoReqAssumption, NoTaskAssumption DEF TypeOK
      <3> QED
        BY <2>1, <3>1, <1>2, <1>4, <1>14
    <2>2. CASE d # c
      <3>1. /\ activeChats'[d] = activeChats[d] /\ runningChatId'[d] = runningChatId[d]
            /\ queue'[d] = queue[d] /\ d \in Conn
        BY <2>2, <1>1, <1>5, <1>10 DEF TypeOK, Open
      <3> QED
        BY <3>1 DEF IInv, RunningIsActive
    <2> QED
      BY <2>1, <2>2
  <1>18. QueueHoldsQueued'
    <2> SUFFICES ASSUME NEW d \in Conn, NEW i \in 1..Len(queue'[d])
                 PROVE  queue'[d][i].task \notin aborted' /\ taskState'[queue'[d][i].task] = "queued"
      BY DEF QueueHoldsQueued
    <2>1. /\ queue'[d][i].task \in Task \ {t, w.task}
          /\ queue'[d][i].task \notin aborted
          /\ taskState[queue'[d][i].task] = "queued"
      BY <1>12 DEF IInv, QueueHoldsQueued
    <2> QED
      BY <2>1, <1>5, <1>11 DEF KeptOrEvicted, TerminalStates
  <1>19. QueueBounded'
    <2>1. \A d \in Conn : Len(queue[d]) <= MaxQueued
      BY DEF IInv, QueueBounded
    <2>2. Len(queue'[c]) <= MaxQueued
      BY <2>1, <1>2, <1>4, <1>8, <1>10, MaxQueuedAssumption DEF n, c
    <2> QED
      BY <2>1, <2>2, <1>10 DEF QueueBounded
  <1>20. HeldOnce'
    <2>1. ASSUME NEW d \in Conn, NEW f \in Conn,
                 NEW i \in 1..Len(queue'[d]), NEW j \in 1..Len(queue'[f]),
                 queue'[d][i].task = queue'[f][j].task
          PROVE  d = f /\ i = j
      <3>1. /\ old(d, i) \in 1..Len(queue[d]) /\ old(f, j) \in 1..Len(queue[f])
            /\ queue[d][old(d, i)].task = queue[f][old(f, j)].task
        BY <2>1, <1>12
      <3> HIDE DEF old
      <3>2. d = f /\ old(d, i) = old(f, j)
        BY <3>1 DEF IInv, HeldOnce
      <3> USE DEF old
      <3>3. i \in Int /\ j \in Int
        BY <1>10, <1>4
      <3> QED
        BY <3>2, <3>3
    <2>2. ASSUME NEW v \in runs', NEW x \in runs', v.task = x.task
          PROVE  v = x
      <3>1. \A y \in runs : y.task # t
        BY <1>6 DEF IInv, RunStates, Absent
      <3> QED
        BY <2>2, <3>1, <1>5, <1>9 DEF IInv, HeldOnce
    <2> QED
      BY <2>1, <2>2 DEF HeldOnce
  <1>21. RunStates'
    <2> SUFFICES ASSUME NEW v \in runs'
                 PROVE  /\ v.task \notin aborted => taskState'[v.task] = "running" /\ conn[v.conn] = "open"
                        /\ v.task \in aborted => taskState'[v.task] \in {"cancelled", Absent}
      BY <1>5 DEF RunStates
    <2>1. CASE v = v0
      BY <2>1, <1>6, <1>7, <1>9, <1>11
    <2>2. CASE v # v0
      <3>1. v \in runs /\ v # w
        BY <2>2, <1>5
      <3>2. v.task \in Task \ {t, w.task}
        <4>1. v.task \in Task
          BY <3>1, <1>1, Held
        <4>2. v.task # w.task
          BY <3>1 DEF IInv, HeldOnce
        <4>3. v.task # t
          BY <3>1, <1>6 DEF IInv, RunStates, Absent
        <4> QED
          BY <4>1, <4>2, <4>3
      <3> QED
        BY <3>1, <3>2, <1>11 DEF IInv, RunStates, KeptOrEvicted, TerminalStates, Absent
    <2> QED
      BY <2>1, <2>2
  <1>22. LiveIsHeld'
    <2> SUFFICES ASSUME NEW u \in Task, taskState'[u] \in LiveStates
                 PROVE  \/ \E d \in Conn : \E i \in 1..Len(queue'[d]) : queue'[d][i].task = u
                        \/ \E v \in runs' : v.task = u /\ u \notin aborted
      BY <1>5 DEF LiveIsHeld, LiveIn
    <2>1. u # w.task
      BY <1>11 DEF LiveStates, TerminalStates, Absent
    <2>2. CASE u = t
      BY <2>2, <1>5, <1>6, <1>9
    <2>3. CASE u # t
      <3>1. u \in LiveIn(taskState)
        BY <2>1, <2>3, <1>11 DEF LiveIn, KeptOrEvicted, LiveStates, Absent
      <3>2. CASE \E v \in runs : v.task = u /\ u \notin aborted
        BY <2>1, <3>2, <1>5
      <3>3. ASSUME NEW d \in Conn, NEW i \in 1..Len(queue[d]), queue[d][i].task = u
            PROVE  \E j \in 1..Len(queue'[d]) : queue'[d][j].task = u
        <4>1. CASE d # c
          BY <3>3, <4>1, <1>10
        <4>2. CASE d = c
          <5>1. i # 1
            BY <2>3, <3>3, <4>2 DEF t, next
          <5>2. i - 1 \in 1..(n - 1) /\ (i - 1) + 1 = i
            BY <5>1, <4>2, <1>4 DEF n
          <5>3. i - 1 \in 1..Len(queue'[c]) /\ queue'[c][i - 1] = queue[c][i]
            BY <5>2, <1>8, <1>10
          <5> QED
            BY <5>3, <3>3, <4>2
        <4> QED
          BY <4>1, <4>2
      <3> QED
        BY <3>1, <3>2, <3>3 DEF IInv, LiveIsHeld
    <2> QED
      BY <2>2, <2>3
  <1>23. UnusedUntouched'
    <2> SUFFICES ASSUME NEW u \in Unused
                 PROVE  taskState'[u] = Absent /\ u \notin aborted /\ \A v \in runs' : v.task # u
      BY <1>5 DEF UnusedUntouched, Unused
    <2>1. u \in Task /\ u # w.task /\ u # t
      BY <1>6 DEF IInv, UnusedUntouched, Unused, Absent
    <2> QED
      BY <2>1, <1>5, <1>9, <1>11 DEF IInv, UnusedUntouched, KeptOrEvicted, TerminalStates, Absent
  <1> QED
    BY <1>13, <1>15, <1>16, <1>17, <1>18, <1>19, <1>20, <1>21, <1>22, <1>23 DEF IInv

(***************************************************************************)
(* The places of a set of queues, member by member, and that there are     *)
(* finitely many of them.                                                  *)
(***************************************************************************)
LEMMA WaitingPlaces ==
    ASSUME IInv, NEW S \in SUBSET Conn
    PROVE  /\ \A d, i : <<d, i>> \in Waiting(S) <=> d \in S /\ i \in 1..Len(queue[d])
           /\ \A p \in Waiting(S) : p = <<p[1], p[2]>>
           /\ IsFiniteSet(Waiting(S))
           /\ Cardinality(Waiting(S)) \in Nat
  <1>1. \A d, i : <<d, i>> \in Waiting(S) <=> d \in S /\ i \in 1..Len(queue[d])
    BY DEF Waiting
  <1>2. \A p \in Waiting(S) : p = <<p[1], p[2]>>
    BY DEF Waiting
  <1>3. Waiting(S) \subseteq Conn \X (1..MaxQueued)
    <2> SUFFICES ASSUME NEW c \in S, NEW i \in 1..Len(queue[c])
                 PROVE  <<c, i>> \in Conn \X (1..MaxQueued)
      BY DEF Waiting
    <2>1. c \in Conn /\ Len(queue[c]) \in Nat /\ Len(queue[c]) <= MaxQueued
      BY Held DEF IInv, QueueBounded
    <2> QED
      BY <2>1, MaxQueuedAssumption
  <1>4. IsFiniteSet(Conn \X (1..MaxQueued))
    <2>1. MaxQueued \in Int /\ 1 \in Int
      BY MaxQueuedAssumption
    <2>2. IsFiniteSet(1..MaxQueued)
      BY <2>1, FS_Interval
    <2> QED
      BY <2>2, FiniteAssumption, FS_Product
  <1> QED
    BY <1>1, <1>2, <1>3, <1>4, FS_Subset, FS_CardinalityType

-----------------------------------------------------------------------------
LEMMA CloseInv ==
    ASSUME IInv, NEW S \in SUBSET Open, CloseConnections(S),
           daemon' \in {"serving", "stopping", "forced", "stopped"}
    PROVE  IInv'
  <1> DEFINE doomed == UNION {WorkOf(c) : c \in S}
  <1>1. TypeOK
    BY DEF IInv
  <1>2. /\ conn' = [c \in Conn |-> IF c \in S THEN "closed" ELSE conn[c]]
        /\ aborted' = aborted \cup doomed
        /\ taskState' \in Transitioned(taskState, AllCancelled(doomed))
        /\ queuedCount' = Minus(queuedCount, Cardinality(Waiting(S)))
        /\ queue' = [c \in Conn |-> IF c \in S THEN <<>> ELSE queue[c]]
        /\ runningChatId' = [c \in Conn |-> IF c \in S THEN NoReq ELSE runningChatId[c]]
        /\ UNCHANGED <<activeChats, runs, sessionOf, view>>
    BY DEF CloseConnections
  <1>3. \A t : t \in doomed <=> \E c \in S :
                    \/ \E r \in Req : activeChats[c][r] = t /\ t # NoTask
                    \/ \E i \in 1..Len(queue[c]) : queue[c][i].task = t
    BY DEF WorkOf, ActiveTasks, QueuedTasks
  <1> HIDE DEF doomed
  <1>4. S \subseteq Conn
    BY DEF Open
  <1>5. ASSUME NEW t \in doomed
        PROVE  /\ t \in Task
               /\ \/ taskState[t] = "queued"
                  \/ \E w \in runs : w.task = t
    <2>1. PICK c \in S :
                    \/ \E r \in Req : activeChats[c][r] = t /\ t # NoTask
                    \/ \E i \in 1..Len(queue[c]) : queue[c][i].task = t
      BY <1>3
    <2>2. c \in Conn
      BY <1>4
    <2>3. ASSUME NEW r \in Req, activeChats[c][r] = t, t # NoTask
          PROVE  t \in Task /\ \E w \in runs : w.task = t
      <3>1. t \in Task
        BY <2>2, <2>3, <1>1 DEF TypeOK
      <3>2. [conn |-> c, id |-> r, task |-> t] \in runs
        BY <2>2, <2>3, <3>1 DEF IInv, RunsAreActiveChats
      <3> QED
        BY <3>1, <3>2
    <2>4. ASSUME NEW i \in 1..Len(queue[c]), queue[c][i].task = t
          PROVE  t \in Task /\ taskState[t] = "queued"
      BY <2>2, <2>4, <1>1, Held DEF IInv, QueueHoldsQueued
    <2> QED
      BY <2>1, <2>3, <2>4
  <1>6. \A t \in doomed : Accepts(taskState, t, "cancelled")
    BY <1>5 DEF IInv, RunStates, Accepts, CanTransition, ALLOWED_TRANSITIONS,
                TaskStates, LiveStates
  <1>7. /\ taskState' \in RegistryType
        /\ \A t \in doomed : taskState'[t] \in {"cancelled", Absent}
        /\ \A t \in Task \ doomed : KeptOrEvicted(taskState[t], taskState'[t])
    <2> DEFINE upd == AllCancelled(doomed)
    <2>1. /\ DOMAIN upd = doomed /\ DOMAIN upd \subseteq Task
          /\ \A x \in DOMAIN upd : upd[x] = "cancelled" /\ upd[x] \in TaskStates
      BY <1>5 DEF AllCancelled, TaskStates, TerminalStates
    <2>2. taskState \in RegistryType /\ taskState' \in Transitioned(taskState, upd)
      BY <1>1, <1>2 DEF TypeOK, RegistryType
    <2> HIDE DEF upd
    <2>3. /\ taskState' \in RegistryType
          /\ \A u \in Task : KeptOrEvicted(IF u \in DOMAIN upd /\ Accepts(taskState, u, upd[u])
                                           THEN upd[u] ELSE taskState[u], taskState'[u])
      BY <2>1, <2>2, TransitionedFacts
    <2>4. \A t \in doomed : KeptOrEvicted("cancelled", taskState'[t])
      BY <2>1, <2>3, <1>5, <1>6
    <2> QED
      BY <2>1, <2>3, <2>4 DEF KeptOrEvicted
  <1>8. ASSUME NEW w \in runs
        PROVE  w.conn \in S <=> w.task \in doomed
    <2>1. /\ w.conn \in Conn /\ w.id \in Req /\ w.task \in Task
          /\ w = [conn |-> w.conn, id |-> w.id, task |-> w.task]
      BY <1>1, Held
    <2>2. activeChats[w.conn][w.id] = w.task /\ w.task # NoTask
      BY <2>1, NoTaskAssumption DEF IInv, RunsAreActiveChats
    <2>3. w.conn \in S => w.task \in doomed
      BY <2>1, <2>2, <1>3
    <2>4. ASSUME NEW c \in S, NEW r \in Req, activeChats[c][r] = w.task
          PROVE  w.conn \in S
      <3>1. [conn |-> c, id |-> r, task |-> w.task] \in runs
        BY <2>1, <2>4, <1>4 DEF IInv, RunsAreActiveChats
      <3>2. w = [conn |-> c, id |-> r, task |-> w.task]
        BY <3>1 DEF IInv, HeldOnce
      <3>3. w.conn = c
        BY <3>2
      <3> QED
        BY <3>3
    <2>5. ASSUME NEW c \in S, NEW i \in 1..Len(queue[c]), queue[c][i].task = w.task
          PROVE  FALSE
      BY <2>5, <1>4 DEF IInv, QueueHoldsQueued, RunStates, Absent
    <2> QED
      BY <2>3, <2>4, <2>5, <1>3
  <1>9. ASSUME NEW d \in Conn, NEW i \in 1..Len(queue[d]), d \notin S
        PROVE  queue[d][i].task \in Task \ doomed
    <2>1. queue[d][i].task \in Task /\ taskState[queue[d][i].task] = "queued"
      BY <1>1, Held DEF IInv, QueueHoldsQueued
    <2>2. ASSUME NEW c \in S, NEW j \in 1..Len(queue[c]), queue[c][j].task = queue[d][i].task
          PROVE  FALSE
      BY <2>2, <1>4, <1>9 DEF IInv, HeldOnce
    <2>3. ASSUME NEW c \in S, NEW r \in Req, activeChats[c][r] = queue[d][i].task
          PROVE  FALSE
      <3>1. [conn |-> c, id |-> r, task |-> queue[d][i].task] \in runs
        BY <2>1, <2>3, <1>4 DEF IInv, RunsAreActiveChats
      <3> QED
        BY <3>1, <2>1 DEF IInv, RunStates, Absent
    <2> QED
      BY <2>1, <2>2, <2>3, <1>3
  <1>10. TypeOK'
    <2>3. Cardinality(Waiting(S)) \in Nat
      BY WaitingPlaces DEF Open
    <2>4. queuedCount' \in Nat
      BY <2>3, <1>1, <1>2 DEF TypeOK, Minus
    <2>5. doomed \subseteq Task
      BY <1>5
    <2>6. conn' \in [Conn -> {"new", "open", "closed"}] /\ queue' \in [Conn -> Seq(Entry)]
      BY <1>1, <1>2 DEF TypeOK
    <2>7. runningChatId' \in [Conn -> Req \cup {NoReq}] /\ aborted' \in SUBSET Task
      BY <1>1, <1>2, <2>5 DEF TypeOK
    <2> QED
      BY <1>1, <1>2, <1>7, <2>4, <2>6, <2>7 DEF TypeOK, RegistryType
  <1>11. ClosedHoldsNothing'
    BY <1>2 DEF IInv, ClosedHoldsNothing
  <1>12. RunsAreActiveChats'
    BY <1>2 DEF IInv, RunsAreActiveChats
  <1>13. RunningIsActive'
    BY <1>2 DEF IInv, RunningIsActive, Open
  <1>14. \A d \in Conn : \A i \in 1..Len(queue'[d]) :
            d \notin S /\ queue'[d] = queue[d] /\ i \in 1..Len(queue[d])
    BY <1>2
  <1>15. QueueHoldsQueued'
    <2> SUFFICES ASSUME NEW d \in Conn, NEW i \in 1..Len(queue'[d])
                 PROVE  queue'[d][i].task \notin aborted' /\ taskState'[queue'[d][i].task] = "queued"
      BY DEF QueueHoldsQueued
    <2>1. d \notin S /\ queue'[d] = queue[d] /\ i \in 1..Len(queue[d])
      BY <1>14
    <2>2. queue[d][i].task \in Task \ doomed
      BY <2>1, <1>9
    <2>3. queue[d][i].task \notin aborted /\ taskState[queue[d][i].task] = "queued"
      BY <2>1 DEF IInv, QueueHoldsQueued
    <2> QED
      BY <2>1, <2>2, <2>3, <1>2, <1>7 DEF KeptOrEvicted, TerminalStates
  <1>16. QueueBounded'
    BY <1>2, MaxQueuedAssumption DEF IInv, QueueBounded
  <1>17. HeldOnce'
    BY <1>2, <1>14 DEF IInv, HeldOnce
  <1>18. RunStates'
    <2> SUFFICES ASSUME NEW w \in runs
                 PROVE  /\ w.task \notin aborted' => taskState'[w.task] = "running" /\ conn'[w.conn] = "open"
                        /\ w.task \in aborted' => taskState'[w.task] \in {"cancelled", Absent}
      BY <1>2 DEF RunStates
    <2>1. w.conn \in Conn /\ w.task \in Task
      BY <1>1, Held
    <2>2. CASE w.task \in doomed
      BY <2>2, <1>2, <1>7
    <2>3. CASE w.task \notin doomed
      <3>1. w.conn \notin S
        BY <2>3, <1>8
      <3> QED
        BY <2>1, <2>3, <3>1, <1>2, <1>7
        DEF IInv, RunStates, KeptOrEvicted, TerminalStates, Absent
    <2> QED
      BY <2>2, <2>3
  <1>19. LiveIsHeld'
    <2> SUFFICES ASSUME NEW u \in Task, taskState'[u] \in LiveStates
                 PROVE  \/ \E d \in Conn : \E i \in 1..Len(queue'[d]) : queue'[d][i].task = u
                        \/ \E v \in runs : v.task = u /\ u \notin aborted'
      BY <1>2 DEF LiveIsHeld, LiveIn
    <2>1. u \notin doomed
      BY <1>7 DEF LiveStates, Absent
    <2>2. u \in LiveIn(taskState)
      BY <2>1, <1>7 DEF LiveIn, KeptOrEvicted, LiveStates, Absent
    <2>3. CASE \E v \in runs : v.task = u /\ u \notin aborted
      BY <2>1, <2>3, <1>2
    <2>4. ASSUME NEW d \in Conn, NEW i \in 1..Len(queue[d]), queue[d][i].task = u
          PROVE  \E j \in 1..Len(queue'[d]) : queue'[d][j].task = u
      <3>1. d \notin S
        BY <2>1, <2>4, <1>3
      <3> QED
        BY <2>4, <3>1, <1>2
    <2> QED
      BY <2>2, <2>3, <2>4 DEF IInv, LiveIsHeld
  <1>20. UnusedUntouched'
    <2> SUFFICES ASSUME NEW u \in Unused
                 PROVE  taskState'[u] = Absent /\ u \notin aborted' /\ \A v \in runs : v.task # u
      BY <1>2 DEF UnusedUntouched, Unused
    <2>1. /\ u \in Task /\ taskState[u] = Absent /\ u \notin aborted
          /\ \A v \in runs : v.task # u
      BY DEF IInv, UnusedUntouched, Unused
    <2>2. u \notin doomed
      BY <2>1, <1>5 DEF Absent
    <2> QED
      BY <2>1, <2>2, <1>2, <1>7 DEF KeptOrEvicted, TerminalStates, Absent
  <1> QED
    BY <1>10, <1>11, <1>12, <1>13, <1>15, <1>16, <1>17, <1>18, <1>19, <1>20 DEF IInv

-----------------------------------------------------------------------------
(***************************************************************************)
(* Every step keeps the invariant.                                         *)
(***************************************************************************)
LEMMA NextInv == IInv /\ [Next]_vars => IInv'
  <1> SUFFICES ASSUME IInv, [Next]_vars PROVE IInv'
    OBVIOUS
  <1>1. CASE UNCHANGED vars
    BY <1>1 DEF vars, IInv, TypeOK, ClosedHoldsNothing, RunsAreActiveChats,
                RunningIsActive, Open, QueueHoldsQueued, QueueBounded, HeldOnce,
                RunStates, LiveIsHeld, UnusedUntouched, Unused
  <1>2. ASSUME NEW c \in Conn, Connect(c)
        PROVE  IInv'
    <2>1. /\ conn' = [conn EXCEPT ![c] = "open"] /\ conn[c] = "new"
          /\ UNCHANGED <<activeChats, runningChatId, queue, queuedCount, aborted,
                         runs, taskState, sessionOf, view, daemon>>
      BY <1>2 DEF Connect
    <2>2. TypeOK'
      BY <2>1 DEF IInv, TypeOK
    <2>3. /\ queue[c] = <<>> /\ runningChatId[c] = NoReq
          /\ \A r \in Req : activeChats[c][r] = NoTask
      BY <2>1 DEF IInv, ClosedHoldsNothing
    <2>4. ClosedHoldsNothing' /\ RunningIsActive'
      BY <2>1, <2>3 DEF IInv, TypeOK, ClosedHoldsNothing, RunningIsActive, Open
    <2>5. RunStates'
      BY <2>1, Held DEF IInv, TypeOK, RunStates
    <2> QED
      BY <2>1, <2>2, <2>4, <2>5
      DEF IInv, RunsAreActiveChats, QueueHoldsQueued, QueueBounded, HeldOnce,
          LiveIsHeld, UnusedUntouched, Unused
  <1>3. ASSUME NEW c \in Conn, Close(c)
        PROVE  IInv'
    <2>1. {c} \in SUBSET Open /\ CloseConnections({c})
      BY <1>3 DEF Close, Open
    <2>2. daemon' \in {"serving", "stopping", "forced", "stopped"}
      BY <1>3 DEF Close, IInv, TypeOK
    <2> QED
      BY <2>1, <2>2, CloseInv
  <1>4. ASSUME NEW force \in BOOLEAN, ShutdownRequest(force)
        PROVE  IInv'
    BY <1>4 DEF ShutdownRequest, IInv, TypeOK, ClosedHoldsNothing, RunsAreActiveChats,
                RunningIsActive, Open, QueueHoldsQueued, QueueBounded, HeldOnce,
                RunStates, LiveIsHeld, UnusedUntouched, Unused
  <1>5. CASE StopServer
    <2>1. CloseConnections(Open) /\ daemon' = "stopped" /\ Open \in SUBSET Open
      BY <1>5 DEF StopServer
    <2> QED
      BY <2>1, CloseInv
  <1>6. ASSUME NEW w \in runs, Settle(w)
        PROVE  IInv'
    BY <1>6, FinishIdleInv, FinishHandOverInv DEF Settle
  <1>7. ASSUME NEW c \in Conn, ClientStep(c)
        PROVE  IInv'
    BY <1>2, <1>3, <1>7, StartNowInv, StartQueuedInv, AbortActiveInv, AbortQueuedInv
    DEF ClientStep
  <1> QED
    BY <1>1, <1>4, <1>5, <1>6, <1>7 DEF Next

(***************************************************************************)
(* The inductive invariant holds of the specification.                     *)
(***************************************************************************)
THEOREM Invariance == Spec => []IInv
  <1>1. Init => IInv
    BY InitInv
  <1>2. IInv /\ [Next]_vars => IInv'
    BY NextInv
  <1> QED
    BY <1>1, <1>2, PTL DEF Spec

(***************************************************************************)
(* Every variable keeps its type: in particular no position above the      *)
(* queue bound is ever sent to a client.                                   *)
(***************************************************************************)
THEOREM TypeCorrect == Spec => []TypeOK
  <1>1. IInv => TypeOK
    BY DEF IInv
  <1> QED
    BY <1>1, Invariance, PTL

(***************************************************************************)
(* An open connection runs at most one chat, the one it says it runs, and  *)
(* no chat waits behind nobody: startChat's hand-over in its finally block *)
(* never loses a wake-up, whatever messages and disconnects come between.  *)
(***************************************************************************)
THEOREM OneAtATime == Spec => []SerialPerConnection
  <1>1. ASSUME IInv
        PROVE  SerialPerConnection
    <2> SUFFICES ASSUME NEW c \in Open
                 PROVE  /\ {w \in runs : w.conn = c} =
                             IF runningChatId[c] = NoReq THEN {}
                             ELSE {[conn |-> c, id |-> runningChatId[c],
                                    task |-> activeChats[c][runningChatId[c]]]}
                        /\ queue[c] # <<>> => runningChatId[c] # NoReq
      BY DEF SerialPerConnection
    <2>1. TypeOK /\ c \in Conn
      BY <1>1 DEF IInv, Open
    <2>2. queue[c] # <<>> => runningChatId[c] # NoReq
      BY <1>1 DEF IInv, RunningIsActive
    <2>3. ASSUME NEW w \in runs, w.conn = c
          PROVE  /\ w = [conn |-> c, id |-> w.id, task |-> w.task]
                 /\ runningChatId[c] = w.id /\ activeChats[c][w.id] = w.task
                 /\ w.id # NoReq
      <3>1. w \in Run
        BY <2>1 DEF TypeOK
      <3>2. /\ w = [conn |-> c, id |-> w.id, task |-> w.task]
            /\ w.id \in Req /\ w.task \in Task
        BY <2>3, <3>1 DEF Run
      <3>3. activeChats[c][w.id] = w.task
        BY <2>1, <3>2, <1>1 DEF IInv, RunsAreActiveChats
      <3>4. runningChatId[c] = w.id
        BY <3>2, <3>3, <1>1, NoTaskAssumption DEF IInv, RunningIsActive
      <3> QED
        BY <3>2, <3>3, <3>4, NoReqAssumption
    <2>4. CASE runningChatId[c] = NoReq
      BY <2>2, <2>3, <2>4
    <2>5. CASE runningChatId[c] # NoReq
      <3> DEFINE r == runningChatId[c]
                 v == [conn |-> c, id |-> r, task |-> activeChats[c][r]]
      <3>1. r \in Req
        BY <2>1, <2>5 DEF TypeOK
      <3>2. activeChats[c][r] \in Task
        BY <2>1, <2>5, <3>1, <1>1 DEF IInv, RunningIsActive, TypeOK
      <3>3. v \in runs /\ v.conn = c
        BY <2>1, <3>1, <3>2, <1>1 DEF IInv, RunsAreActiveChats
      <3>4. {w \in runs : w.conn = c} = {v}
        BY <2>3, <3>3
      <3> QED
        BY <2>2, <2>5, <3>4
    <2> QED
      BY <2>4, <2>5
  <1> QED
    BY <1>1, Invariance, PTL

(***************************************************************************)
(* The live records of the registry are exactly the work the connections   *)
(* hold, so a shutdown is refused for as long as there is work and never   *)
(* because of a record nobody will finish.                                 *)
(***************************************************************************)
THEOREM NoOrphanedTask == Spec => []LiveTasksOwned
  <1>1. ASSUME IInv
        PROVE  LiveTasksOwned
    <2> SUFFICES ASSUME NEW t \in Task
                 PROVE  /\ taskState[t] # "accepted"
                        /\ taskState[t] = "queued" <=> \E c \in Open : t \in QueuedTasks(queue[c])
                        /\ taskState[t] = "running" <=> \E w \in runs : w.task = t /\ t \notin aborted
      BY DEF LiveTasksOwned
    <2> DEFINE waits == \E c \in Open : t \in QueuedTasks(queue[c])
               works == \E w \in runs : w.task = t /\ t \notin aborted
    <2>1. TypeOK
      BY <1>1 DEF IInv
    <2>2. waits => taskState[t] = "queued"
      BY <1>1 DEF IInv, QueueHoldsQueued, QueuedTasks, Open
    <2>3. works => taskState[t] = "running"
      BY <1>1 DEF IInv, RunStates
    <2>4. ASSUME NEW c \in Conn, NEW i \in 1..Len(queue[c]), queue[c][i].task = t
          PROVE  waits
      <3>1. conn[c] = "open"
        <4> SUFFICES ASSUME conn[c] # "open"
                     PROVE  FALSE
          OBVIOUS
        <4>1. queue[c] = <<>>
          BY <1>1 DEF IInv, ClosedHoldsNothing
        <4>2. Len(queue[c]) = 0
          BY <4>1
        <4> QED
          BY <4>2
      <3> QED
        BY <2>4, <3>1 DEF Open, QueuedTasks
    <2>5. taskState[t] \in LiveStates => waits \/ works
      <3> SUFFICES ASSUME taskState[t] \in LiveStates
                   PROVE  waits \/ works
        OBVIOUS
      <3>1. \/ \E c \in Conn : \E i \in 1..Len(queue[c]) : queue[c][i].task = t
            \/ works
        BY <1>1 DEF IInv, LiveIsHeld, LiveIn
      <3> QED
        BY <2>4, <3>1
    <2> QED
      BY <2>2, <2>3, <2>5 DEF LiveStates
  <1> QED
    BY <1>1, Invariance, PTL

(***************************************************************************)
(* The position updates of rpc-queue.ts reach only waiting chats, and none *)
(* of those was aborted.                                                   *)
(***************************************************************************)
LEMMA PositionsReachWaiting ==
    ASSUME NEW v \in [Task -> View], NEW q \in Seq(Entry), NEW t \in Task,
           \A i \in 1..Len(q) : q[i].task \notin aborted,
           t \in aborted
    PROVE  WithPositions(v, q)[t] = v[t]
  BY DEF WithPositions, QueuedTasks

(***************************************************************************)
(* An aborted chat stays silent: the checks of signal.aborted in onDone    *)
(* and onError suffice, although its run settles arbitrarily late, another *)
(* chat may have started with the same request id, and the queue behind it *)
(* moves on.                                                               *)
(***************************************************************************)
THEOREM AbortedStaySilent == Spec => NothingAfterAbort
  <1> DEFINE Quiet == \A t \in aborted : view'[t].msg \in {view[t].msg, "aborted"}
  <1>1. ASSUME IInv, [Next]_vars
        PROVE  [Quiet]_vars
    <2> SUFFICES ASSUME Next, NEW t \in aborted
                 PROVE  view'[t].msg \in {view[t].msg, "aborted"}
      BY <1>1
    <2>1. TypeOK /\ t \in Task
      BY <1>1 DEF IInv, TypeOK
    <2>2. view \in [Task -> View] /\ t \notin Unused
      BY <1>1, <2>1 DEF IInv, TypeOK, UnusedUntouched
    <2>3. ASSUME NEW c \in Conn, ClientStep(c)
          PROVE  view'[t].msg \in {view[t].msg, "aborted"}
      <3>1. CASE Connect(c) \/ Close(c)
        BY <3>1 DEF Connect, Close, CloseConnections
      <3>2. ASSUME NEW r \in Req, NEW s \in Session, NEW x \in Task,
                   ChatStartNow(c, r, s, x) \/ ChatStartQueued(c, r, s, x)
            PROVE  view'[t] = view[t]
        BY <2>1, <2>2, <3>2 DEF ChatStartNow, MustWait, ChatStartQueued, AcceptRequest
      <3>3. ASSUME NEW r \in Req, AbortActive(c, r)
            PROVE  view'[t].msg \in {view[t].msg, "aborted"}
        BY <2>1, <2>2, <3>3 DEF AbortActive, Told
      <3>4. ASSUME NEW r \in Req, AbortQueued(c, r)
            PROVE  view'[t].msg \in {view[t].msg, "aborted"}
        <4>1. PICK k \in 1..Len(queue[c]) :
                view' = WithPositions([view EXCEPT ![queue[c][k].task] = Told("aborted")],
                                      WithoutEntry(queue[c], k))
          BY <3>4 DEF AbortQueued
        <4> DEFINE u    == queue[c][k].task
                   rest == WithoutEntry(queue[c], k)
                   v    == [view EXCEPT ![u] = Told("aborted")]
        <4>2. queue[c] \in Seq(Entry) /\ u \in Task /\ u \notin aborted /\ Len(queue[c]) \in Nat
          BY <1>1, <2>1, Held DEF IInv, QueueHoldsQueued
        <4>3. /\ rest \in Seq(Entry)
              /\ \A j \in 1..Len(rest) : rest[j].task \notin aborted
          <5>1. /\ rest \in Seq(Entry) /\ Len(rest) = Len(queue[c]) - 1
                /\ \A j \in 1..(Len(queue[c]) - 1) :
                      rest[j] = queue[c][IF j < k THEN j ELSE j + 1]
            BY <4>2, RemoveAtFacts DEF WithoutEntry
          <5>2. ASSUME NEW j \in 1..Len(rest)
                PROVE  rest[j].task \notin aborted
            <6>1. (IF j < k THEN j ELSE j + 1) \in 1..Len(queue[c])
              BY <4>2, <5>1
            <6> QED
              BY <5>1, <6>1, <1>1 DEF IInv, QueueHoldsQueued
          <5> QED
            BY <5>1, <5>2
        <4>4. v \in [Task -> View] /\ v[t] = view[t]
          BY <2>1, <2>2, <4>2, MaxQueuedAssumption DEF Told, View, Msgs
        <4> QED
          BY <2>1, <4>1, <4>3, <4>4, PositionsReachWaiting
      <3> QED
        BY <2>3, <3>1, <3>2, <3>3, <3>4 DEF ClientStep
    <2>4. ASSUME NEW w \in runs, NEW outcome \in Outcomes,
                 FinishIdle(w, outcome) \/ FinishHandOver(w, outcome)
          PROVE  view'[t] = view[t]
      <3>1. w.conn \in Conn /\ w.task \in Task
        BY <2>1, Held
      <3>2. ViewAtEnd(w, outcome) \in [Task -> View] /\ ViewAtEnd(w, outcome)[t] = view[t]
        BY <1>1, <2>1, <2>2, RunEnds DEF ViewAtEnd, Silenced
      <3>3. CASE FinishIdle(w, outcome)
        BY <3>2, <3>3 DEF FinishIdle
      <3>4. CASE FinishHandOver(w, outcome)
        <4> DEFINE q    == queue[w.conn]
                   rest == SubSeq(q, 2, Len(q))
                   v    == [ViewAtEnd(w, outcome) EXCEPT ![q[1].task] = Told("started")]
        <4>1. view' = WithPositions(v, rest) /\ 1 <= Len(q)
          <5>1. DequeueIndex(q) = 1 /\ 1 + 1 = 2
            BY <1>1, <3>1, DequeueFirst
          <5> QED
            BY <3>4, <5>1 DEF FinishHandOver
        <4>2. q \in Seq(Entry) /\ Len(q) \in Nat /\ \A j \in 1..Len(q) : q[j] \in Entry
          BY <2>1, <3>1, Held
        <4>3. q[1].task \in Task /\ q[1].task \notin aborted
          BY <1>1, <2>1, <3>1, <4>1, <4>2, Held DEF IInv, QueueHoldsQueued
        <4>4. rest \in Seq(Entry) /\ \A j \in 1..Len(rest) : rest[j].task \notin aborted
          <5>1. \A j \in 2..Len(q) : q[j] \in Entry
            BY <4>2
          <5>2. /\ rest \in Seq(Entry)
                /\ Len(rest) = IF 2 <= Len(q) THEN Len(q) - 2 + 1 ELSE 0
                /\ \A j \in 1..(Len(q) - 2 + 1) : rest[j] = q[2 + j - 1]
            BY <4>2, <5>1, SubSeqProperties
          <5>3. ASSUME NEW j \in 1..Len(rest)
                PROVE  rest[j].task \notin aborted
            <6>1. j \in 1..(Len(q) - 2 + 1) /\ 2 + j - 1 \in 1..Len(q)
              BY <4>1, <4>2, <5>2
            <6> QED
              BY <5>2, <6>1, <1>1, <3>1 DEF IInv, QueueHoldsQueued
          <5> QED
            BY <5>2, <5>3
        <4>5. v \in [Task -> View] /\ v[t] = view[t]
          BY <2>1, <3>2, <4>3, MaxQueuedAssumption DEF Told, View, Msgs
        <4> QED
          BY <2>1, <4>1, <4>4, <4>5, PositionsReachWaiting
      <3> QED
        BY <2>4, <3>3, <3>4
    <2>5. ASSUME NEW force \in BOOLEAN, ShutdownRequest(force)
          PROVE  view' = view
      BY <2>5 DEF ShutdownRequest
    <2>6. CASE StopServer
      BY <2>6 DEF StopServer, CloseConnections
    <2> QED
      BY <2>3, <2>4, <2>5, <2>6 DEF Next, Settle
  <1> QED
    BY <1>1, Invariance, PTL DEF Spec, NothingAfterAbort

(***************************************************************************)
(* One queue that becomes longer or shorter by one place.                  *)
(***************************************************************************)
LEMMA OnePlace ==
    ASSUME IInv, IInv', CounterMatchesQueues, NEW c \in Conn,
           \A d \in Conn \ {c} : queue'[d] = queue[d]
    PROVE  /\ Len(queue'[c]) = Len(queue[c]) + 1 /\ queuedCount' = queuedCount + 1
                => CounterMatchesQueues'
           /\ Len(queue'[c]) = Len(queue[c]) - 1 /\ queuedCount' = Minus(queuedCount, 1)
                => CounterMatchesQueues'
  <1> DEFINE W == Waiting(Conn)
             V == Waiting(Conn)'
             n == Len(queue[c])
  <1>1. /\ \A d, i : <<d, i>> \in W <=> d \in Conn /\ i \in 1..Len(queue[d])
        /\ \A p \in W : p = <<p[1], p[2]>>
        /\ IsFiniteSet(W) /\ Cardinality(W) \in Nat
    BY WaitingPlaces
  <1>2. /\ \A d, i : <<d, i>> \in V <=> d \in Conn /\ i \in 1..Len(queue'[d])
        /\ \A p \in V : p = <<p[1], p[2]>>
    BY DEF Waiting
  <1>3. n \in Nat
    BY Held DEF IInv
  <1>4. ASSUME Len(queue'[c]) = n + 1, queuedCount' = queuedCount + 1
        PROVE  CounterMatchesQueues'
    <2>1. V = W \cup {<<c, n + 1>>}
      BY <1>1, <1>2, <1>3, <1>4
    <2>2. <<c, n + 1>> \notin W
      BY <1>1, <1>3
    <2>3. Cardinality(V) = Cardinality(W) + 1
      <3> HIDE DEF V, W
      <3> QED
        BY <2>1, <2>2, <1>1, FS_AddElement
    <2> QED
      BY <2>3, <1>4 DEF CounterMatchesQueues
  <1>5. ASSUME Len(queue'[c]) = n - 1, queuedCount' = Minus(queuedCount, 1)
        PROVE  CounterMatchesQueues'
    <2>1. 1 <= n
      <3>1. Len(queue'[c]) \in Nat
        BY Held DEF IInv, TypeOK
      <3> QED
        BY <1>3, <1>5, <3>1
    <2>2. V = W \ {<<c, n>>}
      BY <1>1, <1>2, <1>3, <1>5, <2>1
    <2>3. <<c, n>> \in W
      BY <1>1, <1>3, <2>1
    <2>4. Cardinality(V) = Cardinality(W) - 1
      BY <2>2, <2>3, <1>1, FS_RemoveElement
    <2>5. Cardinality(V) \in Nat
      BY <2>2, <1>1, FS_RemoveElement, FS_CardinalityType
    <2>6. 1 <= Cardinality(W)
      BY <2>4, <2>5, <1>1
    <2> QED
      BY <2>4, <2>6, <1>1, <1>5 DEF CounterMatchesQueues, Minus
  <1> QED
    BY <1>4, <1>5

(***************************************************************************)
(* Connections that close take all their places with them.                 *)
(***************************************************************************)
LEMMA PlacesOfClosed ==
    ASSUME IInv, CounterMatchesQueues, NEW S \in SUBSET Conn, CloseConnections(S)
    PROVE  CounterMatchesQueues'
  <1> DEFINE W == Waiting(Conn)
             X == Waiting(S)
             V == Waiting(Conn)'
  <1>1. /\ \A d, i : <<d, i>> \in W <=> d \in Conn /\ i \in 1..Len(queue[d])
        /\ \A p \in W : p = <<p[1], p[2]>>
        /\ IsFiniteSet(W) /\ Cardinality(W) \in Nat
        /\ \A d, i : <<d, i>> \in X <=> d \in S /\ i \in 1..Len(queue[d])
        /\ \A p \in X : p = <<p[1], p[2]>>
        /\ Cardinality(X) \in Nat
    BY WaitingPlaces
  <1>2. /\ \A d, i : <<d, i>> \in V <=> d \in Conn /\ i \in 1..Len(queue'[d])
        /\ \A p \in V : p = <<p[1], p[2]>>
    BY DEF Waiting
  <1>3. /\ queue' = [c \in Conn |-> IF c \in S THEN <<>> ELSE queue[c]]
        /\ queuedCount' = Minus(queuedCount, Cardinality(X))
    BY DEF CloseConnections
  <1>4. \A d \in Conn : Len(queue'[d]) = IF d \in S THEN 0 ELSE Len(queue[d])
    BY <1>3
  <1>5. X \subseteq W
    BY <1>1
  <1>6. V = W \ X
    <2>1. ASSUME NEW p \in V PROVE p \in W \ X
      <3>1. p = <<p[1], p[2]>> /\ p[1] \in Conn /\ p[2] \in 1..Len(queue'[p[1]])
        BY <1>2, <2>1
      <3>2. p[1] \notin S
        BY <3>1, <1>4
      <3> QED
        BY <3>1, <3>2, <1>1, <1>4
    <2>2. ASSUME NEW p \in W \ X PROVE p \in V
      <3>1. p = <<p[1], p[2]>> /\ p[1] \in Conn /\ p[2] \in 1..Len(queue[p[1]])
        BY <1>1, <2>2
      <3>2. p[1] \notin S
        BY <3>1, <1>1, <2>2
      <3> QED
        BY <3>1, <3>2, <1>2, <1>4
    <2> QED
      BY <2>1, <2>2
  <1>7. W \cap X = X
    BY <1>5
  <1>8. /\ Cardinality(W \ X) = Cardinality(W) - Cardinality(W \cap X)
        /\ Cardinality(W \ X) \in Nat
    BY <1>1, FS_Difference, FS_CardinalityType
  <1>9. Cardinality(V) = Cardinality(W) - Cardinality(X) /\ Cardinality(V) \in Nat
    BY <1>6, <1>7, <1>8
  <1> QED
    BY <1>1, <1>3, <1>9 DEF CounterMatchesQueues, Minus

(***************************************************************************)
(* The process-wide counter, which four handlers adjust by hand, is exact, *)
(* for any number of connections that abort, finish and disconnect; so the *)
(* Math.max(0, ...) in each of them never hides a negative count.          *)
(***************************************************************************)
THEOREM CounterExact == Spec => []CounterMatchesQueues
  <1>1. ASSUME Init
        PROVE  CounterMatchesQueues
    <2>1. Waiting(Conn) = {}
      BY <1>1 DEF Init, Waiting
    <2> QED
      BY <1>1, <2>1, FS_EmptySet DEF Init, CounterMatchesQueues
  <1>2. ASSUME IInv, IInv', CounterMatchesQueues, [Next]_vars
        PROVE  CounterMatchesQueues'
    <2>1. CASE UNCHANGED <<queue, queuedCount>>
      BY <1>2, <2>1 DEF CounterMatchesQueues, Waiting
    <2>2. TypeOK
      BY <1>2 DEF IInv
    <2>3. ASSUME NEW c \in Conn, NEW r \in Req, NEW s \in Session, NEW t \in Task,
                 ChatStartQueued(c, r, s, t)
          PROVE  CounterMatchesQueues'
      <3>1. queue' = [queue EXCEPT ![c] = Append(queue[c], [id |-> r, task |-> t])]
        BY <2>3 DEF ChatStartQueued, MustWait
      <3>2. Len(queue'[c]) = Len(queue[c]) + 1
        BY <2>2, <3>1, Held DEF TypeOK
      <3>3. \A d \in Conn \ {c} : queue'[d] = queue[d]
        BY <2>2, <3>1 DEF TypeOK
      <3> QED
        BY <1>2, <2>3, <3>2, <3>3, OnePlace DEF ChatStartQueued, MustWait
    <2>4. ASSUME NEW c \in Conn, NEW r \in Req, AbortQueued(c, r)
          PROVE  CounterMatchesQueues'
      <3>1. PICK k \in 1..Len(queue[c]) :
                /\ queue' = [queue EXCEPT ![c] = WithoutEntry(queue[c], k)]
                /\ queuedCount' = Minus(queuedCount, 1)
        BY <2>4 DEF AbortQueued
      <3>2. Len(queue'[c]) = Len(queue[c]) - 1
        BY <2>2, <3>1, Held, RemoveAtFacts DEF TypeOK, WithoutEntry
      <3>3. \A d \in Conn \ {c} : queue'[d] = queue[d]
        BY <2>2, <3>1 DEF TypeOK
      <3> QED
        BY <1>2, <3>1, <3>2, <3>3, OnePlace
    <2>5. ASSUME NEW w \in runs, NEW outcome \in Outcomes, FinishIdle(w, outcome)
          PROVE  CounterMatchesQueues'
      <3>1. w.conn \in Conn /\ Len(queue[w.conn]) \in Nat /\ DequeueIndex(queue[w.conn]) = 1
        BY <1>2, <2>2, Held, DequeueFirst
      <3>2. Len(queue[w.conn]) = 0 /\ queue[w.conn] = <<>>
        BY <2>2, <2>5, <3>1, Held DEF FinishIdle
      <3>3. queue' = queue /\ queuedCount' = queuedCount
        BY <2>2, <2>5, <3>1, <3>2 DEF FinishIdle, TypeOK, Minus
      <3> QED
        BY <2>1, <3>3
    <2>6. ASSUME NEW w \in runs, NEW outcome \in Outcomes, FinishHandOver(w, outcome)
          PROVE  CounterMatchesQueues'
      <3> DEFINE q == queue[w.conn]
      <3>1. w.conn \in Conn /\ Len(q) \in Nat /\ DequeueIndex(q) = 1 /\ q \in Seq(Entry)
        BY <1>2, <2>2, Held, DequeueFirst
      <3>2. /\ 1 <= Len(q) /\ queuedCount' = Minus(queuedCount, 1)
            /\ queue' = [queue EXCEPT ![w.conn] = SubSeq(q, 2, Len(q))]
        <4>1. 1 + 1 = 2
          OBVIOUS
        <4> QED
          BY <2>6, <3>1, <4>1 DEF FinishHandOver
      <3>3. Len(queue'[w.conn]) = Len(q) - 1
        BY <2>2, <3>1, <3>2 DEF TypeOK
      <3>4. \A d \in Conn \ {w.conn} : queue'[d] = queue[d]
        BY <2>2, <3>2 DEF TypeOK
      <3> QED
        BY <1>2, <3>1, <3>2, <3>3, <3>4, OnePlace
    <2>7. ASSUME NEW S \in SUBSET Conn, CloseConnections(S)
          PROVE  CounterMatchesQueues'
      BY <1>2, <2>7, PlacesOfClosed
    <2> QED
      <3>1. CASE UNCHANGED vars
        BY <2>1, <3>1 DEF vars
      <3>2. ASSUME NEW c \in Conn, ClientStep(c)
            PROVE  CounterMatchesQueues'
        <4>1. Close(c) => CloseConnections({c}) /\ {c} \in SUBSET Conn
          BY DEF Close
        <4> QED
          BY <3>2, <4>1, <2>1, <2>3, <2>4, <2>7
          DEF ClientStep, Connect, ChatStartNow, AbortActive
      <3>3. ASSUME NEW w \in runs, Settle(w)
            PROVE  CounterMatchesQueues'
        BY <2>5, <2>6, <3>3 DEF Settle
      <3>4. ASSUME NEW force \in BOOLEAN, ShutdownRequest(force)
            PROVE  CounterMatchesQueues'
        BY <2>1, <3>4 DEF ShutdownRequest
      <3>5. CASE StopServer
        <4>1. CloseConnections(Open) /\ Open \in SUBSET Conn
          BY <3>5 DEF StopServer, Open
        <4> QED
          BY <4>1, <2>7
      <3> QED
        BY <1>2, <3>1, <3>2, <3>3, <3>4, <3>5 DEF Next
  <1> QED
    BY <1>1, <1>2, Invariance, PTL DEF Spec

-----------------------------------------------------------------------------
(***************************************************************************)
(* The position updates of rpc-queue.ts tell each waiting chat the place   *)
(* it has, and nobody else anything.                                       *)
(***************************************************************************)
LEMMA PositionsTold ==
    ASSUME NEW v \in [Task -> View], NEW q \in Seq(Entry),
           \A i, j \in 1..Len(q) : q[i].task = q[j].task => i = j
    PROVE  /\ \A i \in 1..Len(q) : WithPositions(v, q)[q[i].task] = QueuedAt(i)
           /\ \A t \in Task : (\A i \in 1..Len(q) : q[i].task # t)
                => WithPositions(v, q)[t] = v[t]
  <1>1. ASSUME NEW i \in 1..Len(q)
        PROVE  WithPositions(v, q)[q[i].task] = QueuedAt(i)
    <2>1. q[i] \in Entry
      OBVIOUS
    <2>2. q[i].task \in Task /\ q[i].task \in QueuedTasks(q)
      BY <2>1 DEF Entry, QueuedTasks
    <2>3. (CHOOSE j \in 1..Len(q) : q[j].task = q[i].task) = i
      OBVIOUS
    <2> QED
      BY <2>2, <2>3 DEF WithPositions
  <1>2. ASSUME NEW t \in Task, \A i \in 1..Len(q) : q[i].task # t
        PROVE  WithPositions(v, q)[t] = v[t]
    BY <1>2 DEF WithPositions, QueuedTasks
  <1> QED
    BY <1>1, <1>2

(***************************************************************************)
(* Outcomes agree after a step that, for each task, tells its client       *)
(* nothing and moves its record no further than eviction, or tells it what *)
(* the record says.                                                        *)
(***************************************************************************)
Agreed(m, s) ==
    \/ m \in {"none", "queued", "started"}
    \/ m = "done" /\ s \in {"completed", Absent}
    \/ m = "error" /\ s \in {"failed", Absent}
    \/ m = "aborted" /\ s \in {"cancelled", Absent}

LEMMA OutcomesStay ==
    ASSUME OutcomeAgrees,
           \A t \in Task : \/ view'[t] = view[t] /\ KeptOrEvicted(taskState[t], taskState'[t])
                           \/ Agreed(view'[t].msg, taskState'[t])
    PROVE  OutcomeAgrees'
  BY DEF OutcomeAgrees, Agreed, KeptOrEvicted, TerminalStates

-----------------------------------------------------------------------------
LEMMA StartNowTold ==
    ASSUME RpcInv, NEW c \in Conn, NEW r \in Req, NEW s \in Session, NEW t \in Task,
           ChatStartNow(c, r, s, t)
    PROVE  RequestIdsDistinct' /\ PositionsAccurate' /\ OutcomeAgrees' /\ UnsettledUntold'
  <1>1. /\ conn[c] = "open" /\ runningChatId[c] = NoReq /\ t \in Unused
        /\ activeChats' = [activeChats EXCEPT ![c][r] = t]
        /\ runs' = runs \cup {[conn |-> c, id |-> r, task |-> t]}
        /\ view' = [view EXCEPT ![t] = Told("started")]
        /\ UNCHANGED <<conn, queue>>
        /\ taskState' \in Transitioned(taskState, Only(t, "running"))
    BY DEF ChatStartNow, MustWait, AcceptRequest
  <1>2. IInv /\ TypeOK
    BY DEF RpcInv, IInv
  <1>3. taskState[t] = Absent /\ \A v \in runs : v.task # t
    BY <1>1, <1>2 DEF IInv, UnusedUntouched
  <1>4. \A u \in Task : view'[u] = IF u = t THEN Told("started") ELSE view[u]
    BY <1>1, <1>2 DEF TypeOK
  <1>5. \A d \in Conn : \A i \in 1..Len(queue[d]) :
            queue[d][i].task \in Task /\ queue[d][i].task # t
    BY <1>2, <1>3, Held DEF IInv, QueueHoldsQueued, Absent
  <1>6. \A d \in Conn \ {c} : activeChats'[d] = activeChats[d]
    BY <1>1, <1>2 DEF TypeOK
  <1>7. Len(queue[c]) = 0
    BY <1>1, <1>2 DEF IInv, RunningIsActive, Open
  <1>8. RequestIdsDistinct'
    BY <1>1, <1>6, <1>7 DEF RpcInv, RequestIdsDistinct, Open
  <1>9. PositionsAccurate'
    BY <1>1, <1>4, <1>5 DEF RpcInv, PositionsAccurate, Open
  <1>10. OutcomeAgrees'
    <2>1. \A u \in Task \ {t} : KeptOrEvicted(taskState[u], taskState'[u])
      BY <1>1, <1>2, <1>3, OneTransition
      DEF TypeOK, RegistryType, TaskStates, LiveStates, Accepts
    <2> QED
      BY <2>1, <1>4, OutcomesStay DEF RpcInv, Agreed, Told
  <1>11. UnsettledUntold'
    <2>1. \A v \in runs : v.task \in Task
      BY <1>2, Held
    <2> QED
      BY <2>1, <1>1, <1>3, <1>4 DEF RpcInv, UnsettledUntold, Told
  <1> QED
    BY <1>8, <1>9, <1>10, <1>11

LEMMA StartQueuedTold ==
    ASSUME RpcInv, NEW c \in Conn, NEW r \in Req, NEW s \in Session, NEW t \in Task,
           ChatStartQueued(c, r, s, t)
    PROVE  RequestIdsDistinct' /\ PositionsAccurate' /\ OutcomeAgrees' /\ UnsettledUntold'
  <1> DEFINE e == [id |-> r, task |-> t]
             n == Len(queue[c])
  <1>1. /\ conn[c] = "open" /\ t \in Unused /\ ~InUse(c, r)
        /\ queue' = [queue EXCEPT ![c] = Append(queue[c], e)]
        /\ view' = [view EXCEPT ![t] = QueuedAt(n + 1)]
        /\ UNCHANGED <<conn, activeChats, runs>>
        /\ taskState' \in Transitioned(taskState, Only(t, "queued"))
    BY DEF ChatStartQueued, AcceptRequest
  <1>2. IInv /\ TypeOK
    BY DEF RpcInv, IInv
  <1>3. taskState[t] = Absent /\ \A v \in runs : v.task # t
    BY <1>1, <1>2 DEF IInv, UnusedUntouched
  <1>4. \A u \in Task : view'[u] = IF u = t THEN QueuedAt(n + 1) ELSE view[u]
    BY <1>1, <1>2 DEF TypeOK
  <1>5. \A d \in Conn : \A i \in 1..Len(queue[d]) :
            queue[d][i].task \in Task /\ queue[d][i].task # t
    BY <1>2, <1>3, Held DEF IInv, QueueHoldsQueued, Absent
  <1>6. e \in Entry /\ e.task = t /\ e.id = r
    BY DEF Entry
  <1> HIDE DEF e
  <1>7. /\ \A d \in Conn \ {c} : queue'[d] = queue[d]
        /\ Len(queue'[c]) = n + 1 /\ n \in Nat
        /\ \A i \in 1..n : queue'[c][i] = queue[c][i]
        /\ queue'[c][n + 1] = e
    <2>1. queue[c] \in Seq(Entry) /\ n \in Nat
      BY <1>2, Held
    <2>2. queue'[c] = Append(queue[c], e) /\ \A d \in Conn \ {c} : queue'[d] = queue[d]
      BY <1>1, <1>2 DEF TypeOK
    <2> QED
      BY <2>1, <2>2, <1>6
  <1> HIDE DEF n
  <1>8. RequestIdsDistinct'
    <2>1. ASSUME NEW i \in 1..n
          PROVE  activeChats[c][queue[c][i].id] = NoTask /\ queue[c][i].id # r
      BY <1>1 DEF RpcInv, RequestIdsDistinct, Open, InUse, n
    <2>2. activeChats[c][r] = NoTask
      BY <1>1 DEF InUse
    <2>3. ASSUME NEW i \in 1..n, NEW j \in 1..n, i # j
          PROVE  queue[c][i].id # queue[c][j].id
      BY <1>1, <2>3 DEF RpcInv, RequestIdsDistinct, Open, n
    <2>4. ASSUME NEW i \in 1..(n + 1)
          PROVE  /\ activeChats[c][queue'[c][i].id] = NoTask
                 /\ \A j \in 1..(n + 1) : i # j => queue'[c][i].id # queue'[c][j].id
      <3>1. \A j \in 1..(n + 1) : j \in 1..n \/ j = n + 1
        BY <1>7
      <3>2. CASE i \in 1..n
        <4>1. queue'[c][i] = queue[c][i]
          BY <3>2, <1>7
        <4>2. ASSUME NEW j \in 1..(n + 1), i # j
              PROVE  queue'[c][i].id # queue'[c][j].id
          <5>1. CASE j \in 1..n
            BY <5>1, <4>2, <3>2, <1>7, <2>3
          <5>2. CASE j = n + 1
            BY <5>2, <4>1, <3>2, <1>6, <1>7, <2>1
          <5> QED
            BY <5>1, <5>2, <3>1
        <4> QED
          BY <3>2, <4>1, <4>2, <2>1
      <3>3. CASE i = n + 1
        <4>1. \A j \in 1..n : queue'[c][j].id # r
          BY <1>7, <2>1
        <4> QED
          BY <3>3, <4>1, <3>1, <1>6, <1>7, <2>2
      <3> QED
        BY <3>1, <3>2, <3>3
    <2> QED
      BY <1>1, <1>7, <2>4 DEF RpcInv, RequestIdsDistinct, Open
  <1>9. PositionsAccurate'
    <2>1. ASSUME NEW i \in 1..(n + 1)
          PROVE  view'[queue'[c][i].task] = QueuedAt(i)
      <3>1. i \in 1..n \/ i = n + 1
        BY <1>7
      <3>2. CASE i \in 1..n
        <4>1. view[queue[c][i].task] = QueuedAt(i)
          BY <3>2, <1>1 DEF RpcInv, PositionsAccurate, Open, n
        <4>2. queue[c][i].task \in Task /\ queue[c][i].task # t
          BY <3>2, <1>5 DEF n
        <4> QED
          BY <3>2, <4>1, <4>2, <1>4, <1>7
      <3>3. CASE i = n + 1
        BY <3>3, <1>4, <1>6, <1>7
      <3> QED
        BY <3>1, <3>2, <3>3
    <2>2. ASSUME NEW d \in Open, d # c, NEW i \in 1..Len(queue[d])
          PROVE  view'[queue[d][i].task] = QueuedAt(i)
      BY <2>2, <1>4, <1>5 DEF RpcInv, PositionsAccurate, Open
    <2>3. Open' = Open /\ Open \subseteq Conn
      BY <1>1 DEF Open
    <2> QED
      BY <2>1, <2>2, <2>3, <1>7 DEF PositionsAccurate
  <1>10. OutcomeAgrees'
    <2>1. \A u \in Task \ {t} : KeptOrEvicted(taskState[u], taskState'[u])
      BY <1>1, <1>2, <1>3, OneTransition
      DEF TypeOK, RegistryType, TaskStates, LiveStates, Accepts
    <2> QED
      BY <2>1, <1>4, OutcomesStay DEF RpcInv, Agreed, QueuedAt
  <1>11. UnsettledUntold'
    <2>1. \A v \in runs : v.task \in Task
      BY <1>2, Held
    <2> QED
      BY <2>1, <1>1, <1>3, <1>4 DEF RpcInv, UnsettledUntold
  <1> QED
    BY <1>8, <1>9, <1>10, <1>11

-----------------------------------------------------------------------------
LEMMA AbortActiveTold ==
    ASSUME RpcInv, NEW c \in Conn, NEW r \in Req, AbortActive(c, r)
    PROVE  RequestIdsDistinct' /\ PositionsAccurate' /\ OutcomeAgrees' /\ UnsettledUntold'
  <1> DEFINE t == activeChats[c][r]
  <1>1. /\ t # NoTask
        /\ taskState' \in Transitioned(taskState, Only(t, "cancelled"))
        /\ view' = [view EXCEPT ![t] = Told("aborted")]
        /\ UNCHANGED <<conn, activeChats, queue, runs>>
    BY DEF AbortActive
  <1>2. IInv /\ TypeOK
    BY DEF RpcInv, IInv
  <1>3. t \in Task /\ [conn |-> c, id |-> r, task |-> t] \in runs
    BY <1>1, <1>2 DEF IInv, RunsAreActiveChats, TypeOK
  <1>4. taskState[t] \in {"running", "cancelled", Absent}
    BY <1>2, <1>3 DEF IInv, RunStates
  <1> HIDE DEF t
  <1>5. \A u \in Task : view'[u] = IF u = t THEN Told("aborted") ELSE view[u]
    BY <1>1, <1>2 DEF TypeOK
  <1>6. \A d \in Conn : \A i \in 1..Len(queue[d]) :
            queue[d][i].task \in Task /\ queue[d][i].task # t
    BY <1>2, <1>4, Held DEF IInv, QueueHoldsQueued, Absent
  <1>7. RequestIdsDistinct' /\ PositionsAccurate'
    BY <1>1, <1>5, <1>6 DEF RpcInv, RequestIdsDistinct, PositionsAccurate, Open
  <1>8. OutcomeAgrees'
    <2>1. taskState \in RegistryType /\ "cancelled" \in TaskStates
      BY <1>2 DEF TypeOK, RegistryType, TaskStates, TerminalStates
    <2>2. Accepts(taskState, t, "cancelled")
      BY <1>4 DEF Accepts, CanTransition, ALLOWED_TRANSITIONS, TaskStates, LiveStates
    <2>3. /\ KeptOrEvicted("cancelled", taskState'[t])
          /\ \A u \in Task \ {t} : KeptOrEvicted(taskState[u], taskState'[u])
      BY <1>1, <1>3, <2>1, <2>2, OneTransition
    <2> QED
      BY <2>3, <1>5, OutcomesStay DEF RpcInv, Agreed, Told, KeptOrEvicted
  <1>9. UnsettledUntold'
    <2>1. \A v \in runs : v.task \in Task
      BY <1>2, Held
    <2> QED
      BY <2>1, <1>1, <1>5 DEF RpcInv, UnsettledUntold, Told
  <1> QED
    BY <1>7, <1>8, <1>9

LEMMA AbortQueuedTold ==
    ASSUME RpcInv, NEW c \in Conn, NEW r \in Req, AbortQueued(c, r)
    PROVE  RequestIdsDistinct' /\ PositionsAccurate' /\ OutcomeAgrees' /\ UnsettledUntold'
  <1>1. IInv /\ TypeOK
    BY DEF RpcInv, IInv
  <1>2. PICK k \in 1..Len(queue[c]) :
            LET t    == queue[c][k].task
                rest == WithoutEntry(queue[c], k)
            IN  /\ queue' = [queue EXCEPT ![c] = rest]
                /\ taskState' \in Transitioned(taskState, Only(t, "cancelled"))
                /\ view' = WithPositions([view EXCEPT ![t] = Told("aborted")], rest)
    BY DEF AbortQueued
  <1> DEFINE t    == queue[c][k].task
             rest == RemoveAt(queue[c], k)
             n    == Len(queue[c])
             v    == [view EXCEPT ![t] = Told("aborted")]
             old(i) == IF i < k THEN i ELSE i + 1
  <1>3. /\ conn[c] = "open"
        /\ queue' = [queue EXCEPT ![c] = rest]
        /\ taskState' \in Transitioned(taskState, Only(t, "cancelled"))
        /\ view' = WithPositions(v, rest)
        /\ UNCHANGED <<conn, activeChats, runs>>
    BY <1>2 DEF AbortQueued, WithoutEntry
  <1>4. t \in Task /\ n \in Nat /\ queue[c] \in Seq(Entry) /\ queue \in [Conn -> Seq(Entry)]
    BY <1>1, Held DEF TypeOK
  <1>5. taskState[t] = "queued"
    BY <1>1 DEF IInv, QueueHoldsQueued
  <1>6. /\ rest \in Seq(Entry)
        /\ Len(rest) = n - 1
        /\ \A j \in 1..(n - 1) : rest[j] = queue[c][old(j)]
    BY <1>4, RemoveAtFacts
  <1>7. ASSUME NEW i \in 1..(n - 1)
        PROVE  old(i) \in 1..n /\ old(i) # k
    BY <1>4
  <1>8. v \in [Task -> View] /\ \A u \in Task : v[u] = IF u = t THEN Told("aborted") ELSE view[u]
    BY <1>1, <1>4, MaxQueuedAssumption DEF TypeOK, Told, View, Msgs
  \* Every task is held at one place.
  <1>9. /\ \A i, j \in 1..n : queue[c][i].task = queue[c][j].task => i = j
        /\ \A d \in Conn \ {c} : \A i \in 1..Len(queue[d]) : \A j \in 1..n :
                queue[d][i].task # queue[c][j].task
    BY <1>1 DEF IInv, HeldOnce
  <1>10. \A d \in Conn : \A i \in 1..Len(queue[d]) : queue[d][i].task \in Task
    BY <1>1, Held
  <1> HIDE DEF t, rest, v, n
  <1>11. /\ \A i, j \in 1..Len(rest) : rest[i].task = rest[j].task => i = j
         /\ \A i \in 1..Len(rest) : rest[i].task # t
    <2>1. ASSUME NEW i \in 1..Len(rest)
          PROVE  /\ rest[i] = queue[c][old(i)]
                 /\ old(i) \in 1..n /\ old(i) # k
      BY <1>6, <1>7
    <2>2. ASSUME NEW i \in 1..Len(rest), NEW j \in 1..Len(rest), rest[i].task = rest[j].task
          PROVE  i = j
      <3>1. old(i) = old(j)
        BY <2>1, <2>2, <1>9
      <3> QED
        BY <3>1, <1>4, <1>6
    <2>3. ASSUME NEW i \in 1..Len(rest)
          PROVE  rest[i].task # t
      BY <2>1, <1>9 DEF t, n
    <2> QED
      BY <2>2, <2>3
  <1>12. /\ \A i \in 1..Len(rest) : view'[rest[i].task] = QueuedAt(i)
         /\ \A u \in Task : (\A i \in 1..Len(rest) : rest[i].task # u) => view'[u] = v[u]
    BY <1>3, <1>6, <1>8, <1>11, PositionsTold
  <1>13. queue'[c] = rest /\ \A d \in Conn \ {c} : queue'[d] = queue[d]
    BY <1>3, <1>4
  <1>14. RequestIdsDistinct'
    <2>1. ASSUME NEW i \in 1..n
          PROVE  /\ activeChats[c][queue[c][i].id] = NoTask
                 /\ \A j \in 1..n : i # j => queue[c][i].id # queue[c][j].id
      BY <1>3 DEF RpcInv, RequestIdsDistinct, Open, n
    <2>2. ASSUME NEW i \in 1..Len(rest)
          PROVE  /\ activeChats[c][rest[i].id] = NoTask
                 /\ \A j \in 1..Len(rest) : i # j => rest[i].id # rest[j].id
      <3>1. /\ rest[i] = queue[c][old(i)] /\ old(i) \in 1..n
            /\ \A j \in 1..Len(rest) : rest[j] = queue[c][old(j)] /\ old(j) \in 1..n
        BY <1>6, <1>7
      <3>2. \A j \in 1..Len(rest) : i # j => old(i) # old(j)
        BY <1>4, <1>6
      <3> QED
        BY <2>1, <3>1, <3>2
    <2> QED
      BY <1>3, <1>13, <2>2 DEF RpcInv, RequestIdsDistinct, Open
  <1>15. PositionsAccurate'
    <2>1. ASSUME NEW d \in Open, d # c, NEW i \in 1..Len(queue[d])
          PROVE  view'[queue[d][i].task] = QueuedAt(i)
      <3>1. d \in Conn /\ queue[d][i].task \in Task
        BY <1>10 DEF Open
      <3>2. /\ \A j \in 1..n : queue[d][i].task # queue[c][j].task
            /\ queue[d][i].task # t
        BY <2>1, <3>1, <1>9 DEF t, n
      <3>3. \A j \in 1..Len(rest) : rest[j].task # queue[d][i].task
        BY <3>2, <1>6, <1>7
      <3> QED
        BY <3>1, <3>2, <3>3, <1>8, <1>12 DEF RpcInv, PositionsAccurate
    <2>2. Open' = Open /\ Open \subseteq Conn
      BY <1>3 DEF Open
    <2> QED
      BY <2>1, <2>2, <1>12, <1>13 DEF PositionsAccurate
  <1>16. OutcomeAgrees'
    <2>1. taskState \in RegistryType /\ "cancelled" \in TaskStates
      BY <1>1 DEF TypeOK, RegistryType, TaskStates, TerminalStates
    <2>2. Accepts(taskState, t, "cancelled")
      BY <1>5 DEF Accepts, CanTransition, ALLOWED_TRANSITIONS, TaskStates, LiveStates
    <2>3. /\ KeptOrEvicted("cancelled", taskState'[t])
          /\ \A u \in Task \ {t} : KeptOrEvicted(taskState[u], taskState'[u])
      BY <1>3, <1>4, <2>1, <2>2, OneTransition
    <2>4. ASSUME NEW u \in Task
          PROVE  \/ view'[u] = view[u] /\ KeptOrEvicted(taskState[u], taskState'[u])
                 \/ Agreed(view'[u].msg, taskState'[u])
      <3>1. CASE \E i \in 1..Len(rest) : rest[i].task = u
        <4>1. PICK i \in 1..Len(rest) : rest[i].task = u
          BY <3>1
        <4>2. view'[u] = QueuedAt(i)
          BY <4>1, <1>12
        <4> QED
          BY <4>2 DEF Agreed, QueuedAt
      <3>2. CASE \A i \in 1..Len(rest) : rest[i].task # u
        BY <3>2, <2>3, <1>8, <1>12 DEF Agreed, Told, KeptOrEvicted
      <3> QED
        BY <3>1, <3>2
    <2> QED
      BY <2>4, OutcomesStay DEF RpcInv
  <1>17. UnsettledUntold'
    <2> SUFFICES ASSUME NEW x \in runs
                 PROVE  view'[x.task].msg \notin {"done", "error"}
      BY <1>3 DEF UnsettledUntold
    <2>1. x.task \in Task /\ view[x.task].msg \notin {"done", "error"}
      BY <1>1, Held DEF RpcInv, UnsettledUntold
    <2>2. CASE \E i \in 1..Len(rest) : rest[i].task = x.task
      <3>1. PICK i \in 1..Len(rest) : rest[i].task = x.task
        BY <2>2
      <3>2. view'[x.task] = QueuedAt(i)
        BY <3>1, <1>12
      <3> QED
        BY <3>2 DEF QueuedAt
    <2>3. CASE \A i \in 1..Len(rest) : rest[i].task # x.task
      BY <2>1, <2>3, <1>8, <1>12 DEF Told
    <2> QED
      BY <2>2, <2>3
  <1> QED
    BY <1>14, <1>15, <1>16, <1>17

-----------------------------------------------------------------------------
(***************************************************************************)
(* What the end of run w tells its client, and what it leaves of the       *)
(* other clients' messages.                                                *)
(***************************************************************************)
LEMMA ViewOfEnd ==
    ASSUME RpcInv, NEW w \in runs, NEW outcome \in Outcomes
    PROVE  /\ \A u \in Task \ {w.task} : ViewAtEnd(w, outcome)[u] = view[u]
           /\ w.task \in aborted => ViewAtEnd(w, outcome)[w.task] = view[w.task]
           /\ w.task \notin aborted =>
                ViewAtEnd(w, outcome)[w.task] = Told(OutcomeMsg(outcome))
  BY Held DEF RpcInv, IInv, TypeOK, ViewAtEnd, Silenced

LEMMA FinishIdleTold ==
    ASSUME RpcInv, NEW w \in runs, NEW outcome \in Outcomes, FinishIdle(w, outcome)
    PROVE  RequestIdsDistinct' /\ PositionsAccurate' /\ OutcomeAgrees' /\ UnsettledUntold'
  <1> DEFINE c == w.conn
  <1>1. IInv /\ TypeOK
    BY DEF RpcInv, IInv
  <1>2. c \in Conn /\ w.id \in Req /\ w.task \in Task
    BY <1>1, Held
  <1>3. queue[c] = <<>>
    BY <1>1, <1>2, DequeueFirst, Held DEF FinishIdle
  <1>4. /\ runs' = runs \ {w}
        /\ queue' = queue
        /\ activeChats' = [activeChats EXCEPT ![c][w.id] = NoTask]
        /\ taskState' \in Transitioned(taskState, Settled(w, outcome))
        /\ view' = ViewAtEnd(w, outcome)
        /\ UNCHANGED conn
    BY <1>1, <1>2, <1>3 DEF FinishIdle, TypeOK
  <1> HIDE DEF c
  <1>5. \A d \in Conn : \A i \in 1..Len(queue[d]) :
            queue[d][i].task \in Task /\ queue[d][i].task # w.task
    BY <1>1, Held DEF IInv, QueueHoldsQueued, RunStates, Absent
  <1>6. \A d \in Conn, q \in Req :
            activeChats[d][q] = NoTask => activeChats'[d][q] = NoTask
    BY <1>1, <1>2, <1>4 DEF TypeOK
  <1>7. RequestIdsDistinct'
    <2>1. \A d \in Conn : \A i \in 1..Len(queue[d]) : queue[d][i].id \in Req
      BY <1>1, Held
    <2> QED
      BY <2>1, <1>4, <1>6 DEF RpcInv, RequestIdsDistinct, Open
  <1>8. PositionsAccurate'
    BY <1>4, <1>5, ViewOfEnd DEF RpcInv, PositionsAccurate, Open
  <1>9. OutcomeAgrees'
    <2> DEFINE upd == Settled(w, outcome)
    <2>1. /\ DOMAIN upd = Reported(w) /\ DOMAIN upd \subseteq Task
          /\ \A x \in DOMAIN upd : /\ upd[x] = outcome /\ upd[x] \in TaskStates
                                  /\ Accepts(taskState, x, upd[x])
      BY <1>1, RunEnds DEF Settled
    <2>2. taskState \in RegistryType /\ taskState' \in Transitioned(taskState, upd)
      BY <1>1, <1>4 DEF TypeOK, RegistryType
    <2> HIDE DEF upd
    <2>3. \A u \in Task : KeptOrEvicted(IF u \in Reported(w) THEN outcome ELSE taskState[u],
                                      taskState'[u])
      BY <2>1, <2>2, TransitionedFacts
    <2>4. ASSUME NEW u \in Task
          PROVE  \/ view'[u] = view[u] /\ KeptOrEvicted(taskState[u], taskState'[u])
                 \/ Agreed(view'[u].msg, taskState'[u])
      <3>1. CASE u \in Reported(w)
        BY <3>1, <2>3, <1>4, ViewOfEnd
        DEF Reported, Silenced, Agreed, Told, OutcomeMsg, Outcomes, KeptOrEvicted, TerminalStates
      <3>2. CASE u \notin Reported(w)
        BY <3>2, <2>3, <1>4, ViewOfEnd DEF Reported, Silenced
      <3> QED
        BY <3>1, <3>2
    <2> QED
      BY <2>4, OutcomesStay DEF RpcInv
  <1>10. UnsettledUntold'
    <2>1. \A x \in runs' : x \in runs /\ x.task \in Task \ {w.task}
      BY <1>1, <1>4, Held DEF IInv, HeldOnce
    <2> QED
      BY <2>1, <1>4, ViewOfEnd DEF RpcInv, UnsettledUntold
  <1> QED
    BY <1>7, <1>8, <1>9, <1>10

LEMMA FinishHandOverTold ==
    ASSUME RpcInv, NEW w \in runs, NEW outcome \in Outcomes, FinishHandOver(w, outcome)
    PROVE  RequestIdsDistinct' /\ PositionsAccurate' /\ OutcomeAgrees' /\ UnsettledUntold'
  <1> DEFINE c    == w.conn
             n    == Len(queue[c])
             next == queue[c][1]
             t    == next.task
             rest == SubSeq(queue[c], 2, n)
             v    == [ViewAtEnd(w, outcome) EXCEPT ![t] = Told("started")]
             upd  == SettledAndNext(w, outcome, t)
  <1>1. IInv /\ TypeOK
    BY DEF RpcInv, IInv
  <1>2. /\ c \in Conn /\ w.id \in Req /\ w.task \in Task
        /\ n \in Nat /\ queue[c] \in Seq(Entry) /\ queue \in [Conn -> Seq(Entry)]
    BY <1>1, Held DEF TypeOK
  <1>3. /\ 1 <= n
        /\ runs' = (runs \ {w}) \cup {[conn |-> c, id |-> next.id, task |-> t]}
        /\ queue' = [queue EXCEPT ![c] = rest]
        /\ activeChats' = [activeChats EXCEPT ![c] =
                [[activeChats[c] EXCEPT ![w.id] = NoTask] EXCEPT ![next.id] = t]]
        /\ taskState' \in Transitioned(taskState, upd)
        /\ view' = WithPositions(v, rest)
        /\ UNCHANGED conn
    <2>1. DequeueIndex(queue[c]) = 1 /\ 1 + 1 = 2
      BY <1>1, <1>2, DequeueFirst
    <2> QED
      BY <2>1, <1>1, <1>2 DEF FinishHandOver, TypeOK
  <1>4. next.id \in Req /\ t \in Task /\ taskState[t] = "queued" /\ t # w.task
    <2>1. next.id \in Req /\ t \in Task /\ taskState[t] = "queued"
      BY <1>1, <1>2, <1>3, Held DEF IInv, QueueHoldsQueued
    <2> QED
      BY <2>1, <1>1 DEF IInv, RunStates, Absent
  <1>5. /\ rest \in Seq(Entry) /\ Len(rest) = n - 1
        /\ \A j \in 1..(n - 1) : rest[j] = queue[c][j + 1] /\ j + 1 \in 1..n
    <2>1. \A j \in 2..n : queue[c][j] \in Entry
      BY <1>2
    <2>2. /\ rest \in Seq(Entry)
          /\ Len(rest) = IF 2 <= n THEN n - 2 + 1 ELSE 0
          /\ \A j \in 1..(n - 2 + 1) : rest[j] = queue[c][2 + j - 1]
      BY <1>2, <2>1, SubSeqProperties
    <2>3. (IF 2 <= n THEN n - 2 + 1 ELSE 0) = n - 1 /\ n - 2 + 1 = n - 1
      BY <1>2, <1>3
    <2>4. \A j \in 1..(n - 1) : 2 + j - 1 = j + 1 /\ j + 1 \in 1..n
      BY <1>2
    <2> QED
      BY <2>2, <2>3, <2>4
  <1>6. /\ conn[c] = "open"
        /\ \A i, j \in 1..n : queue[c][i].task = queue[c][j].task => i = j
        /\ \A d \in Conn \ {c} : \A i \in 1..Len(queue[d]) : \A j \in 1..n :
                queue[d][i].task # queue[c][j].task
    <2>1. queue[c] # <<>>
      BY <1>2, <1>3
    <2> QED
      BY <2>1, <1>1, <1>2 DEF IInv, HeldOnce, ClosedHoldsNothing
  <1>7. \A d \in Conn : \A i \in 1..Len(queue[d]) :
            queue[d][i].task \in Task /\ queue[d][i].task # w.task
    BY <1>1, Held DEF IInv, QueueHoldsQueued, RunStates, Absent
  <1>8. /\ v \in [Task -> View]
        /\ \A u \in Task : v[u] = IF u = t THEN Told("started") ELSE ViewAtEnd(w, outcome)[u]
    <2>1. Told("started") \in View /\ ViewAtEnd(w, outcome) \in [Task -> View]
      BY <1>1, RunEnds, MaxQueuedAssumption DEF Told, View, Msgs
    <2> QED
      BY <2>1, <1>4
  <1>9. 1 \in 1..n
    BY <1>2, <1>3
  <1> HIDE DEF c, n, rest, v, upd
  <1>10. /\ \A i, j \in 1..Len(rest) : rest[i].task = rest[j].task => i = j
         /\ \A i \in 1..Len(rest) : rest[i].task # t
         /\ \A i \in 1..Len(rest) : rest[i].task # w.task
    <2>1. ASSUME NEW i \in 1..Len(rest)
          PROVE  rest[i] = queue[c][i + 1] /\ i + 1 \in 1..n /\ i + 1 # 1
      BY <1>2, <1>5
    <2>2. ASSUME NEW i \in 1..Len(rest), NEW j \in 1..Len(rest), rest[i].task = rest[j].task
          PROVE  i = j
      <3>1. i + 1 = j + 1
        BY <2>1, <2>2, <1>6
      <3> QED
        BY <3>1, <1>2, <1>5
    <2>3. ASSUME NEW i \in 1..Len(rest)
          PROVE  rest[i].task # t
      BY <2>1, <1>6, <1>9
    <2>4. \A i \in 1..Len(queue[c]) : queue[c][i].task # w.task
      BY <1>2, <1>7
    <2> QED
      BY <2>1, <2>2, <2>3, <2>4 DEF n
  <1>11. /\ \A i \in 1..Len(rest) : view'[rest[i].task] = QueuedAt(i)
         /\ \A u \in Task : (\A i \in 1..Len(rest) : rest[i].task # u) => view'[u] = v[u]
    BY <1>3, <1>5, <1>8, <1>10, PositionsTold
  <1>12. queue'[c] = rest /\ \A d \in Conn \ {c} : queue'[d] = queue[d]
    BY <1>2, <1>3
  <1>13. RequestIdsDistinct'
    <2>1. ASSUME NEW i \in 1..n
          PROVE  /\ activeChats[c][queue[c][i].id] = NoTask
                 /\ \A j \in 1..n : i # j => queue[c][i].id # queue[c][j].id
      BY <1>2, <1>6 DEF RpcInv, RequestIdsDistinct, Open, n
    <2>2. \A q \in Req : activeChats[c][q] = NoTask /\ q # next.id => activeChats'[c][q] = NoTask
      BY <1>1, <1>2, <1>3, <1>4 DEF TypeOK
    <2>3. ASSUME NEW i \in 1..Len(rest)
          PROVE  /\ activeChats'[c][rest[i].id] = NoTask
                 /\ \A j \in 1..Len(rest) : i # j => rest[i].id # rest[j].id
      <3>1. /\ rest[i] = queue[c][i + 1] /\ i + 1 \in 1..n /\ i + 1 # 1
            /\ \A j \in 1..Len(rest) : rest[j] = queue[c][j + 1] /\ j + 1 \in 1..n
        BY <1>2, <1>5
      <3>2. \A j \in 1..Len(rest) : i # j => i + 1 # j + 1
        BY <1>2, <1>5
      <3>3. rest[i].id \in Req /\ rest[i].id # next.id
        <4>1. queue[c][i + 1].id \in Req
          BY <1>1, <1>2, <3>1, Held DEF n
        <4> QED
          BY <4>1, <3>1, <2>1, <1>9
      <3> QED
        BY <2>1, <2>2, <3>1, <3>2, <3>3
    <2>4. \A d \in Conn \ {c} : activeChats'[d] = activeChats[d]
      BY <1>1, <1>3 DEF TypeOK
    <2> QED
      BY <2>3, <2>4, <1>3, <1>12 DEF RpcInv, RequestIdsDistinct, Open
  <1>14. PositionsAccurate'
    <2>1. ASSUME NEW d \in Open, d # c, NEW i \in 1..Len(queue[d])
          PROVE  view'[queue[d][i].task] = QueuedAt(i)
      <3>1. d \in Conn /\ queue[d][i].task \in Task \ {w.task}
        BY <1>7 DEF Open
      <3>2. queue[d][i].task # t /\ \A j \in 1..n : queue[d][i].task # queue[c][j].task
        BY <2>1, <3>1, <1>6, <1>9
      <3>3. \A j \in 1..Len(rest) : rest[j].task # queue[d][i].task
        BY <3>2, <1>5
      <3>4. view'[queue[d][i].task] = view[queue[d][i].task]
        BY <3>1, <3>2, <3>3, <1>8, <1>11, ViewOfEnd
      <3> QED
        BY <3>4 DEF RpcInv, PositionsAccurate
    <2>2. Open' = Open /\ Open \subseteq Conn
      BY <1>3 DEF Open
    <2> QED
      BY <2>1, <2>2, <1>11, <1>12 DEF PositionsAccurate
  <1>15. \A u \in Task :
            \/ \E i \in 1..Len(rest) : rest[i].task = u /\ u # t /\ u # w.task /\ view'[u].msg = "queued"
            \/ (\A i \in 1..Len(rest) : rest[i].task # u) /\ view'[u] = v[u]
    <2>1. \A i \in 1..Len(rest) : /\ rest[i].task # t /\ rest[i].task # w.task
                                 /\ view'[rest[i].task].msg = "queued"
      <3> SUFFICES ASSUME NEW i \in 1..Len(rest)
                   PROVE  view'[rest[i].task].msg = "queued"
        BY <1>10
      <3>1. view'[rest[i].task] = QueuedAt(i)
        BY <1>11
      <3> QED
        BY <3>1 DEF QueuedAt
    <2> QED
      BY <2>1, <1>11
  <1>16. OutcomeAgrees'
    <2>1. /\ DOMAIN upd = Reported(w) \cup {t}
          /\ DOMAIN upd \subseteq Task
          /\ \A x \in DOMAIN upd : /\ upd[x] = IF x = w.task THEN outcome ELSE "running"
                                  /\ upd[x] \in TaskStates
                                  /\ Accepts(taskState, x, upd[x])
      <3>1. Accepts(taskState, t, "running") /\ "running" \in TaskStates
        BY <1>4 DEF Accepts, CanTransition, ALLOWED_TRANSITIONS, TaskStates, LiveStates
      <3> QED
        BY <3>1, <1>1, <1>4, RunEnds DEF upd, SettledAndNext
    <2>2. taskState \in RegistryType /\ taskState' \in Transitioned(taskState, upd)
      BY <1>1, <1>3 DEF TypeOK, RegistryType
    <2>3. \A u \in Task : KeptOrEvicted(IF u \in DOMAIN upd THEN upd[u] ELSE taskState[u],
                                      taskState'[u])
      BY <2>1, <2>2, TransitionedFacts
    <2>4. ASSUME NEW u \in Task
          PROVE  \/ view'[u] = view[u] /\ KeptOrEvicted(taskState[u], taskState'[u])
                 \/ Agreed(view'[u].msg, taskState'[u])
      <3>1. CASE view'[u].msg = "queued"
        BY <3>1 DEF Agreed
      <3>2. CASE view'[u] = v[u] /\ u = t
        BY <3>2, <1>8 DEF Agreed, Told
      <3>3. CASE view'[u] = v[u] /\ u # t /\ u \in Reported(w)
        BY <3>3, <2>1, <2>3, <1>8, ViewOfEnd
        DEF Reported, Silenced, Agreed, Told, OutcomeMsg, Outcomes, KeptOrEvicted, TerminalStates
      <3>4. CASE view'[u] = v[u] /\ u # t /\ u \notin Reported(w)
        BY <3>4, <2>1, <2>3, <1>8, ViewOfEnd DEF Reported, Silenced
      <3> QED
        BY <3>1, <3>2, <3>3, <3>4, <1>15
    <2> QED
      BY <2>4, OutcomesStay DEF RpcInv
  <1>17. UnsettledUntold'
    <2> SUFFICES ASSUME NEW x \in runs'
                 PROVE  view'[x.task].msg \notin {"done", "error"}
      BY DEF UnsettledUntold
    <2>1. CASE x.task = t
      BY <2>1, <1>4, <1>8, <1>15 DEF Told
    <2>2. CASE x.task # t
      <3>1. x \in runs /\ x # w
        BY <2>2, <1>3
      <3>2. x.task \in Task \ {w.task} /\ view[x.task].msg \notin {"done", "error"}
        BY <3>1, <1>1, Held DEF RpcInv, UnsettledUntold, IInv, HeldOnce
      <3> QED
        BY <2>2, <3>2, <1>8, <1>15, ViewOfEnd
    <2> QED
      BY <2>1, <2>2
  <1> QED
    BY <1>13, <1>14, <1>16, <1>17

LEMMA CloseTold ==
    ASSUME RpcInv, NEW S \in SUBSET Open, CloseConnections(S)
    PROVE  RequestIdsDistinct' /\ PositionsAccurate' /\ OutcomeAgrees' /\ UnsettledUntold'
  <1> DEFINE doomed == UNION {WorkOf(c) : c \in S}
  <1>1. IInv /\ TypeOK
    BY DEF RpcInv, IInv
  <1>2. /\ conn' = [c \in Conn |-> IF c \in S THEN "closed" ELSE conn[c]]
        /\ taskState' \in Transitioned(taskState, AllCancelled(doomed))
        /\ queue' = [c \in Conn |-> IF c \in S THEN <<>> ELSE queue[c]]
        /\ UNCHANGED <<activeChats, runs, view>>
    BY DEF CloseConnections
  <1>3. ASSUME NEW t \in doomed
        PROVE  /\ t \in Task
               /\ view[t].msg \notin {"done", "error"}
               /\ Accepts(taskState, t, "cancelled")
    <2>1. PICK c \in S : \/ \E r \in Req : activeChats[c][r] = t /\ t # NoTask
                         \/ \E i \in 1..Len(queue[c]) : queue[c][i].task = t
      BY DEF WorkOf, ActiveTasks, QueuedTasks
    <2>2. c \in Open /\ c \in Conn
      BY DEF Open
    <2>3. ASSUME NEW r \in Req, activeChats[c][r] = t, t # NoTask
          PROVE  /\ t \in Task /\ view[t].msg \notin {"done", "error"}
                 /\ taskState[t] \in {"running", "cancelled", Absent}
      <3>1. t \in Task
        BY <2>2, <2>3, <1>1 DEF TypeOK
      <3>2. [conn |-> c, id |-> r, task |-> t] \in runs
        BY <2>2, <2>3, <3>1, <1>1 DEF IInv, RunsAreActiveChats
      <3> QED
        BY <3>1, <3>2, <1>1 DEF RpcInv, UnsettledUntold, IInv, RunStates
    <2>4. ASSUME NEW i \in 1..Len(queue[c]), queue[c][i].task = t
          PROVE  /\ t \in Task /\ view[t].msg \notin {"done", "error"}
                 /\ taskState[t] = "queued"
      <3>1. view[t] = QueuedAt(i)
        BY <2>2, <2>4 DEF RpcInv, PositionsAccurate
      <3> QED
        BY <3>1, <2>2, <2>4, <1>1, Held DEF QueuedAt, IInv, QueueHoldsQueued
    <2>5. /\ t \in Task /\ view[t].msg \notin {"done", "error"}
          /\ taskState[t] \in {"running", "cancelled", "queued", Absent}
      BY <2>1, <2>3, <2>4
    <2> QED
      BY <2>5 DEF Accepts, CanTransition, ALLOWED_TRANSITIONS, TaskStates, LiveStates
  <1> HIDE DEF doomed
  <1>4. Open' \subseteq Open /\ \A c \in Open' : queue'[c] = queue[c]
    BY <1>2 DEF Open
  <1>5. RequestIdsDistinct' /\ PositionsAccurate' /\ UnsettledUntold'
    BY <1>2, <1>4 DEF RpcInv, RequestIdsDistinct, PositionsAccurate, UnsettledUntold
  <1>6. OutcomeAgrees'
    <2> DEFINE upd == AllCancelled(doomed)
    <2>1. /\ DOMAIN upd = doomed /\ DOMAIN upd \subseteq Task
          /\ \A x \in DOMAIN upd : /\ upd[x] = "cancelled" /\ upd[x] \in TaskStates
                                  /\ Accepts(taskState, x, upd[x])
      BY <1>3 DEF AllCancelled, TaskStates, TerminalStates
    <2>2. taskState \in RegistryType /\ taskState' \in Transitioned(taskState, upd)
      BY <1>1, <1>2 DEF TypeOK, RegistryType
    <2> HIDE DEF upd
    <2>3. \A u \in Task : KeptOrEvicted(IF u \in doomed THEN "cancelled" ELSE taskState[u],
                                      taskState'[u])
      BY <2>1, <2>2, TransitionedFacts
    <2>4. ASSUME NEW u \in Task
          PROVE  \/ view'[u] = view[u] /\ KeptOrEvicted(taskState[u], taskState'[u])
                 \/ Agreed(view'[u].msg, taskState'[u])
      <3>1. CASE u \in doomed
        <4>1. view[u].msg \in Msgs
          BY <1>1 DEF TypeOK, View
        <4> QED
          BY <3>1, <4>1, <2>3, <1>2, <1>3 DEF Agreed, Msgs, KeptOrEvicted
      <3>2. CASE u \notin doomed
        BY <3>2, <2>3, <1>2
      <3> QED
        BY <3>1, <3>2
    <2> QED
      BY <2>4, OutcomesStay DEF RpcInv
  <1> QED
    BY <1>5, <1>6

LEMMA InitTold == Init => RpcInv
  <1> SUFFICES ASSUME Init PROVE RpcInv
    OBVIOUS
  <1>1. IInv
    BY InitInv
  <1>2. Open = {} /\ runs = {} /\ \A t \in Task : view[t] = Told("none")
    BY DEF Init, Open
  <1> QED
    BY <1>1, <1>2 DEF RpcInv, RequestIdsDistinct, PositionsAccurate, OutcomeAgrees,
                      UnsettledUntold, Told

LEMMA NextTold == RpcInv /\ [Next]_vars => RpcInv'
  <1> SUFFICES ASSUME RpcInv, [Next]_vars
               PROVE  RequestIdsDistinct' /\ PositionsAccurate' /\ OutcomeAgrees' /\ UnsettledUntold'
    BY NextInv DEF RpcInv
  <1>1. CASE UNCHANGED vars
    BY <1>1 DEF vars, RpcInv, RequestIdsDistinct, PositionsAccurate, OutcomeAgrees,
                UnsettledUntold, Open
  <1>2. ASSUME NEW c \in Conn, ClientStep(c)
        PROVE  RequestIdsDistinct' /\ PositionsAccurate' /\ OutcomeAgrees' /\ UnsettledUntold'
    <2>1. CASE Connect(c)
      <3>1. /\ conn' = [conn EXCEPT ![c] = "open"] /\ conn[c] = "new"
            /\ UNCHANGED <<activeChats, queue, runs, taskState, view>>
        BY <2>1 DEF Connect
      <3>2. Len(queue[c]) = 0
        BY <3>1 DEF RpcInv, IInv, ClosedHoldsNothing
      <3>3. Open' = Open \cup {c}
        BY <3>1 DEF RpcInv, IInv, TypeOK, Open
      <3> QED
        BY <3>1, <3>2, <3>3 DEF RpcInv, RequestIdsDistinct, PositionsAccurate,
                                OutcomeAgrees, UnsettledUntold
    <2>2. CASE Close(c)
      <3>1. {c} \in SUBSET Open /\ CloseConnections({c})
        BY <2>2 DEF Close, Open
      <3> QED
        BY <3>1, CloseTold
    <2> QED
      BY <1>2, <2>1, <2>2, StartNowTold, StartQueuedTold, AbortActiveTold, AbortQueuedTold
      DEF ClientStep
  <1>3. ASSUME NEW w \in runs, Settle(w)
        PROVE  RequestIdsDistinct' /\ PositionsAccurate' /\ OutcomeAgrees' /\ UnsettledUntold'
    BY <1>3, FinishIdleTold, FinishHandOverTold DEF Settle
  <1>4. ASSUME NEW force \in BOOLEAN, ShutdownRequest(force)
        PROVE  RequestIdsDistinct' /\ PositionsAccurate' /\ OutcomeAgrees' /\ UnsettledUntold'
    BY <1>4 DEF ShutdownRequest, RpcInv, RequestIdsDistinct, PositionsAccurate,
                OutcomeAgrees, UnsettledUntold, Open
  <1>5. CASE StopServer
    <2>1. CloseConnections(Open) /\ Open \in SUBSET Open
      BY <1>5 DEF StopServer
    <2> QED
      BY <2>1, CloseTold
  <1> QED
    BY <1>1, <1>2, <1>3, <1>4, <1>5 DEF Next

(***************************************************************************)
(* What clients are told rests on an invariant too: the inductive one with *)
(* the ids, positions and outcomes.                                        *)
(***************************************************************************)
THEOREM ToldInvariance == Spec => []RpcInv
  <1> QED
    BY InitTold, NextTold, PTL DEF Spec

(***************************************************************************)
(* A waiting client was last told the position it has: every removal ahead *)
(* of it, by an abort or by the hand-over, is followed by an update.       *)
(***************************************************************************)
THEOREM PositionsExact == Spec => []PositionsAccurate
  <1>1. RpcInv => PositionsAccurate
    BY DEF RpcInv
  <1> QED
    BY <1>1, ToldInvariance, PTL

(***************************************************************************)
(* The outcome a client was told is the one the registry has, as long as   *)
(* it has the record: onDone, onError, handleChatAbort and close never     *)
(* tell one thing and record another.                                      *)
(***************************************************************************)
THEOREM OutcomesMatch == Spec => []OutcomeAgrees
  <1>1. RpcInv => OutcomeAgrees
    BY DEF RpcInv
  <1> QED
    BY <1>1, ToldInvariance, PTL

-----------------------------------------------------------------------------
(***************************************************************************)
(* The line of a connection, from the chat it runs (h, no more than one)   *)
(* and its queue.                                                          *)
(***************************************************************************)
Lined(h, q) == h \o [i \in 1..Len(q) |-> q[i].task]

LEMMA LinedFacts ==
    ASSUME NEW h \in Seq(Task), NEW q \in Seq(Entry)
    PROVE  /\ Lined(h, q) \in Seq(Task)
           /\ Len(Lined(h, q)) = Len(h) + Len(q)
           /\ \A i \in 1..Len(h) : Lined(h, q)[i] = h[i]
           /\ \A i \in 1..Len(q) : Lined(h, q)[Len(h) + i] = q[i].task
  <1> DEFINE w == [i \in 1..Len(q) |-> q[i].task]
  <1>1. \A i \in 1..Len(q) : q[i] \in Entry
    OBVIOUS
  <1>2. \A i \in 1..Len(q) : q[i].task \in Task
    BY <1>1 DEF Entry
  <1>3. w \in Seq(Task) /\ Len(w) = Len(q) /\ \A i \in 1..Len(q) : w[i] = q[i].task
    BY <1>2
  <1> HIDE DEF w
  <1>4. /\ h \o w \in Seq(Task)
        /\ Len(h \o w) = Len(h) + Len(w)
        /\ \A i \in 1..(Len(h) + Len(w)) :
             (h \o w)[i] = IF i <= Len(h) THEN h[i] ELSE w[i - Len(h)]
    BY <1>3, ConcatProperties
  <1>5. Lined(h, q) = h \o w
    BY DEF Lined, w
  <1>6. ASSUME NEW i \in 1..Len(h)
        PROVE  (h \o w)[i] = h[i]
    BY <1>3, <1>4
  <1>7. ASSUME NEW i \in 1..Len(q)
        PROVE  (h \o w)[Len(h) + i] = q[i].task
    <2>1. Len(h) + i \in 1..(Len(h) + Len(w)) /\ ~(Len(h) + i <= Len(h)) /\ Len(h) + i - Len(h) = i
      BY <1>3
    <2> QED
      BY <2>1, <1>3, <1>4
  <1> QED
    BY <1>3, <1>4, <1>5, <1>6, <1>7

LEMMA LinedBehind ==
    ASSUME NEW x \in Task, NEW q \in Seq(Entry)
    PROVE  /\ Lined(<<x>>, q) \in Seq(Task)
           /\ Len(Lined(<<x>>, q)) = 1 + Len(q)
           /\ Lined(<<x>>, q)[1] = x
           /\ \A i \in 1..Len(q) : Lined(<<x>>, q)[1 + i] = q[i].task
  <1> DEFINE h == <<x>>
  <1>1. h \in Seq(Task) /\ Len(h) = 1 /\ h[1] = x /\ 1 \in 1..Len(h)
    OBVIOUS
  <1> HIDE DEF h
  <1>2. /\ Lined(h, q) \in Seq(Task)
        /\ Len(Lined(h, q)) = Len(h) + Len(q)
        /\ \A i \in 1..Len(h) : Lined(h, q)[i] = h[i]
        /\ \A i \in 1..Len(q) : Lined(h, q)[Len(h) + i] = q[i].task
    BY <1>1, LinedFacts
  <1>3. /\ Len(Lined(h, q)) = 1 + Len(q)
        /\ Lined(h, q)[1] = x
    BY <1>1, <1>2
  <1>4. \A i \in 1..Len(q) : Lined(h, q)[1 + i] = q[i].task
    BY <1>1, <1>2
  <1> QED
    BY <1>2, <1>3, <1>4 DEF h

LEMMA LinedJoin ==
    ASSUME NEW h \in Seq(Task), NEW q \in Seq(Entry), NEW e \in Entry
    PROVE  Lined(h, Append(q, e)) = Append(Lined(h, q), e.task)
  <1> DEFINE qe == Append(q, e)
             a == Lined(h, qe)
             l == Lined(h, q)
             b == Append(l, e.task)
             n == Len(h) + Len(q)
  <1>1. /\ qe \in Seq(Entry) /\ Len(qe) = Len(q) + 1
        /\ \A i \in 1..Len(q) : qe[i] = q[i]
        /\ qe[Len(q) + 1] = e
        /\ e.task \in Task
    BY DEF Entry
  <1> HIDE DEF qe
  <1>2. /\ a \in Seq(Task) /\ Len(a) = Len(h) + Len(qe)
        /\ \A i \in 1..Len(h) : a[i] = h[i]
        /\ \A i \in 1..Len(qe) : a[Len(h) + i] = qe[i].task
    BY <1>1, LinedFacts
  <1>3. /\ l \in Seq(Task) /\ Len(l) = n
        /\ \A i \in 1..Len(h) : l[i] = h[i]
        /\ \A i \in 1..Len(q) : l[Len(h) + i] = q[i].task
    BY LinedFacts
  <1> HIDE DEF a, l
  <1>4. /\ b \in Seq(Task) /\ Len(b) = n + 1
        /\ \A i \in 1..n : b[i] = l[i]
        /\ b[n + 1] = e.task
    <2>1. e.task \in Task /\ l \in Seq(Task) /\ Len(l) = n
      BY <1>1, <1>3
    <2> HIDE DEF n
    <2> QED
      BY <2>1, AppendProperties
  <1>6. Len(a) = n + 1 /\ Len(h) \in Nat /\ Len(q) \in Nat /\ n = Len(h) + Len(q)
    BY <1>1, <1>2
  <1> HIDE DEF b, n
  <1>5. ASSUME NEW i \in 1..(n + 1)
        PROVE  a[i] = b[i]
    <2>1. CASE i \in 1..Len(h)
      BY <2>1, <1>2, <1>3, <1>4, <1>6
    <2>2. CASE i \in (Len(h) + 1)..n
      <3> DEFINE j == i - Len(h)
      <3>1. j \in 1..Len(q) /\ j \in 1..Len(qe) /\ Len(h) + j = i /\ i \in 1..n
        BY <2>2, <1>1, <1>6
      <3>2. a[i] = qe[j].task /\ l[i] = q[j].task
        BY <3>1, <1>2, <1>3
      <3> QED
        BY <3>1, <3>2, <1>1, <1>4
    <2>3. CASE i = n + 1
      <3>1. Len(q) + 1 \in 1..Len(qe) /\ Len(h) + (Len(q) + 1) = n + 1
        BY <1>1, <1>6
      <3>2. a[n + 1] = qe[Len(q) + 1].task
        BY <3>1, <1>2
      <3> QED
        BY <2>3, <3>2, <1>1, <1>4
    <2> QED
      BY <2>1, <2>2, <2>3, <1>6
  <1> QED
    BY <1>2, <1>4, <1>5, <1>6, SeqEqual DEF a, b, l, qe

LEMMA LinedLeave ==
    ASSUME NEW x \in Task, NEW q \in Seq(Entry), NEW k \in 1..Len(q)
    PROVE  Lined(<<x>>, RemoveAt(q, k)) = RemoveAt(Lined(<<x>>, q), k + 1)
  <1> DEFINE l == Lined(<<x>>, q)
             r == RemoveAt(q, k)
             a == Lined(<<x>>, r)
             b == RemoveAt(l, k + 1)
             n == Len(q)
  <1>0. n \in Nat
    OBVIOUS
  <1>1. /\ r \in Seq(Entry) /\ Len(r) = n - 1
        /\ \A j \in 1..(n - 1) : r[j] = q[IF j < k THEN j ELSE j + 1]
    BY RemoveAtFacts
  <1> HIDE DEF r
  <1>2. l \in Seq(Task) /\ Len(l) = 1 + n /\ l[1] = x /\ \A i \in 1..n : l[1 + i] = q[i].task
    BY LinedBehind
  <1>3. /\ a \in Seq(Task) /\ Len(a) = n /\ a[1] = x
        /\ \A i \in 1..(n - 1) : a[1 + i] = r[i].task
    <2>1. /\ a \in Seq(Task) /\ Len(a) = 1 + Len(r) /\ a[1] = x
          /\ \A i \in 1..Len(r) : a[1 + i] = r[i].task
      BY <1>1, LinedBehind
    <2> HIDE DEF a
    <2> QED
      BY <1>0, <1>1, <2>1
  <1> HIDE DEF l, a
  <1>4. /\ b \in Seq(Task) /\ Len(b) = n
        /\ \A j \in 1..n : b[j] = l[IF j < k + 1 THEN j ELSE j + 1]
    <2>1. k + 1 \in 1..Len(l) /\ Len(l) - 1 = n
      BY <1>0, <1>2
    <2> QED
      BY <2>1, <1>2, RemoveAtFacts
  <1> HIDE DEF b
  <1>5. ASSUME NEW i \in 1..n
        PROVE  a[i] = b[i]
    <2>1. CASE i = 1
      BY <2>1, <1>2, <1>3, <1>4
    <2>2. CASE i # 1
      <3> DEFINE j == i - 1
      <3>1. j \in 1..(n - 1) /\ 1 + j = i /\ j + 1 = i
        BY <2>2, <1>0
      <3>2. CASE j < k
        <4>1. a[i] = q[j].task
          BY <3>1, <3>2, <1>1, <1>3
        <4>2. b[i] = l[i]
          BY <3>1, <3>2, <1>4
        <4>3. j \in 1..n
          BY <3>1
        <4> QED
          BY <4>1, <4>2, <4>3, <3>1, <1>2
      <3>3. CASE ~(j < k)
        <4>1. a[i] = q[j + 1].task
          BY <3>1, <3>3, <1>1, <1>3
        <4>2. b[i] = l[i + 1]
          BY <3>1, <3>3, <1>4
        <4>3. j + 1 \in 1..n /\ 1 + (j + 1) = i + 1
          BY <3>1
        <4> QED
          BY <4>1, <4>2, <4>3, <1>2
      <3> QED
        BY <3>2, <3>3
    <2> QED
      BY <2>1, <2>2
  <1> QED
    BY <1>3, <1>4, <1>5, SeqEqual DEF a, b, l, r

LEMMA LinedServe ==
    ASSUME NEW x \in Task, NEW q \in Seq(Entry), Len(q) >= 1
    PROVE  Lined(<<q[1].task>>, SubSeq(q, 2, Len(q))) = Tail(Lined(<<x>>, q))
  <1> DEFINE l == Lined(<<x>>, q)
             r == SubSeq(q, 2, Len(q))
             a == Lined(<<q[1].task>>, r)
             n == Len(q)
  <1>0. n \in Nat /\ n >= 1 /\ q[1] \in Entry
    OBVIOUS
  <1>1. q[1].task \in Task
    BY <1>0 DEF Entry
  <1>2. r \in Seq(Entry) /\ Len(r) = n - 1 /\ \A j \in 1..(n - 1) : r[j] = q[j + 1]
    <2>1. \A j \in 2..n : q[j] \in Entry
      OBVIOUS
    <2>2. /\ r \in Seq(Entry)
          /\ Len(r) = IF 2 <= n THEN n - 2 + 1 ELSE 0
          /\ \A j \in 1..(n - 2 + 1) : r[j] = q[2 + j - 1]
      BY <1>0, <2>1, SubSeqProperties
    <2>3. (IF 2 <= n THEN n - 2 + 1 ELSE 0) = n - 1 /\ n - 2 + 1 = n - 1
      <3> HIDE DEF n
      <3> QED
        BY <1>0
    <2>4. \A j \in 1..(n - 1) : 2 + j - 1 = j + 1
      BY <1>0
    <2> QED
      BY <2>2, <2>3, <2>4
  <1>3. l \in Seq(Task) /\ Len(l) = 1 + n /\ \A i \in 1..n : l[1 + i] = q[i].task
    BY LinedBehind
  <1> HIDE DEF r
  <1>4. /\ a \in Seq(Task) /\ Len(a) = n /\ a[1] = q[1].task
        /\ \A i \in 1..(n - 1) : a[1 + i] = r[i].task
    BY <1>0, <1>1, <1>2, LinedBehind
  <1> HIDE DEF l, a
  <1>5. /\ Tail(l) \in Seq(Task) /\ Len(Tail(l)) = n
        /\ \A i \in 1..n : Tail(l)[i] = l[i + 1]
    BY <1>0, <1>3
  <1>6. ASSUME NEW i \in 1..n
        PROVE  a[i] = Tail(l)[i]
    <2>1. Tail(l)[i] = q[i].task
      BY <1>0, <1>3, <1>5
    <2>2. CASE i = 1
      BY <2>1, <2>2, <1>4
    <2>3. CASE i # 1
      <3>1. i - 1 \in 1..(n - 1) /\ 1 + (i - 1) = i /\ (i - 1) + 1 = i
        BY <2>3, <1>0
      <3> QED
        BY <2>1, <3>1, <1>2, <1>4
    <2> QED
      BY <2>2, <2>3
  <1> QED
    BY <1>4, <1>5, <1>6, SeqEqual DEF a, l, r

LEMMA LinedNobody ==
    /\ Lined(<<>>, <<>>) = <<>>
    /\ \A x \in Task : /\ Lined(<<x>>, <<>>) = <<x>>
                       /\ Tail(<<x>>) = <<>>
                       /\ Append(<<>>, x) = <<x>>
  BY DEF Lined

(***************************************************************************)
(* The line of a connection now, and what it takes for it to stay.         *)
(***************************************************************************)
LEMMA LineNow ==
    ASSUME IInv, NEW c \in Conn
    PROVE  /\ runningChatId[c] = NoReq => queue[c] = <<>> /\ LineOf(c) = <<>>
           /\ runningChatId[c] # NoReq =>
                /\ runningChatId[c] \in Req
                /\ activeChats[c][runningChatId[c]] \in Task
                /\ LineOf(c) = Lined(<<activeChats[c][runningChatId[c]]>>, queue[c])
  <1>1. TypeOK
    BY DEF IInv
  <1>2. CASE runningChatId[c] = NoReq
    <2>1. queue[c] = <<>>
      BY <1>2 DEF IInv, RunningIsActive, ClosedHoldsNothing, Open
    <2>2. LineOf(c) = Lined(<<>>, <<>>)
      BY <1>2, <2>1 DEF LineOf, Lined
    <2> QED
      BY <1>2, <2>1, <2>2, LinedNobody
  <1>3. CASE runningChatId[c] # NoReq
    <2>1. runningChatId[c] \in Req /\ c \in Open
      BY <1>1, <1>3 DEF TypeOK, IInv, ClosedHoldsNothing, Open
    <2>2. activeChats[c][runningChatId[c]] \in Task
      BY <1>1, <1>3, <2>1 DEF TypeOK, IInv, RunningIsActive
    <2> QED
      BY <1>3, <2>1, <2>2 DEF LineOf, Lined
  <1> QED
    BY <1>2, <1>3

LEMMA LineStays ==
    ASSUME NEW c \in Conn, queue'[c] = queue[c], runningChatId'[c] = runningChatId[c],
           \/ runningChatId[c] = NoReq
           \/ activeChats'[c] = activeChats[c]
    PROVE  LineOf(c)' = LineOf(c)
  BY DEF LineOf

LEMMA LineChanges ==
    ASSUME NEW c \in Conn, NEW l, LineOf(c)' = l,
           \A d \in Conn \ {c} : LineOf(d)' = LineOf(d)
    PROVE  LET ln == [d \in Conn |-> LineOf(d)]
           IN  ln' = [ln EXCEPT ![c] = l] /\ ln[c] = LineOf(c)
  OBVIOUS

(***************************************************************************)
(* Each handler is a step of RpcLine.                                      *)
(***************************************************************************)
LEMMA JoinStep ==
    ASSUME IInv, NEW c \in Conn, NEW r \in Req, NEW s \in Session, NEW t \in Task,
           ChatStartNow(c, r, s, t) \/ ChatStartQueued(c, r, s, t)
    PROVE  Line!Join(c, t)
  <1>1. IInv /\ TypeOK
    BY DEF IInv
  <1>2. /\ conn[c] = "open" /\ t \in Unused
        /\ sessionOf' = [sessionOf EXCEPT ![t] = s]
    BY DEF ChatStartNow, ChatStartQueued, AcceptRequest
  <1>3. t \notin Task \ Unused /\ (Task \ Unused)' = (Task \ Unused) \cup {t}
    BY <1>1, <1>2, NoSessionAssumption DEF Unused, TypeOK
  <1>4. \A d \in Conn \ {c} : LineOf(d)' = LineOf(d)
    BY <1>1, LineStays DEF ChatStartNow, ChatStartQueued, TypeOK
  <1>5. LineOf(c)' = Append(LineOf(c), t) /\ Len(LineOf(c)) < MaxQueued + 1
    <2>1. CASE ChatStartNow(c, r, s, t)
      <3>1. /\ runningChatId[c] = NoReq /\ runningChatId'[c] = r
            /\ activeChats'[c][r] = t /\ queue' = queue
        BY <1>1, <2>1 DEF ChatStartNow, MustWait, TypeOK
      <3>2. queue[c] = <<>> /\ LineOf(c) = <<>>
        BY <1>1, <3>1, LineNow
      <3>3. LineOf(c)' = Lined(<<t>>, <<>>)
        BY <3>1, <3>2, NoReqAssumption DEF LineOf, Lined
      <3> QED
        BY <3>2, <3>3, LinedNobody, MaxQueuedAssumption
    <2>2. CASE ChatStartQueued(c, r, s, t)
      <3> DEFINE e == [id |-> r, task |-> t]
                 x == activeChats[c][runningChatId[c]]
      <3>1. /\ runningChatId[c] # NoReq /\ ~(Len(queue[c]) >= MaxQueued)
            /\ UNCHANGED <<runningChatId, activeChats>>
            /\ queue'[c] = Append(queue[c], e)
        BY <1>1, <2>2 DEF ChatStartQueued, MustWait, QueueFull, TypeOK
      <3>2. x \in Task /\ LineOf(c) = Lined(<<x>>, queue[c])
        BY <1>1, <3>1, LineNow
      <3>3. e \in Entry /\ e.task = t /\ queue[c] \in Seq(Entry)
        BY <1>1, Held DEF Entry
      <3>4. LineOf(c)' = Lined(<<x>>, Append(queue[c], e))
        BY <3>1 DEF LineOf, Lined
      <3>5. Lined(<<x>>, Append(queue[c], e)) = Append(Lined(<<x>>, queue[c]), t)
        <4>1. <<x>> \in Seq(Task)
          BY <3>2
        <4> HIDE DEF e, x
        <4> QED
          BY <3>3, <4>1, LinedJoin
      <3>6. Len(LineOf(c)) = 1 + Len(queue[c]) /\ Len(queue[c]) \in Nat
        BY <3>2, <3>3, LinedBehind
      <3> QED
        BY <3>1, <3>2, <3>4, <3>5, <3>6, MaxQueuedAssumption
    <2> QED
      BY <2>1, <2>2
  <1> QED
    BY <1>3, <1>4, <1>5, LineChanges DEF Line!Join

LEMMA WithdrawStep ==
    ASSUME IInv, NEW c \in Conn, NEW r \in Req, AbortQueued(c, r)
    PROVE  Line!Next
  <1>1. IInv /\ TypeOK
    BY DEF IInv
  <1>2. PICK k \in 1..Len(queue[c]) : queue' = [queue EXCEPT ![c] = RemoveAt(queue[c], k)]
    BY DEF AbortQueued, WithoutEntry
  <1>3. /\ UNCHANGED <<runningChatId, activeChats, sessionOf>>
        /\ queue'[c] = RemoveAt(queue[c], k)
        /\ \A d \in Conn \ {c} : queue'[d] = queue[d]
    BY <1>1, <1>2 DEF AbortQueued, TypeOK
  <1>4. queue[c] \in Seq(Entry) /\ Len(queue[c]) \in Nat
    BY <1>1, Held
  <1> DEFINE x == activeChats[c][runningChatId[c]]
  <1>5. runningChatId[c] # NoReq /\ x \in Task /\ LineOf(c) = Lined(<<x>>, queue[c])
    <2>1. queue[c] # <<>>
      BY <1>2, <1>4
    <2> QED
      BY <1>1, <2>1, LineNow
  <1>6. LineOf(c)' = Lined(<<x>>, RemoveAt(queue[c], k))
    BY <1>3, <1>5 DEF LineOf, Lined
  <1> HIDE DEF x
  <1>7. LineOf(c)' = RemoveAt(LineOf(c), k + 1)
    BY <1>4, <1>5, <1>6, LinedLeave
  <1>8. k + 1 \in 2..Len(LineOf(c))
    <2>1. Len(LineOf(c)) = 1 + Len(queue[c])
      BY <1>4, <1>5, LinedBehind
    <2> QED
      BY <1>4, <2>1
  <1>9. \A d \in Conn \ {c} : LineOf(d)' = LineOf(d)
    BY <1>3, LineStays
  <1>10. Line!Withdraw(c, k + 1)
    BY <1>3, <1>7, <1>8, <1>9, LineChanges DEF Line!Withdraw, Line!RemoveAt, RemoveAt, Unused
  <1> DEFINE ln == [d \in Conn |-> LineOf(d)]
  <1>11. k + 1 \in 2..Len(ln[c])
    BY <1>8
  <1> QED
    BY <1>10, <1>11 DEF Line!Next

LEMMA FinishIdleStep ==
    ASSUME IInv, NEW w \in runs, NEW outcome \in Outcomes, FinishIdle(w, outcome)
    PROVE  IF LineOf(w.conn) = <<>> THEN UNCHANGED Line!vars ELSE Line!ServeNext(w.conn)
  <1> DEFINE c == w.conn
  <1>1. IInv /\ TypeOK
    BY DEF IInv
  <1>2. /\ c \in Conn /\ w.id \in Req /\ w.task \in Task
        /\ w = [conn |-> c, id |-> w.id, task |-> w.task]
    BY <1>1, Held
  <1>3. activeChats[c][w.id] = w.task /\ w.task # NoTask
    BY <1>2, NoTaskAssumption DEF IInv, RunsAreActiveChats
  <1>4. queue[c] = <<>>
    BY <1>1, <1>2, DequeueFirst, Held DEF FinishIdle
  <1>5. /\ queue' = queue /\ sessionOf' = sessionOf
        /\ activeChats' = [activeChats EXCEPT ![c][w.id] = NoTask]
        /\ runningChatId' = [runningChatId EXCEPT ![c] =
                IF runningChatId[c] = w.id THEN NoReq ELSE runningChatId[c]]
    BY <1>1, <1>2, <1>4 DEF FinishIdle, TypeOK
  <1> HIDE DEF c
  <1>6. \A d \in Conn \ {c} : LineOf(d)' = LineOf(d)
    BY <1>1, <1>5, LineStays DEF TypeOK
  <1>7. CASE runningChatId[c] = NoReq
    <2>1. LineOf(c)' = LineOf(c)
      <3>1. runningChatId'[c] = runningChatId[c] /\ queue'[c] = queue[c]
        BY <1>1, <1>2, <1>5, <1>7, NoReqAssumption DEF TypeOK
      <3> QED
        BY <1>2, <1>7, <3>1, LineStays
    <2>2. UNCHANGED Line!vars
      BY <1>5, <1>6, <2>1 DEF Line!vars, Unused
    <2>3. LineOf(c) = <<>>
      BY <1>1, <1>2, <1>7, LineNow
    <2> QED
      BY <2>2, <2>3 DEF c
  <1>8. CASE runningChatId[c] # NoReq
    <2>1. conn[c] = "open"
      BY <1>2, <1>8 DEF IInv, ClosedHoldsNothing
    <2>2. runningChatId[c] = w.id
      BY <2>1, <1>2, <1>3 DEF IInv, RunningIsActive, Open
    <2>3. LineOf(c) = <<w.task>>
      BY <1>1, <1>2, <1>3, <1>4, <1>8, <2>2, LineNow, LinedNobody
    <2>4. LineOf(c)' = <<>>
      <3>1. runningChatId'[c] = NoReq /\ queue'[c] = <<>>
        BY <1>1, <1>2, <1>4, <1>5, <2>2 DEF TypeOK
      <3>2. LineOf(c)' = Lined(<<>>, <<>>)
        BY <3>1 DEF LineOf, Lined
      <3> QED
        BY <3>2, LinedNobody
    <2>5. LineOf(c) # <<>> /\ LineOf(c)' = Tail(LineOf(c))
      BY <1>2, <2>3, <2>4, LinedNobody
    <2>6. Line!ServeNext(c)
      BY <1>2, <1>5, <1>6, <2>5, LineChanges DEF Line!ServeNext, Unused
    <2> QED
      BY <2>5, <2>6 DEF c
  <1> QED
    BY <1>7, <1>8

LEMMA FinishHandOverStep ==
    ASSUME IInv, NEW w \in runs, NEW outcome \in Outcomes, FinishHandOver(w, outcome)
    PROVE  Line!ServeNext(w.conn)
  <1> DEFINE c    == w.conn
             q    == queue[c]
             rest == SubSeq(q, 2, Len(q))
             x    == activeChats[c][runningChatId[c]]
  <1>1. IInv /\ TypeOK
    BY DEF IInv
  <1>2. /\ c \in Conn /\ w.id \in Req /\ q \in Seq(Entry) /\ Len(q) \in Nat
    BY <1>1, Held
  <1>3. /\ 1 <= Len(q) /\ sessionOf' = sessionOf
        /\ queue' = [queue EXCEPT ![c] = rest]
        /\ activeChats' = [activeChats EXCEPT ![c] =
                [[activeChats[c] EXCEPT ![w.id] = NoTask] EXCEPT ![q[1].id] = q[1].task]]
        /\ runningChatId' = [runningChatId EXCEPT ![c] = q[1].id]
    <2>1. DequeueIndex(q) = 1 /\ 1 + 1 = 2
      BY <1>1, <1>2, DequeueFirst
    <2> QED
      BY <2>1, <1>1, <1>2 DEF FinishHandOver, TypeOK
  <1>4. q[1].id \in Req /\ q[1].task \in Task
    BY <1>1, <1>2, <1>3, Held
  <1>5. /\ queue'[c] = rest /\ runningChatId'[c] = q[1].id
        /\ activeChats'[c][q[1].id] = q[1].task
        /\ \A d \in Conn \ {c} : /\ queue'[d] = queue[d] /\ runningChatId'[d] = runningChatId[d]
                                 /\ activeChats'[d] = activeChats[d]
    BY <1>1, <1>2, <1>3, <1>4 DEF TypeOK
  <1>6. x \in Task /\ LineOf(c) = Lined(<<x>>, q)
    <2>1. queue[c] # <<>>
      BY <1>2, <1>3
    <2> QED
      BY <1>1, <1>2, <2>1, LineNow
  <1>7. LineOf(c)' = Lined(<<q[1].task>>, rest)
    BY <1>4, <1>5, NoReqAssumption DEF LineOf, Lined
  <1>8. \A d \in Conn \ {c} : LineOf(d)' = LineOf(d)
    BY <1>5, LineStays
  <1> HIDE DEF x
  <1>9. LineOf(c)' = Tail(LineOf(c)) /\ LineOf(c) # <<>>
    <2>1. Len(LineOf(c)) = 1 + Len(q)
      BY <1>2, <1>6, LinedBehind
    <2>2. LineOf(c) # <<>>
      BY <1>2, <2>1
    <2> QED
      BY <1>2, <1>3, <1>6, <1>7, <2>2, LinedServe
  <1> QED
    BY <1>2, <1>3, <1>8, <1>9, LineChanges DEF Line!ServeNext, Unused

LEMMA DisconnectStep ==
    ASSUME IInv, NEW S \in SUBSET Open, CloseConnections(S)
    PROVE  Line!Disconnect(S)
  <1>1. /\ queue' = [c \in Conn |-> IF c \in S THEN <<>> ELSE queue[c]]
        /\ runningChatId' = [c \in Conn |-> IF c \in S THEN NoReq ELSE runningChatId[c]]
        /\ UNCHANGED <<activeChats, sessionOf>>
    BY DEF CloseConnections
  <1>2. \A c \in Conn : LineOf(c)' = IF c \in S THEN <<>> ELSE LineOf(c)
    <2>1. ASSUME NEW c \in Conn, c \in S
          PROVE  LineOf(c)' = <<>>
      <3>1. LineOf(c)' = Lined(<<>>, <<>>)
        BY <1>1, <2>1 DEF LineOf, Lined
      <3> QED
        BY <3>1, LinedNobody
    <2>2. ASSUME NEW c \in Conn, c \notin S
          PROVE  LineOf(c)' = LineOf(c)
      BY <1>1, <2>2, LineStays
    <2> QED
      BY <2>1, <2>2
  <1> QED
    BY <1>1, <1>2 DEF Line!Disconnect, Unused

(***************************************************************************)
(* The step simulation behind ServesInLine: whatever the Maps, ids,        *)
(* counters and callbacks of the RPC layer do, its clients see a bounded   *)
(* line per connection, served from its head, that one joins once, and     *)
(* leaves only by being served, by withdrawing, or with the connection.    *)
(***************************************************************************)
THEOREM ImplementsLine == Spec => Line!Init /\ [][Line!Next]_(Line!vars)
  <1>1. Init => Line!Init
    <2> SUFFICES ASSUME Init PROVE Line!Init
      OBVIOUS
    <2>1. ASSUME NEW c \in Conn
          PROVE  LineOf(c) = <<>>
      BY InitInv, LineNow DEF Init
    <2>2. Task \ Unused = {}
      BY DEF Init, Unused
    <2> QED
      BY <2>1, <2>2 DEF Line!Init
  <1>2. ASSUME IInv, [Next]_vars
        PROVE  [Line!Next]_(Line!vars)
    <2>1. CASE UNCHANGED vars
      BY <2>1 DEF vars, Line!vars, LineOf, Unused
    <2>2. ASSUME NEW c \in Conn, ClientStep(c)
          PROVE  Line!Next \/ UNCHANGED Line!vars
      <3>1. CASE Connect(c) \/ \E r \in Req : AbortActive(c, r)
        BY <3>1 DEF Connect, AbortActive, Line!vars, LineOf, Unused
      <3>2. ASSUME NEW r \in Req, NEW s \in Session, NEW t \in Task,
                   ChatStartNow(c, r, s, t) \/ ChatStartQueued(c, r, s, t)
            PROVE  Line!Next
        BY <1>2, <3>2, JoinStep DEF Line!Next
      <3>3. ASSUME NEW r \in Req, AbortQueued(c, r)
            PROVE  Line!Next
        BY <1>2, <3>3, WithdrawStep
      <3>4. CASE Close(c)
        <4>1. {c} \in SUBSET Open /\ {c} \in SUBSET Conn /\ CloseConnections({c})
          BY <3>4 DEF Close, Open
        <4>2. Line!Disconnect({c})
          BY <1>2, <4>1, DisconnectStep
        <4> QED
          BY <4>1, <4>2 DEF Line!Next
      <3> QED
        BY <2>2, <3>1, <3>2, <3>3, <3>4 DEF ClientStep
    <2>3. ASSUME NEW w \in runs, Settle(w)
          PROVE  Line!Next \/ UNCHANGED Line!vars
      <3>1. w.conn \in Conn
        BY <1>2, Held DEF IInv
      <3> QED
        BY <1>2, <2>3, <3>1, FinishIdleStep, FinishHandOverStep DEF Settle, Line!Next
    <2>4. ASSUME NEW force \in BOOLEAN, ShutdownRequest(force)
          PROVE  UNCHANGED Line!vars
      BY <2>4 DEF ShutdownRequest, Line!vars, LineOf, Unused
    <2>5. CASE StopServer
      <3>1. Open \in SUBSET Open /\ Open \in SUBSET Conn /\ CloseConnections(Open)
        BY <2>5 DEF StopServer, Open
      <3>2. Line!Disconnect(Open)
        BY <1>2, <3>1, DisconnectStep
      <3> QED
        BY <3>1, <3>2 DEF Line!Next
    <2> QED
      BY <1>2, <2>1, <2>2, <2>3, <2>4, <2>5 DEF Next
  <1> QED
    BY <1>1, <1>2, Invariance, PTL DEF Spec

-----------------------------------------------------------------------------
(***************************************************************************)
(* The fairness of RpcLine is of ServeNext, the fairness of ServerRpc of   *)
(* the runs.  The safety half of what makes a line move, and a task end.   *)
(***************************************************************************)
\* The registry has an answer to the end of run w, whatever the outcome: there is
\* always something to evict where the contract asks for it.  This and the run
\* are all the guard of Settle there is.
CanEnd(w, outcome) ==
    LET q == queue[w.conn]
        i == DequeueIndex(q)
    IN  Transitioned(taskState, IF i > Len(q) THEN Settled(w, outcome)
                                ELSE SettledAndNext(w, outcome, q[i].task)) # {}

\* Whoever is at the head of a line has a run, and nothing but its own work keeps
\* that run from settling: not the queue, not an abort, not the registry.
HeadsHaveRuns ==
    \A c \in Conn : LineOf(c) # <<>> =>
        \E w \in runs : /\ w.conn = c /\ w.task = Head(LineOf(c))
                        /\ \A outcome \in Outcomes : CanEnd(w, outcome)

\* When a run of a line settles, it is the head that has been served.
RunsServeHeads ==
    \A w \in runs : LineOf(w.conn) # <<>> /\ Settle(w) => Line!ServeNext(w.conn)

\* What is live is in a line: the record of a task stays live no longer than the
\* line has the task.
LiveIsInLine ==
    \A t \in LiveIn(taskState) : \E c \in Open : \E i \in 1..Len(LineOf(c)) : LineOf(c)[i] = t

LEMMA SubsetOfSize ==
    ASSUME NEW S, IsFiniteSet(S), NEW n \in Nat, n <= Cardinality(S)
    PROVE  \E T \in SUBSET S : Cardinality(T) = n
  <1>1. Cardinality(S) \in Nat
    BY FS_CardinalityType
  <1>2. PICK f \in Bijection(1..Cardinality(S), S) : TRUE
    BY FS_CardinalityType DEF ExistsBijection
  <1> DEFINE T == {f[i] : i \in 1..n}
             g == [i \in 1..n |-> f[i]]
  <1>3. /\ f \in [1..Cardinality(S) -> S]
        /\ \A i, j \in 1..Cardinality(S) : f[i] = f[j] => i = j
    BY <1>2 DEF Bijection, Injection, IsInjective
  <1>4. 1..n \subseteq 1..Cardinality(S)
    BY <1>1
  <1>5. T \in SUBSET S /\ g \in [1..n -> T]
    BY <1>3, <1>4
  <1>6. g \in Bijection(1..n, T)
    BY <1>3, <1>4, <1>5 DEF Bijection, Injection, IsInjective, Surjection
  <1>7. Cardinality(T) = n
    BY <1>6, FS_CountingElements DEF ExistsBijection
  <1> QED
    BY <1>5, <1>7

\* The contract of the registry never leaves a caller without an answer.
LEMMA RegistryAnswers == ASSUME NEW st, NEW upd PROVE Transitioned(st, upd) # {}
  <1> DEFINE mv == Moved(st, upd)
             S  == TerminalIn(mv)
  <1>1. IsFiniteSet(S) /\ IsFiniteSet(Known(mv))
    <2>1. S \in SUBSET Task /\ Known(mv) \in SUBSET Task
      BY DEF TerminalIn, Known
    <2> QED
      BY <2>1, FiniteAssumption, FS_Subset
  <1>2. Cardinality(S) \in Nat /\ Cardinality(Known(mv)) \in Nat
    BY <1>1, FS_CardinalityType
  <1>3. EvictionCount(mv) \in Nat /\ EvictionCount(mv) <= Cardinality(S)
    <2>1. Overflow(mv) \in Int
      BY <1>2, MaxTasksAssumption DEF Overflow
    <2> HIDE DEF mv
    <2> QED
      BY <1>2, <2>1 DEF EvictionCount
  <1>4. PICK gone \in SUBSET S : Cardinality(gone) = EvictionCount(mv)
    BY <1>1, <1>3, SubsetOfSize
  <1>5. gone \in Evictions(mv)
    BY <1>4 DEF Evictions
  <1> QED
    BY <1>5 DEF Transitioned

LEMMA LinesMove == ASSUME IInv PROVE HeadsHaveRuns
  <1> SUFFICES ASSUME NEW c \in Conn, LineOf(c) # <<>>
               PROVE  \E w \in runs : /\ w.conn = c /\ w.task = Head(LineOf(c))
                                      /\ \A outcome \in Outcomes : CanEnd(w, outcome)
    BY DEF HeadsHaveRuns
  <1> DEFINE r == runningChatId[c]
             t == activeChats[c][r]
             w == [conn |-> c, id |-> r, task |-> t]
  <1>1. r \in Req /\ t \in Task /\ LineOf(c) = Lined(<<t>>, queue[c])
    BY LineNow
  <1>2. w \in runs
    BY <1>1 DEF IInv, RunsAreActiveChats
  <1>3. Head(LineOf(c)) = t
    <2>1. queue[c] \in Seq(Entry)
      BY Held DEF IInv
    <2> HIDE DEF t
    <2>2. LineOf(c) \in Seq(Task) /\ LineOf(c)[1] = t
      BY <1>1, <2>1, LinedBehind
    <2> QED
      BY <2>2
  <1>4. \A outcome \in Outcomes : CanEnd(w, outcome)
    BY RegistryAnswers DEF CanEnd
  <1> QED
    BY <1>2, <1>3, <1>4

LEMMA LiveOnesInLine == ASSUME IInv PROVE LiveIsInLine
  <1> SUFFICES ASSUME NEW t \in LiveIn(taskState)
               PROVE  \E c \in Open : \E i \in 1..Len(LineOf(c)) : LineOf(c)[i] = t
    BY DEF LiveIsInLine
  <1>1. \A c \in Conn : /\ queue[c] \in Seq(Entry) /\ Len(queue[c]) \in Nat
                        /\ runningChatId[c] # NoReq => c \in Open
    BY Held DEF IInv, ClosedHoldsNothing, Open
  <1>2. ASSUME NEW c \in Conn, NEW i \in 1..Len(queue[c]), queue[c][i].task = t
        PROVE  c \in Open /\ 1 + i \in 1..Len(LineOf(c)) /\ LineOf(c)[1 + i] = t
    <2>1. runningChatId[c] # NoReq
      <3>1. queue[c] # <<>>
        BY <1>1, <1>2
      <3> QED
        BY <3>1, LineNow
    <2>2. LineOf(c) = Lined(<<activeChats[c][runningChatId[c]]>>, queue[c])
          /\ activeChats[c][runningChatId[c]] \in Task
      BY <2>1, LineNow
    <2>3. Len(LineOf(c)) = 1 + Len(queue[c]) /\ LineOf(c)[1 + i] = queue[c][i].task
      BY <1>1, <2>2, LinedBehind
    <2> QED
      BY <1>1, <1>2, <2>1, <2>3
  <1>3. ASSUME NEW w \in runs, w.task = t, t \notin aborted
        PROVE  w.conn \in Open /\ 1 \in 1..Len(LineOf(w.conn)) /\ LineOf(w.conn)[1] = t
    <2>1. /\ w.conn \in Conn /\ w.id \in Req /\ w.task \in Task
          /\ w = [conn |-> w.conn, id |-> w.id, task |-> w.task]
      BY Held DEF IInv
    <2>2. w.conn \in Open /\ activeChats[w.conn][w.id] = t
      BY <1>3, <2>1 DEF IInv, RunStates, RunsAreActiveChats, Open
    <2>3. runningChatId[w.conn] = w.id /\ w.id # NoReq
      BY <2>1, <2>2, <1>3, NoTaskAssumption, NoReqAssumption DEF IInv, RunningIsActive
    <2>4. LineOf(w.conn) = Lined(<<t>>, queue[w.conn])
      BY <2>1, <2>2, <2>3, LineNow
    <2>5. Len(LineOf(w.conn)) = 1 + Len(queue[w.conn]) /\ LineOf(w.conn)[1] = t
      BY <1>1, <1>3, <2>1, <2>4, LinedBehind
    <2> QED
      BY <1>1, <2>1, <2>2, <2>5
  <1>4. \/ \E c \in Conn : \E i \in 1..Len(queue[c]) : queue[c][i].task = t
        \/ \E w \in runs : w.task = t /\ t \notin aborted
    BY DEF IInv, LiveIsHeld
  <1> QED
    BY <1>2, <1>3, <1>4 DEF Open

(***************************************************************************)
(* What is live is in a line, the head of every line has a run that its    *)
(* outcome, its abort or a full registry cannot keep from settling, and    *)
(* that settles by letting the next one forward.  With runs that end this  *)
(* is why lines move (ServesInLine) and tasks end (EveryTaskEnds).         *)
(***************************************************************************)
THEOREM LinesAreServed == Spec => [](HeadsHaveRuns /\ LiveIsInLine) /\ [][RunsServeHeads]_vars
  <1>1. IInv => HeadsHaveRuns /\ LiveIsInLine
    BY LinesMove, LiveOnesInLine
  <1>2. IInv => RunsServeHeads
    BY FinishIdleStep, FinishHandOverStep DEF RunsServeHeads, Settle
  <1> QED
    BY <1>1, <1>2, Invariance, PTL

=============================================================================
