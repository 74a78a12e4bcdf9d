------------------------- MODULE SessionStoreProofs --------------------------
(***************************************************************************)
(* SessionStore for any processes, sessions and turns: what was saved is   *)
(* lost in the ways LossHasACause names and in no other, and the store     *)
(* implements the session table.                                           *)
(***************************************************************************)
EXTENDS SessionStore, TLAPS

\* A state knows no session that was never made.
Made(state) == \A s \in Session : state.sessions[s] # Missing => s \in made

MadeBy(p) ==
    /\ \A s \in Session : mem[p][s] # Missing => s \in made
    /\ Made(image[p]) /\ Made(temp[p])
    /\ \A s \in Session, t \in Turn :
        <<s, t>> \in said[p] => mem[p][s] # Missing /\ t \in made

Running(p) ==
    /\ pc[p] = "chat" => cur[p] \in Session /\ mem[p][cur[p]] # Missing
    /\ pc[p] # "chat" => chain[p] = <<>> /\ said[p] = {}
    /\ phase[p] # "waiting" => chain[p] # <<>>
    /\ phase[p] = "waiting" => image[p] = Empty /\ temp[p] = Empty
    /\ \A i \in 1..Len(chain[p]) : mem[p][chain[p][i].id] # Missing

\* Of a session the process knows, it has every turn of state, or it said the
\* turn itself, or others wrote to that session.
Accounts(p, state) ==
    \A s \in Session : mem[p][s] # Missing /\ state.sessions[s] # Missing =>
        \A t \in state.sessions[s] :
            t \in mem[p][s] \/ <<s, t>> \in said[p] \/ s \in unseen[p]

\* What is to be written leaves out only what was taken back or never seen.
Written(p) ==
    phase[p] = "written" =>
        \E turns \in SUBSET Turn :
            /\ temp[p] = Changed(image[p], Head(chain[p]), turns)
            /\ image[p].sessions[Head(chain[p]).id] # Missing =>
                \A t \in image[p].sessions[Head(chain[p]).id] \ turns :
                    \/ Head(chain[p]).id \in unseen[p]
                    \/ /\ <<Head(chain[p]).id, t>> \in said[p]
                       /\ t \notin mem[p][Head(chain[p]).id]

Current(p) == phase[p] # "waiting" /\ ~blind[p] => image[p] = disk

Inv(p) ==
    /\ MadeBy(p)
    /\ Running(p)
    /\ Accounts(p, disk) /\ Accounts(p, image[p]) /\ Accounts(p, temp[p])
    /\ Written(p)
    /\ Current(p)

IInv == TypeOK /\ Made(disk) /\ \A p \in Proc : Inv(p)

-----------------------------------------------------------------------------
(* States and chains *)

LEMMA EmptyIsState == Empty \in State /\ NoSessions \in Sessions
  BY DEF Empty, State, NoSessions, Sessions

LEMMA EmptyKnowsNothing ==
    /\ Made(Empty)
    /\ \A p \in Proc : Accounts(p, Empty)
  BY DEF Made, Accounts, Empty, NoSessions

LEMMA InitInv == Init => IInv
  <1> SUFFICES ASSUME Init PROVE IInv
    OBVIOUS
  <1>1. TypeOK
    BY EmptyIsState, MaxSavesAssumption DEF Init, TypeOK
  <1>2. Made(disk)
    BY EmptyKnowsNothing DEF Init
  <1>3. ASSUME NEW p \in Proc PROVE Inv(p)
    <2>1. /\ disk = Empty /\ pc[p] = "new" /\ mem[p] = NoSessions /\ chain[p] = <<>>
          /\ phase[p] = "waiting" /\ image[p] = Empty /\ temp[p] = Empty /\ said[p] = {}
      BY DEF Init
    <2>2. MadeBy(p)
      BY <2>1, EmptyKnowsNothing DEF MadeBy, NoSessions
    <2> QED
      BY <2>1, <2>2, EmptyKnowsNothing DEF Inv, Running, Written, Current
  <1> QED
    BY <1>1, <1>2, <1>3 DEF IInv

\* The members of a chain when an operation joins or leaves it.
LEMMA AppendMembers ==
    ASSUME NEW q \in Seq(Op), NEW o \in Op
    PROVE  /\ Append(q, o) \in Seq(Op)
           /\ Append(q, o) # <<>>
           /\ \A i \in 1..Len(Append(q, o)) :
                 Append(q, o)[i] = o \/ \E j \in 1..Len(q) : Append(q, o)[i] = q[j]
           /\ q # <<>> => Head(Append(q, o)) = Head(q)
  <1>1. Append(q, o) \in Seq(Op) /\ Len(Append(q, o)) = Len(q) + 1 /\ Len(q) \in Nat
    OBVIOUS
  <1>2. Append(q, o)[Len(q) + 1] = o /\ \A i \in 1..Len(q) : Append(q, o)[i] = q[i]
    OBVIOUS
  <1>3. \A i \in 1..Len(Append(q, o)) : i = Len(q) + 1 \/ i \in 1..Len(q)
    BY <1>1
  <1>4. q # <<>> => Head(Append(q, o)) = Head(q)
    <2> HAVE q # <<>>
    <2>1. 1 \in 1..Len(q) /\ Head(q) = q[1] /\ Head(Append(q, o)) = Append(q, o)[1]
      BY <1>1
    <2> QED
      BY <2>1, <1>2
  <1> QED
    BY <1>1, <1>2, <1>3, <1>4

LEMMA TailMembers ==
    ASSUME NEW q \in Seq(Op), q # <<>>
    PROVE  /\ Head(q) \in Op /\ Tail(q) \in Seq(Op)
           /\ 1 \in 1..Len(q) /\ Head(q) = q[1]
           /\ \A i \in 1..Len(Tail(q)) : \E j \in 1..Len(q) : Tail(q)[i] = q[j]
  <1>1. /\ Head(q) \in Op /\ Tail(q) \in Seq(Op) /\ Len(Tail(q)) = Len(q) - 1
        /\ Len(q) \in Nat \ {0} /\ Head(q) = q[1]
    OBVIOUS
  <1>2. \A i \in 1..Len(Tail(q)) : i + 1 \in 1..Len(q) /\ Tail(q)[i] = q[i + 1]
    BY <1>1
  <1> QED
    BY <1>1, <1>2

LEMMA ChangedIsState ==
    ASSUME NEW state \in State, NEW op \in Op, NEW turns \in {Missing} \cup SUBSET Turn
    PROVE  Changed(state, op, turns) \in State
  BY DEF State, Sessions, Op, Changed

LEMMA ChangedParts ==
    ASSUME NEW state \in State, NEW op \in Op, NEW turns \in {Missing} \cup SUBSET Turn
    PROVE  /\ op.kind = "save" =>
                /\ Changed(state, op, turns).sessions = [state.sessions EXCEPT ![op.id] = turns]
                /\ Changed(state, op, turns).active = state.active
           /\ op.kind # "save" =>
                /\ Changed(state, op, turns).sessions = state.sessions
                /\ Changed(state, op, turns).active = op.id
           /\ op.id \in Session
  BY DEF State, Sessions, Op, Changed

\* Session by session.
LEMMA ChangedSessions ==
    ASSUME NEW state \in State, NEW op \in Op, NEW turns \in {Missing} \cup SUBSET Turn,
           NEW s \in Session
    PROVE  \/ Changed(state, op, turns).sessions[s] = state.sessions[s]
           \/ /\ op = [kind |-> "save", id |-> s]
              /\ Changed(state, op, turns).sessions[s] = turns
  <1>1. state.sessions \in Sessions
    BY DEF State
  <1>2. op.kind = "save" /\ op.id = s => op = [kind |-> "save", id |-> s]
    BY DEF Op
  <1> DEFINE new == Changed(state, op, turns)
  <1>3. \/ new.sessions = state.sessions
        \/ op.kind = "save" /\ new.sessions = [state.sessions EXCEPT ![op.id] = turns]
    BY ChangedParts
  <1> HIDE DEF new
  <1>4. \/ new.sessions[s] = state.sessions[s]
        \/ op.kind = "save" /\ op.id = s /\ new.sessions[s] = turns
    BY <1>1, <1>3 DEF Sessions
  <1> QED
    BY <1>2, <1>4 DEF new

-----------------------------------------------------------------------------
(* What one process's step leaves of the invariant of another *)

LEMMA Others ==
    ASSUME NEW q \in Proc, Inv(q), made \subseteq made', UNCHANGED disk,
           UNCHANGED <<pc[q], mem[q], cur[q], chain[q], phase[q], image[q], temp[q],
                       said[q], blind[q], unseen[q]>>
    PROVE  Inv(q)'
  <1>1. MadeBy(q)' /\ Running(q)'
    BY DEF Inv, MadeBy, Made, Running
  <1>2. Accounts(q, disk)' /\ Accounts(q, image[q])' /\ Accounts(q, temp[q])'
    BY DEF Inv, Accounts
  <1>3. Written(q)'
    BY DEF Inv, Written, Changed
  <1>4. Current(q)'
    BY DEF Inv, Current
  <1> QED
    BY <1>1, <1>2, <1>3, <1>4 DEF Inv

\* A step that leaves the file alone concerns the process that takes it.
LEMMA Concerns ==
    ASSUME IInv, NEW p \in Proc, TypeOK', Inv(p)', made \subseteq made', UNCHANGED disk,
           \A q \in Proc : q # p =>
              UNCHANGED <<pc[q], mem[q], cur[q], chain[q], phase[q], image[q], temp[q],
                          said[q], blind[q], unseen[q]>>
    PROVE  IInv'
  <1>1. \A q \in Proc : q # p => Inv(q)'
    BY Others DEF IInv
  <1>2. Made(disk)'
    BY DEF IInv, Made
  <1> QED
    BY <1>1, <1>2 DEF IInv

-----------------------------------------------------------------------------
(* Steps of the chat process *)

\* The process learns something, says something or takes it back; its chain may
\* grow, the file and the running operation stay.
LEMMA Grows ==
    ASSUME TypeOK, Made(disk), NEW p \in Proc, Inv(p), TypeOK', made \subseteq made',
           \A s \in Session : mem[p][s] # Missing =>
                /\ mem'[p][s] # Missing
                /\ \A t \in mem[p][s] : t \in mem'[p][s] \/ <<s, t>> \in said'[p]
                /\ \A t \in Turn : t \in made /\ t \notin mem[p][s] => t \notin mem'[p][s],
           \A s \in Session : mem'[p][s] # Missing =>
                s \in made' /\ (mem[p][s] # Missing \/ s \notin made),
           said[p] \subseteq said'[p],
           \A s \in Session, t \in Turn :
                <<s, t>> \in said'[p] => mem'[p][s] # Missing /\ t \in made',
           pc'[p] = "chat", cur'[p] \in Session, mem'[p][cur'[p]] # Missing,
           NEW o \in Op,
           \/ chain'[p] = chain[p]
           \/ chain'[p] = Append(chain[p], o) /\ mem'[p][o.id] # Missing,
           UNCHANGED <<disk, phase[p], image[p], temp[p], blind[p], unseen[p]>>
    PROVE  Inv(p)'
  <1>1. chain[p] \in Seq(Op)
    BY DEF TypeOK
  <1>2. MadeBy(p)'
    BY DEF Inv, MadeBy, Made
  <1>3. ASSUME NEW state, Made(state), Accounts(p, state)
        PROVE  \A s \in Session : mem'[p][s] # Missing /\ state.sessions[s] # Missing =>
                    \A t \in state.sessions[s] :
                        t \in mem'[p][s] \/ <<s, t>> \in said'[p] \/ s \in unseen[p]
    BY <1>3 DEF Made, Accounts
  <1>4. Accounts(p, disk)' /\ Accounts(p, image[p])' /\ Accounts(p, temp[p])'
    BY <1>3 DEF Inv, MadeBy, Accounts
  <1>5. chain[p] # <<>> => chain'[p] # <<>> /\ Head(chain'[p]) = Head(chain[p])
    BY <1>1, AppendMembers
  <1>6. Running(p)'
    <2>1. \A i \in 1..Len(chain[p]) : chain[p][i].id \in Session
      <3> SUFFICES ASSUME NEW i \in 1..Len(chain[p]) PROVE chain[p][i].id \in Session
        OBVIOUS
      <3>1. chain[p][i] \in Op
        BY <1>1
      <3> QED
        BY <3>1 DEF Op
    <2>2. \A i \in 1..Len(chain[p]) : mem'[p][chain[p][i].id] # Missing
      BY <2>1 DEF Inv, Running
    <2>3. \A i \in 1..Len(chain'[p]) : mem'[p][chain'[p][i].id] # Missing
      <3>1. CASE chain'[p] = chain[p]
        BY <2>2, <3>1
      <3>2. CASE chain'[p] = Append(chain[p], o) /\ mem'[p][o.id] # Missing
        <4>1. \A i \in 1..Len(Append(chain[p], o)) :
                  \/ Append(chain[p], o)[i] = o
                  \/ \E j \in 1..Len(chain[p]) : Append(chain[p], o)[i] = chain[p][j]
          BY <1>1, AppendMembers
        <4> QED
          BY <2>2, <3>2, <4>1
      <3> QED
        BY <3>1, <3>2
    <2> QED
      BY <1>5, <2>3 DEF Inv, Running
  <1>7. Written(p)'
    <2> SUFFICES ASSUME phase[p] = "written" PROVE Written(p)'
      BY DEF Written
    <2> DEFINE op == Head(chain[p])
    <2>1. chain[p] # <<>> /\ op = Head(chain'[p])
      BY <1>5 DEF Inv, Running
    <2>2. op \in Op /\ op.id \in Session /\ mem[p][op.id] # Missing
      <3>1. op \in Op /\ 1 \in 1..Len(chain[p]) /\ op = chain[p][1]
        BY <1>1, <2>1, TailMembers
      <3> QED
        BY <3>1 DEF Inv, Running, Op
    <2>3. PICK turns \in SUBSET Turn :
              /\ temp[p] = Changed(image[p], op, turns)
              /\ image[p].sessions[op.id] # Missing =>
                    \A t \in image[p].sessions[op.id] \ turns :
                        \/ op.id \in unseen[p]
                        \/ <<op.id, t>> \in said[p] /\ t \notin mem[p][op.id]
      BY DEF Inv, Written
    <2> HIDE DEF op
    <2>4. \A t \in Turn : <<op.id, t>> \in said[p] /\ t \notin mem[p][op.id]
                => <<op.id, t>> \in said'[p] /\ t \notin mem'[p][op.id]
      BY <2>2 DEF Inv, MadeBy
    <2>5. image[p].sessions[op.id] # Missing => image[p].sessions[op.id] \subseteq Turn
      BY <2>2 DEF TypeOK, State, Sessions
    <2>6. image[p].sessions[op.id] # Missing =>
            \A t \in image[p].sessions[op.id] \ turns :
                \/ op.id \in unseen[p]
                \/ <<op.id, t>> \in said'[p] /\ t \notin mem'[p][op.id]
      BY <2>3, <2>4, <2>5
    <2>7. temp'[p] = Changed(image'[p], op, turns)
      BY <2>3 DEF Changed
    <2> QED
      BY <2>1, <2>6, <2>7 DEF Written
  <1>8. Current(p)'
    BY DEF Inv, Current
  <1> QED
    BY <1>2, <1>4, <1>6, <1>7, <1>8 DEF Inv

\* A process that has no session open has nothing in the chain.
LEMMA Idle ==
    ASSUME NEW p \in Proc, Inv(p), pc[p] # "chat"
    PROVE  /\ chain[p] = <<>> /\ phase[p] = "waiting" /\ said[p] = {}
           /\ image[p] = Empty /\ temp[p] = Empty
  <1>1. phase[p] = "waiting"
    BY DEF Inv, Running
  <1> QED
    BY <1>1 DEF Inv, Running

LEMMA LoadInv ==
    ASSUME NEW p \in Proc, IInv, Load(p)
    PROVE  IInv'
  <1>1. TypeOK /\ Inv(p) /\ Made(disk)
    BY DEF IInv
  <1>2. PICK state \in {disk, Empty} : mem' = [mem EXCEPT ![p] = state.sessions]
    BY DEF Load, ReadResults
  <1>3. /\ pc[p] = "new" /\ pc' = [pc EXCEPT ![p] = "loaded"]
        /\ UNCHANGED <<disk, made, cur, lock, chain, phase, image, temp, saves,
                       said, blind, unseen>>
    BY DEF Load, history
  <1>4. state \in State /\ Made(state) /\ state.sessions \in Sessions
    BY <1>1, <1>2, EmptyIsState, EmptyKnowsNothing DEF TypeOK, State
  <1>5. TypeOK'
    BY <1>1, <1>2, <1>3, <1>4 DEF TypeOK
  <1>6. /\ chain[p] = <<>> /\ phase[p] = "waiting" /\ said[p] = {}
        /\ image[p] = Empty /\ temp[p] = Empty
    BY <1>1, <1>3, Idle
  <1>7. pc'[p] = "loaded" /\ mem'[p] = state.sessions
    BY <1>1, <1>2, <1>3 DEF TypeOK
  <1>8. Inv(p)'
    <2>1. MadeBy(p)'
      BY <1>3, <1>4, <1>6, <1>7, EmptyKnowsNothing DEF MadeBy, Made
    <2>2. Running(p)'
      BY <1>3, <1>6, <1>7 DEF Running
    <2>3. Accounts(p, disk)'
      BY <1>2, <1>3, <1>7 DEF Accounts, Empty, NoSessions
    <2>4. Accounts(p, image[p])' /\ Accounts(p, temp[p])'
      BY <1>3, <1>6 DEF Accounts, Empty, NoSessions
    <2>5. Written(p)' /\ Current(p)'
      BY <1>3, <1>6 DEF Written, Current
    <2> QED
      BY <2>1, <2>2, <2>3, <2>4, <2>5 DEF Inv
  <1> QED
    BY <1>1, <1>2, <1>3, <1>5, <1>8, Concerns DEF TypeOK

LEMMA OpenedGrows ==
    ASSUME TypeOK, NEW p \in Proc, NEW s \in Session, CanOpen(p, s), Open(p, s)
    PROVE  /\ mem' \in [Proc -> Sessions] /\ made' \subseteq Session \cup Turn
           /\ cur' \in [Proc -> Session \cup {Missing}] /\ cur'[p] = s
           /\ made' = made \cup {s}
           /\ mem'[p][s] # Missing
           /\ \A u \in Session : mem[p][u] # Missing => mem'[p][u] = mem[p][u]
           /\ \A u \in Session : mem'[p][u] # Missing =>
                mem[p][u] # Missing \/ (u = s /\ s \notin made)
           /\ \A q \in Proc : q # p => mem'[q] = mem[q] /\ cur'[q] = cur[q]
  <1>1. mem[p] \in Sessions /\ {} \in SUBSET Turn /\ {} # Missing
    BY MissingAssumption DEF TypeOK
  <1>2. mem'[p] = [mem[p] EXCEPT ![s] = IF mem[p][s] = Missing THEN {} ELSE mem[p][s]]
    BY DEF Open, TypeOK
  <1>3. mem'[p] \in Sessions
    BY <1>1, <1>2 DEF Sessions
  <1>4. mem' = [mem EXCEPT ![p] = mem'[p]]
    BY <1>2 DEF Open, TypeOK
  <1>5. mem' \in [Proc -> Sessions] /\ \A q \in Proc : q # p => mem'[q] = mem[q]
    BY <1>3, <1>4 DEF TypeOK
  <1>6. mem'[p][s] # Missing
    BY <1>1, <1>2 DEF Sessions
  <1>7. \A u \in Session : mem[p][u] # Missing => mem'[p][u] = mem[p][u]
    BY <1>1, <1>2 DEF Sessions
  <1>8. \A u \in Session : u # s => mem'[p][u] = mem[p][u]
    BY <1>1, <1>2 DEF Sessions
  <1>9. \A u \in Session : mem'[p][u] # Missing =>
            mem[p][u] # Missing \/ (u = s /\ s \notin made)
    <2> SUFFICES ASSUME NEW u \in Session, mem'[p][u] # Missing, mem[p][u] = Missing
                 PROVE  u = s /\ s \notin made
      OBVIOUS
    <2>1. u = s
      BY <1>8
    <2> QED
      BY <2>1 DEF CanOpen
  <1>10. /\ made' = made \cup {s} /\ cur' = [cur EXCEPT ![p] = s]
         /\ made' \subseteq Session \cup Turn
    BY DEF Open, TypeOK
  <1>11. /\ cur' \in [Proc -> Session \cup {Missing}] /\ cur'[p] = s
         /\ \A q \in Proc : q # p => cur'[q] = cur[q]
    BY <1>10 DEF TypeOK
  <1> QED
    BY <1>5, <1>6, <1>7, <1>9, <1>10, <1>11

LEMMA LockInv ==
    ASSUME NEW p \in Proc, IInv, NEW s \in Session, Lock(p, s)
    PROVE  IInv'
  <1>1. TypeOK /\ Inv(p) /\ Made(disk)
    BY DEF IInv
  <1>2. /\ CanOpen(p, s) /\ Open(p, s)
        /\ pc' = [pc EXCEPT ![p] = "chat"] /\ lock' = [lock EXCEPT ![p] = s]
        /\ UNCHANGED <<disk, chain, phase, image, temp, saves, said, blind, unseen>>
    BY DEF Lock, history
  <1>3. TypeOK'
    BY <1>1, <1>2, OpenedGrows DEF TypeOK
  <1>4. pc'[p] = "chat" /\ cur'[p] = s
    BY <1>1, <1>2, OpenedGrows DEF TypeOK
  <1>5. [kind |-> "save", id |-> s] \in Op
    BY DEF Op
  <1>6. Inv(p)'
    <2>1. \A u \in Session : mem'[p][u] # Missing =>
              u \in made' /\ (mem[p][u] # Missing \/ u \notin made)
      BY <1>1, <1>2, OpenedGrows DEF Inv, MadeBy
    <2>2. \A u \in Session, t \in Turn :
              <<u, t>> \in said'[p] => mem'[p][u] # Missing /\ t \in made'
      BY <1>1, <1>2, OpenedGrows DEF Inv, MadeBy
    <2> QED
      BY <1>1, <1>2, <1>3, <1>4, <1>5, <2>1, <2>2, OpenedGrows, Grows
  <1>7. \A q \in Proc : q # p =>
            /\ pc'[q] = pc[q]
            /\ UNCHANGED <<mem[q], cur[q], chain[q], phase[q], image[q], temp[q],
                           said[q], blind[q], unseen[q]>>
    BY <1>1, <1>2, OpenedGrows DEF TypeOK
  <1> QED
    BY <1>2, <1>3, <1>6, <1>7, Concerns, OpenedGrows, <1>1

LEMMA SwitchInv ==
    ASSUME NEW p \in Proc, IInv, NEW s \in Session, Switch(p, s)
    PROVE  IInv'
  <1> DEFINE o == [kind |-> "save", id |-> s]
  <1>1. TypeOK /\ Inv(p) /\ Made(disk)
    BY DEF IInv
  <1>2. /\ pc[p] = "chat" /\ CanOpen(p, s) /\ Open(p, s)
        /\ chain' = [chain EXCEPT ![p] = Append(chain[p], o)]
        /\ saves' \in 0..MaxSaves
        /\ UNCHANGED <<disk, pc, lock, phase, image, temp, said, blind, unseen>>
    BY <1>1, MaxSavesAssumption DEF Switch, Save, history, TypeOK
  <1>3. o \in Op /\ o.id = s
    BY DEF Op
  <1> HIDE DEF o
  <1>4. Append(chain[p], o) \in Seq(Op)
    BY <1>1, <1>3, AppendMembers DEF TypeOK
  <1>5. TypeOK' /\ chain'[p] = Append(chain[p], o)
    BY <1>1, <1>2, <1>4, OpenedGrows DEF TypeOK
  <1>6. Inv(p)'
    <2>1. \A u \in Session : mem'[p][u] # Missing =>
              u \in made' /\ (mem[p][u] # Missing \/ u \notin made)
      BY <1>1, <1>2, OpenedGrows DEF Inv, MadeBy
    <2>2. \A u \in Session, t \in Turn :
              <<u, t>> \in said'[p] => mem'[p][u] # Missing /\ t \in made'
      BY <1>1, <1>2, OpenedGrows DEF Inv, MadeBy
    <2> QED
      BY <1>1, <1>2, <1>3, <1>5, <2>1, <2>2, OpenedGrows, Grows
  <1>7. \A q \in Proc : q # p =>
            /\ chain'[q] = chain[q]
            /\ UNCHANGED <<pc[q], mem[q], cur[q], phase[q], image[q], temp[q],
                           said[q], blind[q], unseen[q]>>
    BY <1>1, <1>2, OpenedGrows DEF TypeOK
  <1> QED
    BY <1>1, <1>2, <1>5, <1>6, <1>7, Concerns, OpenedGrows

LEMMA PersistInv ==
    ASSUME NEW p \in Proc, IInv, Persist(p)
    PROVE  IInv'
  <1> DEFINE o == [kind |-> "save", id |-> cur[p]]
  <1>1. TypeOK /\ Inv(p) /\ Made(disk)
    BY DEF IInv
  <1>2. /\ pc[p] = "chat" /\ chain' = [chain EXCEPT ![p] = Append(chain[p], o)]
        /\ saves' \in 0..MaxSaves
        /\ UNCHANGED <<disk, made, pc, mem, cur, lock, phase, image, temp, said, blind, unseen>>
    BY <1>1, MaxSavesAssumption DEF Persist, Save, history, TypeOK
  <1>3. cur[p] \in Session /\ mem[p][cur[p]] # Missing /\ o \in Op /\ o.id = cur[p]
    BY <1>1, <1>2 DEF Inv, Running, Op
  <1> HIDE DEF o
  <1>4. Append(chain[p], o) \in Seq(Op)
    BY <1>1, <1>3, AppendMembers DEF TypeOK
  <1>5. TypeOK' /\ chain'[p] = Append(chain[p], o)
    BY <1>1, <1>2, <1>4 DEF TypeOK
  <1>6. Inv(p)'
    <2>1. /\ \A u \in Session : mem[p][u] # Missing => u \in made
          /\ \A u \in Session, t \in Turn :
                <<u, t>> \in said[p] => mem[p][u] # Missing /\ t \in made
      BY <1>1 DEF Inv, MadeBy
    <2> QED
      BY <1>1, <1>2, <1>3, <1>5, <2>1, Grows
  <1>7. \A q \in Proc : q # p => chain'[q] = chain[q]
    BY <1>1, <1>2 DEF TypeOK
  <1> QED
    BY <1>2, <1>5, <1>6, <1>7, Concerns

\* mem when a process changes the turns of one session it knows.
LEMMA TurnsChange ==
    ASSUME TypeOK, NEW p \in Proc, NEW s \in Session, NEW turns \in SUBSET Turn,
           mem[p][s] # Missing, mem' = [mem EXCEPT ![p][s] = turns]
    PROVE  /\ mem' \in [Proc -> Sessions]
           /\ mem'[p][s] = turns
           /\ \A u \in Session : u # s => mem'[p][u] = mem[p][u]
           /\ \A u \in Session : mem'[p][u] # Missing <=> mem[p][u] # Missing
           /\ \A q \in Proc : q # p => mem'[q] = mem[q]
  <1>1. mem[p] \in Sessions /\ turns # Missing
    BY MissingAssumption DEF TypeOK
  <1>2. mem'[p] = [mem[p] EXCEPT ![s] = turns]
    BY DEF TypeOK
  <1>3. mem'[p] \in Sessions
    BY <1>1, <1>2 DEF Sessions
  <1>4. mem' = [mem EXCEPT ![p] = mem'[p]]
    BY <1>2 DEF TypeOK
  <1>5. mem' \in [Proc -> Sessions] /\ \A q \in Proc : q # p => mem'[q] = mem[q]
    BY <1>3, <1>4 DEF TypeOK
  <1>6. mem'[p][s] = turns /\ \A u \in Session : u # s => mem'[p][u] = mem[p][u]
    BY <1>1, <1>2 DEF Sessions
  <1> QED
    BY <1>1, <1>5, <1>6

LEMMA AddTurnInv ==
    ASSUME NEW p \in Proc, IInv, NEW s \in Session, NEW t \in Turn, AddTurn(p, s, t)
    PROVE  IInv'
  <1>1. TypeOK /\ Inv(p) /\ Made(disk)
    BY DEF IInv
  <1>2. /\ pc[p] = "chat" /\ t \notin made
        /\ mem' = [mem EXCEPT ![p][s] = mem[p][s] \cup {t}]
        /\ made' = made \cup {t}
        /\ said' = [said EXCEPT ![p] = said[p] \cup {<<s, t>>}]
        /\ UNCHANGED <<disk, pc, cur, lock, chain, phase, image, temp, saves, blind, unseen>>
    BY DEF AddTurn
  <1>3. mem[p][s] # Missing
    BY <1>1 DEF AddTurn, Inv, Running, MadeBy
  <1>4. mem[p][s] \cup {t} \in SUBSET Turn
    BY <1>1, <1>3 DEF TypeOK, Sessions
  <1>5. /\ mem' \in [Proc -> Sessions]
        /\ mem'[p][s] = mem[p][s] \cup {t}
        /\ \A u \in Session : u # s => mem'[p][u] = mem[p][u]
        /\ \A u \in Session : mem'[p][u] # Missing <=> mem[p][u] # Missing
        /\ \A q \in Proc : q # p => mem'[q] = mem[q]
    BY <1>1, <1>2, <1>3, <1>4, TurnsChange
  <1>6. /\ said' \in [Proc -> SUBSET (Session \X Turn)]
        /\ said'[p] = said[p] \cup {<<s, t>>}
        /\ \A q \in Proc : q # p => said'[q] = said[q]
    BY <1>1, <1>2 DEF TypeOK
  <1>7. TypeOK'
    BY <1>1, <1>2, <1>5, <1>6 DEF TypeOK
  <1>8. Inv(p)'
    <2>1. /\ \A u \in Session : mem[p][u] # Missing => u \in made
          /\ \A u \in Session, v \in Turn :
                <<u, v>> \in said[p] => mem[p][u] # Missing /\ v \in made
          /\ cur[p] \in Session /\ mem[p][cur[p]] # Missing
      BY <1>1, <1>2 DEF Inv, MadeBy, Running
    <2>2. \A u \in Session, v \in Turn :
              <<u, v>> \in said'[p] => mem'[p][u] # Missing /\ v \in made'
      BY <1>2, <1>3, <1>5, <1>6, <2>1
    <2>3. \A u \in Session : mem[p][u] # Missing =>
              /\ mem'[p][u] # Missing
              /\ \A v \in mem[p][u] : v \in mem'[p][u]
              /\ \A v \in Turn : v \in made /\ v \notin mem[p][u] => v \notin mem'[p][u]
      BY <1>2, <1>5
    <2>4. [kind |-> "save", id |-> s] \in Op
      BY DEF Op
    <2>5. made \subseteq made' /\ said[p] \subseteq said'[p]
      BY <1>2, <1>6
    <2> QED
      BY <1>1, <1>2, <1>5, <1>7, <2>1, <2>2, <2>3, <2>4, <2>5, Grows
  <1> QED
    BY <1>2, <1>5, <1>6, <1>7, <1>8, Concerns

LEMMA TakeBackInv ==
    ASSUME NEW p \in Proc, IInv, NEW s \in Session, NEW t \in Turn, TakeBack(p, s, t)
    PROVE  IInv'
  <1>1. TypeOK /\ Inv(p) /\ Made(disk)
    BY DEF IInv
  <1>2. /\ pc[p] = "chat" /\ <<s, t>> \in said[p]
        /\ mem' = [mem EXCEPT ![p][s] = mem[p][s] \ {t}]
        /\ UNCHANGED <<disk, made, pc, cur, lock, chain, phase, image, temp, saves,
                       said, blind, unseen>>
    BY DEF TakeBack, history
  <1>3. mem[p][s] # Missing
    BY <1>1, <1>2 DEF Inv, MadeBy
  <1>4. mem[p][s] \ {t} \in SUBSET Turn
    BY <1>1, <1>3 DEF TypeOK, Sessions
  <1>5. /\ mem' \in [Proc -> Sessions]
        /\ mem'[p][s] = mem[p][s] \ {t}
        /\ \A u \in Session : u # s => mem'[p][u] = mem[p][u]
        /\ \A u \in Session : mem'[p][u] # Missing <=> mem[p][u] # Missing
        /\ \A q \in Proc : q # p => mem'[q] = mem[q]
    BY <1>1, <1>2, <1>3, <1>4, TurnsChange
  <1>6. TypeOK'
    BY <1>1, <1>2, <1>5 DEF TypeOK
  <1>7. Inv(p)'
    <2>1. /\ \A u \in Session : mem[p][u] # Missing => u \in made
          /\ \A u \in Session, v \in Turn :
                <<u, v>> \in said[p] => mem[p][u] # Missing /\ v \in made
          /\ cur[p] \in Session /\ mem[p][cur[p]] # Missing
      BY <1>1, <1>2 DEF Inv, MadeBy, Running
    <2>2. \A u \in Session : mem[p][u] # Missing =>
              /\ mem'[p][u] # Missing
              /\ \A v \in mem[p][u] : v \in mem'[p][u] \/ <<u, v>> \in said'[p]
              /\ \A v \in Turn : v \in made /\ v \notin mem[p][u] => v \notin mem'[p][u]
      BY <1>2, <1>5
    <2>3. [kind |-> "save", id |-> s] \in Op
      BY DEF Op
    <2> QED
      BY <1>1, <1>2, <1>5, <1>6, <2>1, <2>2, <2>3, Grows
  <1> QED
    BY <1>2, <1>5, <1>6, <1>7, Concerns

LEMMA StopInv ==
    ASSUME NEW p \in Proc, IInv, Stop(p)
    PROVE  IInv'
  <1>1. TypeOK
    BY DEF IInv
  <1>2. TypeOK'
    BY <1>1, EmptyIsState DEF Stop, TypeOK
  <1>3. /\ pc'[p] = "gone" /\ mem'[p] = NoSessions /\ chain'[p] = <<>>
        /\ phase'[p] = "waiting" /\ image'[p] = Empty /\ temp'[p] = Empty /\ said'[p] = {}
    BY <1>1 DEF Stop, TypeOK
  <1>4. Inv(p)'
    <2>1. MadeBy(p)'
      BY <1>3 DEF MadeBy, Made, Empty, NoSessions
    <2>2. Running(p)'
      BY <1>3 DEF Running
    <2>3. Accounts(p, disk)' /\ Accounts(p, image[p])' /\ Accounts(p, temp[p])'
      BY <1>3 DEF Accounts, NoSessions
    <2>4. Written(p)' /\ Current(p)'
      BY <1>3 DEF Written, Current
    <2> QED
      BY <2>1, <2>2, <2>3, <2>4 DEF Inv
  <1>5. \A q \in Proc : q # p =>
            /\ UNCHANGED <<pc[q], mem[q], cur[q], chain[q], phase[q]>>
            /\ UNCHANGED <<image[q], temp[q], said[q], blind[q], unseen[q]>>
    BY <1>1 DEF Stop, TypeOK
  <1>6. UNCHANGED <<disk, made>>
    BY DEF Stop
  <1> QED
    BY <1>2, <1>4, <1>5, <1>6, Concerns

-----------------------------------------------------------------------------
(* Steps of an operation *)

\* An operation that runs is on a session the process knows.
LEMMA RunningOp ==
    ASSUME TypeOK, NEW p \in Proc, Inv(p), phase[p] # "waiting"
    PROVE  /\ pc[p] = "chat" /\ chain[p] \in Seq(Op) /\ chain[p] # <<>>
           /\ cur[p] \in Session /\ mem[p][cur[p]] # Missing
           /\ Head(chain[p]) \in Op /\ Head(chain[p]).id \in Session
           /\ mem[p][Head(chain[p]).id] \in SUBSET Turn
           /\ mem[p][Head(chain[p]).id] # Missing
           /\ Tail(chain[p]) \in Seq(Op)
           /\ \A i \in 1..Len(Tail(chain[p])) : mem[p][Tail(chain[p])[i].id] # Missing
  <1>1. chain[p] \in Seq(Op) /\ chain[p] # <<>> /\ pc[p] = "chat"
        /\ cur[p] \in Session /\ mem[p][cur[p]] # Missing
    BY DEF Inv, Running, TypeOK
  <1>2. Head(chain[p]) \in Op /\ Head(chain[p]).id \in Session
        /\ mem[p][Head(chain[p]).id] # Missing
    BY <1>1, TailMembers DEF Inv, Running, Op
  <1>3. mem[p][Head(chain[p]).id] \in SUBSET Turn
    BY <1>2 DEF TypeOK, Sessions
  <1>4. \A i \in 1..Len(Tail(chain[p])) :
            \E j \in 1..Len(chain[p]) : Tail(chain[p])[i] = chain[p][j]
    BY <1>1, TailMembers
  <1> QED
    BY <1>1, <1>2, <1>3, <1>4, TailMembers DEF Inv, Running

LEMMA ReadStateInv ==
    ASSUME NEW p \in Proc, IInv, ReadState(p)
    PROVE  IInv'
  <1>1. TypeOK /\ Inv(p) /\ Made(disk)
    BY DEF IInv
  <1>2. PICK state \in {disk, Empty} :
            /\ image' = [image EXCEPT ![p] = state]
            /\ blind' = [blind EXCEPT ![p] = (state # disk)]
    BY DEF ReadState, ReadResults
  <1>3. /\ chain[p] # <<>> /\ phase[p] = "waiting" /\ phase' = [phase EXCEPT ![p] = "read"]
        /\ UNCHANGED <<disk, made, pc, mem, cur, lock, chain, temp, saves, said, unseen>>
    BY DEF ReadState
  <1>4. state \in State /\ Made(state) /\ Accounts(p, state)
    BY <1>1, <1>2, EmptyIsState, EmptyKnowsNothing DEF TypeOK, Inv
  <1>5. TypeOK'
    BY <1>1, <1>2, <1>3, <1>4 DEF TypeOK
  <1>6. phase'[p] = "read" /\ image'[p] = state /\ blind'[p] = (state # disk)
    BY <1>1, <1>2, <1>3 DEF TypeOK
  <1>7. Inv(p)'
    <2>1. MadeBy(p)'
      BY <1>1, <1>3, <1>4, <1>6 DEF Inv, MadeBy, Made
    <2>2. Running(p)'
      BY <1>1, <1>3, <1>6 DEF Inv, Running
    <2>3. Accounts(p, disk)' /\ Accounts(p, image[p])' /\ Accounts(p, temp[p])'
      BY <1>1, <1>3, <1>4, <1>6 DEF Inv, Accounts
    <2>4. Written(p)' /\ Current(p)'
      BY <1>3, <1>6 DEF Written, Current
    <2> QED
      BY <2>1, <2>2, <2>3, <2>4 DEF Inv
  <1>8. \A q \in Proc : q # p =>
            phase'[q] = phase[q] /\ image'[q] = image[q] /\ blind'[q] = blind[q]
    BY <1>1, <1>2, <1>3 DEF TypeOK
  <1> QED
    BY <1>3, <1>5, <1>7, <1>8, Concerns

LEMMA WriteTempInv ==
    ASSUME NEW p \in Proc, IInv, WriteTemp(p)
    PROVE  IInv'
  <1> DEFINE op == Head(chain[p])
             turns == mem[p][op.id]
             new == Changed(image[p], op, turns)
  <1>1. TypeOK /\ Inv(p) /\ Made(disk)
    BY DEF IInv
  <1>2. /\ phase[p] = "read" /\ phase' = [phase EXCEPT ![p] = "written"]
        /\ temp' = [temp EXCEPT ![p] = new]
        /\ UNCHANGED <<disk, made, pc, mem, cur, lock, chain, image, saves,
                       said, blind, unseen>>
    BY DEF WriteTemp, history
  <1>3. /\ chain[p] # <<>> /\ op \in Op /\ op.id \in Session
        /\ turns \in SUBSET Turn /\ turns # Missing
    BY <1>1, <1>2, RunningOp
  <1>4. image[p] \in State
    BY <1>1 DEF TypeOK
  <1>5. new \in State
    BY <1>3, <1>4, ChangedIsState
  <1>6. \A s \in Session : \/ new.sessions[s] = image[p].sessions[s]
                           \/ s = op.id /\ new.sessions[s] = mem[p][s]
    <2> SUFFICES ASSUME NEW s \in Session
                 PROVE  \/ new.sessions[s] = image[p].sessions[s]
                        \/ s = op.id /\ new.sessions[s] = mem[p][s]
      OBVIOUS
    <2>1. \/ new.sessions[s] = image[p].sessions[s]
          \/ op = [kind |-> "save", id |-> s] /\ new.sessions[s] = turns
      BY <1>3, <1>4, ChangedSessions
    <2> QED
      BY <2>1
  <1> HIDE DEF new
  <1>7. TypeOK'
    BY <1>1, <1>2, <1>5 DEF TypeOK
  <1>8. phase'[p] = "written" /\ temp'[p] = new
    BY <1>1, <1>2 DEF TypeOK
  <1>9. Inv(p)'
    <2>1. MadeBy(p)'
      BY <1>1, <1>2, <1>6, <1>8 DEF Inv, MadeBy, Made
    <2>2. Running(p)'
      BY <1>1, <1>2, <1>3, <1>8 DEF Inv, Running
    <2>3. Accounts(p, disk)' /\ Accounts(p, image[p])'
      BY <1>1, <1>2 DEF Inv, Accounts
    <2>4. Accounts(p, temp[p])'
      BY <1>1, <1>2, <1>6, <1>8 DEF Inv, Accounts
    <2>5. Written(p)'
      <3>1. temp'[p] = Changed(image'[p], Head(chain'[p]), turns)
        BY <1>2, <1>8 DEF new, Changed
      <3>2. image[p].sessions[op.id] # Missing =>
                \A t \in image[p].sessions[op.id] \ turns :
                    op.id \in unseen[p] \/ (<<op.id, t>> \in said[p] /\ t \notin mem[p][op.id])
        BY <1>1, <1>3 DEF Inv, Accounts
      <3> QED
        BY <1>2, <1>3, <3>1, <3>2 DEF Written
    <2>6. Current(p)'
      BY <1>1, <1>2, <1>8 DEF Inv, Current
    <2> QED
      BY <2>1, <2>2, <2>3, <2>4, <2>5, <2>6 DEF Inv
  <1>10. \A q \in Proc : q # p => phase'[q] = phase[q] /\ temp'[q] = temp[q]
    BY <1>1, <1>2 DEF TypeOK
  <1> QED
    BY <1>2, <1>7, <1>9, <1>10, Concerns

\* After an operation, the rest of the chain is on known sessions.
LEMMA SettleInv ==
    ASSUME TypeOK, NEW p \in Proc, Inv(p), phase[p] # "waiting",
           NEW rest \in Seq(Op), Settle(p, rest), TypeOK',
           UNCHANGED <<made, pc, mem, cur, said, unseen[p]>>,
           \A i \in 1..Len(rest) : mem[p][rest[i].id] # Missing,
           Accounts(p, disk)'
    PROVE  Inv(p)'
  <1>1. /\ phase'[p] = "waiting" /\ chain'[p] = rest
        /\ image'[p] = Empty /\ temp'[p] = Empty
    BY DEF Settle, TypeOK
  <1>2. MadeBy(p)'
    BY <1>1 DEF Inv, MadeBy, Made, Empty, NoSessions
  <1>3. Running(p)'
    BY <1>1, RunningOp DEF Inv, Running
  <1>4. Accounts(p, image[p])' /\ Accounts(p, temp[p])'
    BY <1>1 DEF Accounts, Empty, NoSessions
  <1>5. Written(p)' /\ Current(p)'
    BY <1>1 DEF Written, Current
  <1> QED
    BY <1>2, <1>3, <1>4, <1>5 DEF Inv

LEMMA WriteFailsInv ==
    ASSUME NEW p \in Proc, IInv, WriteFails(p)
    PROVE  IInv'
  <1>1. TypeOK /\ Inv(p) /\ phase[p] # "waiting"
    BY DEF IInv, WriteFails
  <1>2. /\ Settle(p, Tail(chain[p])) /\ blind' = [blind EXCEPT ![p] = FALSE]
        /\ UNCHANGED <<disk, made, pc, mem, cur, lock, saves, said, unseen>>
    BY DEF WriteFails
  <1>3. Tail(chain[p]) \in Seq(Op)
    BY <1>1, RunningOp
  <1>4. TypeOK'
    BY <1>1, <1>2, <1>3, EmptyIsState DEF Settle, TypeOK
  <1>5. Accounts(p, disk)'
    BY <1>1, <1>2 DEF Inv, Accounts
  <1>6. Inv(p)'
    BY <1>1, <1>2, <1>3, <1>4, <1>5, RunningOp, SettleInv
  <1>7. \A q \in Proc : q # p =>
            /\ UNCHANGED <<chain[q], phase[q], image[q], temp[q], blind[q]>>
    BY <1>1, <1>2 DEF Settle, TypeOK
  <1> QED
    BY <1>2, <1>4, <1>6, <1>7, Concerns

\* What a rename puts in the file was written from what was read.
LEMMA RenameIsChange ==
    ASSUME IInv, NEW p \in Proc, Rename(p)
    PROVE  \E op \in Op, turns \in SUBSET Turn :
              /\ op = Head(chain[p])
              /\ disk' = Changed(image[p], op, turns)
              /\ disk' \in State
              /\ image[p].sessions[op.id] # Missing =>
                    \A t \in image[p].sessions[op.id] \ turns :
                        op.id \in unseen[p] \/ (<<op.id, t>> \in said[p] /\ t \notin mem[p][op.id])
  <1>1. Inv(p) /\ TypeOK /\ phase[p] = "written" /\ disk' = temp[p]
    BY DEF IInv, Rename
  <1>2. Head(chain[p]) \in Op
    BY <1>1, RunningOp
  <1>3. temp[p] \in State
    BY <1>1 DEF TypeOK
  <1> QED
    BY <1>1, <1>2, <1>3 DEF Inv, Written

LEMMA RenameInv ==
    ASSUME NEW p \in Proc, IInv, Rename(p)
    PROVE  IInv'
  <1> DEFINE mark == [kind |-> "active", id |-> cur[p]]
             left == Tail(chain[p])
             rest == IF Head(chain[p]).kind = "save" THEN Append(left, mark) ELSE left
  <1>1. TypeOK /\ Inv(p) /\ Made(disk) /\ phase[p] # "waiting"
    BY DEF IInv, Rename
  <1>2. /\ disk' = temp[p] /\ Settle(p, rest)
        /\ blind' = [q \in Proc |-> q # p /\ phase[q] # "waiting"]
        /\ unseen' = [q \in Proc |-> IF q = p THEN unseen[q]
                                     ELSE unseen[q] \cup (Gains(temp[p]) \cap Loaded(q))]
        /\ UNCHANGED <<made, pc, mem, cur, lock, saves, said>>
    BY DEF Rename
  <1>3. mark \in Op /\ mark.id = cur[p] /\ mem[p][cur[p]] # Missing
    BY <1>1, RunningOp DEF Op
  <1>4. left \in Seq(Op) /\ \A i \in 1..Len(left) : mem[p][left[i].id] # Missing
    BY <1>1, RunningOp
  <1> HIDE DEF mark, left
  <1>5. rest \in Seq(Op) /\ \A i \in 1..Len(rest) : mem[p][rest[i].id] # Missing
    <2>1. Append(left, mark) \in Seq(Op)
          /\ \A i \in 1..Len(Append(left, mark)) : mem[p][Append(left, mark)[i].id] # Missing
      <3>1. \A i \in 1..Len(Append(left, mark)) :
                Append(left, mark)[i] = mark \/ \E j \in 1..Len(left) : Append(left, mark)[i] = left[j]
        BY <1>3, <1>4, AppendMembers
      <3> QED
        BY <1>3, <1>4, <3>1, AppendMembers
    <2> QED
      BY <1>4, <2>1
  <1> HIDE DEF rest
  <1>6. unseen' \in [Proc -> SUBSET Session]
    BY <1>1, <1>2 DEF TypeOK, Gains, Loaded
  <1>7. TypeOK'
    <2>1. /\ chain' \in [Proc -> Seq(Op)]
          /\ phase' \in [Proc -> {"waiting", "read", "written"}]
          /\ image' \in [Proc -> State] /\ temp' \in [Proc -> State]
      BY <1>1, <1>2, <1>5, EmptyIsState DEF TypeOK, Settle
    <2>2. disk' \in State /\ blind' \in [Proc -> BOOLEAN]
      BY <1>1, <1>2 DEF TypeOK
    <2> QED
      BY <1>1, <1>2, <1>6, <2>1, <2>2 DEF TypeOK
  <1>8. Made(disk)'
    BY <1>1, <1>2 DEF Inv, MadeBy, Made
  <1>9. Inv(p)'
    <2>1. unseen'[p] = unseen[p]
      BY <1>2
    <2>2. Accounts(p, disk)'
      BY <1>1, <1>2, <2>1 DEF Inv, Accounts
    <2> QED
      BY <1>1, <1>2, <1>5, <1>7, <2>1, <2>2, SettleInv
  <1>10. ASSUME NEW q \in Proc, q # p
         PROVE  Inv(q)'
    <2>1. Inv(q)
      BY DEF IInv
    <2>2. /\ UNCHANGED <<chain[q], phase[q], image[q], temp[q], pc[q], mem[q], cur[q], said[q]>>
      BY <1>1, <1>2, <1>10 DEF Settle, TypeOK
    <2>3. /\ blind'[q] = (phase[q] # "waiting")
          /\ unseen'[q] = unseen[q] \cup (Gains(temp[p]) \cap Loaded(q))
      BY <1>2, <1>10
    <2>4. MadeBy(q)' /\ Running(q)'
      BY <1>2, <2>1, <2>2 DEF Inv, MadeBy, Made, Running
    <2>5. Accounts(q, image[q])' /\ Accounts(q, temp[q])'
      BY <2>1, <2>2, <2>3 DEF Inv, Accounts
    <2>6. Accounts(q, disk)'
      <3> SUFFICES ASSUME NEW s \in Session, mem[q][s] # Missing, temp[p].sessions[s] # Missing,
                          NEW t \in temp[p].sessions[s]
                   PROVE  t \in mem[q][s] \/ <<s, t>> \in said[q] \/ s \in unseen'[q]
        BY <1>2, <2>2 DEF Accounts
      <3>1. CASE s \in Gains(temp[p])
        BY <2>3, <3>1 DEF Loaded
      <3>2. CASE s \notin Gains(temp[p])
        <4>1. disk.sessions[s] # Missing /\ t \in disk.sessions[s]
          BY <3>2 DEF Gains
        <4> QED
          BY <2>1, <2>3, <4>1 DEF Inv, Accounts
      <3> QED
        BY <3>1, <3>2
    <2>7. Written(q)'
      <3> SUFFICES ASSUME phase[q] = "written" PROVE Written(q)'
        BY <2>2 DEF Written
      <3> DEFINE op == Head(chain[q])
      <3>1. PICK turns \in SUBSET Turn :
                /\ temp[q] = Changed(image[q], op, turns)
                /\ image[q].sessions[op.id] # Missing =>
                    \A t \in image[q].sessions[op.id] \ turns :
                        op.id \in unseen[q] \/ (<<op.id, t>> \in said[q] /\ t \notin mem[q][op.id])
        BY <2>1 DEF Inv, Written
      <3>2. temp'[q] = Changed(image'[q], op, turns)
        BY <2>2, <3>1 DEF Changed
      <3>3. op = Head(chain'[q])
        BY <2>2
      <3> HIDE DEF op
      <3>4. image[q].sessions[op.id] # Missing =>
                \A t \in image[q].sessions[op.id] \ turns :
                    op.id \in unseen'[q] \/ (<<op.id, t>> \in said[q] /\ t \notin mem[q][op.id])
        BY <2>3, <3>1
      <3> QED
        BY <2>2, <3>2, <3>3, <3>4 DEF Written
    <2>8. Current(q)'
      BY <2>2, <2>3 DEF Current
    <2> QED
      BY <2>4, <2>5, <2>6, <2>7, <2>8 DEF Inv
  <1> QED
    BY <1>7, <1>8, <1>9, <1>10 DEF IInv

LEMMA NextInv == IInv /\ [Next]_vars => IInv'
  <1> SUFFICES ASSUME IInv, [Next]_vars PROVE IInv'
    OBVIOUS
  <1>1. ASSUME NEW p \in Proc, Step(p) PROVE IInv'
    <2>1. CASE Load(p) \/ Persist(p) \/ Stop(p)
      BY <2>1, LoadInv, PersistInv, StopInv
    <2>2. CASE \E s \in Session : Lock(p, s) \/ Switch(p, s)
      BY <2>2, LockInv, SwitchInv
    <2>3. CASE \E s \in Session, t \in Turn : AddTurn(p, s, t) \/ TakeBack(p, s, t)
      BY <2>3, AddTurnInv, TakeBackInv
    <2>4. CASE ReadState(p) \/ WriteTemp(p) \/ Rename(p) \/ WriteFails(p)
      BY <2>4, ReadStateInv, WriteTempInv, RenameInv, WriteFailsInv
    <2> QED
      BY <1>1, <2>1, <2>2, <2>3, <2>4 DEF Step
  <1>2. CASE UNCHANGED vars
    <2>1. /\ UNCHANGED <<disk, made, pc, mem, cur, lock, chain, phase, image, temp, saves,
                         said, blind, unseen>>
      BY <1>2 DEF vars, history
    <2>2. TypeOK' /\ Made(disk)'
      BY <2>1 DEF IInv, TypeOK, Made
    <2>3. \A p \in Proc : Inv(p)'
      BY <2>1, Others DEF IInv
    <2> QED
      BY <2>2, <2>3 DEF IInv
  <1> QED
    BY <1>1, <1>2 DEF Next

-----------------------------------------------------------------------------
(* The theorems *)

\* Whatever the processes do, and whichever reads and writes fail, a process
\* can account for what is in the file, in what it read and in what it wrote.
THEOREM Invariance == Spec => []IInv
  <1> QED
    BY InitInv, NextInv, PTL DEF Spec

\* Only a rename changes the file.
LEMMA FileSteps ==
    ASSUME IInv, [Next]_vars, disk' # disk
    PROVE  \E p \in Proc : Rename(p)
  <1>1. PICK p \in Proc : Step(p)
    BY DEF Next, vars
  <1>2. Rename(p)
    BY <1>1 DEF Step, Load, Lock, AddTurn, TakeBack, Persist, Switch, Stop, ReadState,
                WriteTemp, WriteFails
  <1> QED
    BY <1>2

\* src/session-store.ts, updateState: what was saved is lost only by a write
\* that had not read the file as it is, by the save of a session others wrote
\* to, or because an interrupted turn took its question back.
THEOREM LossKnown == Spec => LossHasACause
  <1> DEFINE A == disk' # disk => \E p \in Proc : Rename(p) /\ (blind[p] \/ LosesOnlyOwn(p))
  <1>1. IInv /\ [Next]_vars => [A]_vars
    <2> SUFFICES ASSUME IInv, [Next]_vars, disk' # disk
                 PROVE  \E p \in Proc : Rename(p) /\ (blind[p] \/ LosesOnlyOwn(p))
      OBVIOUS
    <2>1. PICK p \in Proc : Rename(p)
      BY FileSteps
    <2>2. CASE ~blind[p]
      <3>1. PICK op \in Op, turns \in SUBSET Turn :
                /\ op = Head(chain[p])
                /\ disk' = Changed(image[p], op, turns)
                /\ image[p].sessions[op.id] # Missing =>
                    \A t \in image[p].sessions[op.id] \ turns :
                        op.id \in unseen[p] \/ (<<op.id, t>> \in said[p] /\ t \notin mem[p][op.id])
        BY <2>1, RenameIsChange
      <3>2. image[p] = disk /\ image[p] \in State
        BY <2>1, <2>2 DEF IInv, Inv, Current, Rename, TypeOK
      <3>3. ASSUME NEW s \in Session, disk.sessions[s] # Missing
            PROVE  /\ disk'.sessions[s] # Missing
                   /\ \A t \in disk.sessions[s] \ disk'.sessions[s] :
                        /\ Head(chain[p]) = [kind |-> "save", id |-> s]
                        /\ s \in unseen[p] \/ (<<s, t>> \in said[p] /\ t \notin mem[p][s])
        <4>1. \/ disk'.sessions[s] = disk.sessions[s]
              \/ /\ op = [kind |-> "save", id |-> s]
                 /\ disk'.sessions[s] = turns
          BY <3>1, <3>2, ChangedSessions
        <4>2. turns # Missing
          BY MissingAssumption
        <4>3. CASE disk'.sessions[s] = disk.sessions[s]
          BY <3>3, <4>3
        <4>4. CASE op = [kind |-> "save", id |-> s] /\ disk'.sessions[s] = turns
          BY <3>1, <3>2, <3>3, <4>2, <4>4
        <4> QED
          BY <4>1, <4>3, <4>4
      <3> QED
        BY <2>1, <3>3 DEF LosesOnlyOwn
    <2> QED
      BY <2>1, <2>2
  <1> QED
    BY <1>1, Invariance, PTL DEF Spec, LossHasACause

\* A step of the table that looks at it, forgets, or does nothing.
LEMMA LooksOnly ==
    ASSUME TypeOK, NEW p \in Proc, UNCHANGED disk,
           \A q \in Proc : q # p => Looked(q)' = Looked(q),
           \/ Looked(p)' = Looked(p)
           \/ Looked(p)' = {}
           \/ Looked(p) = {} /\ \E state \in {disk, Empty} : Looked(p)' = {state}
    PROVE  [Table!Next]_(Table!vars)
  <1> DEFINE seen == [q \in Proc |-> Looked(q)]
  <1>1. disk = [sessions |-> disk.sessions, active |-> disk.active]
    BY DEF TypeOK, State
  <1>2. CASE Looked(p)' = Looked(p)
    <2>1. seen' = seen
      BY <1>2
    <2> QED
      BY <2>1 DEF Table!vars
  <1>3. CASE Looked(p)' = {}
    <2>1. seen' = [seen EXCEPT ![p] = {}]
      BY <1>3
    <2>2. Table!Forget(p)
      BY <2>1 DEF Table!Forget
    <2> QED
      BY <2>2 DEF Table!Next
  <1>4. CASE Looked(p) = {} /\ \E state \in {disk, Empty} : Looked(p)' = {state}
    <2>1. PICK state \in {disk, Empty} : Looked(p)' = {state}
      BY <1>4
    <2>2. seen' = [seen EXCEPT ![p] = {state}]
      BY <2>1
    <2>3. state \in {[sessions |-> disk.sessions, active |-> disk.active], Table!Nothing}
      BY <1>1 DEF Empty, NoSessions, Table!Nothing
    <2>4. Table!Look(p)
      BY <1>4, <2>2, <2>3 DEF Table!Look
    <2> QED
      BY <2>4 DEF Table!Next
  <1> QED
    BY <1>2, <1>3, <1>4

\* src/session-contract.ts, SessionStore: the read, the write and the rename of
\* an operation amount to a look at the table and one change of what was seen.
THEOREM StoreImplementsTable == Spec => ImplementsTable
  <1>1. Init => Table!Init
    BY DEF Init, Table!Init, Empty, NoSessions, Looked
  <1>2. IInv /\ [Next]_vars => [Table!Next]_(Table!vars)
    <2> SUFFICES ASSUME IInv, [Next]_vars PROVE [Table!Next]_(Table!vars)
      OBVIOUS
    <2>1. TypeOK
      BY DEF IInv
    <2>2. ASSUME UNCHANGED <<disk, phase, image>> PROVE [Table!Next]_(Table!vars)
      BY <2>2 DEF Table!vars, Looked
    <2>3. ASSUME NEW p \in Proc, Stop(p) \/ WriteFails(p) PROVE [Table!Next]_(Table!vars)
      <3>1. Looked(p)' = {} /\ \A q \in Proc : q # p => Looked(q)' = Looked(q)
        BY <2>1, <2>3 DEF Stop, WriteFails, Settle, TypeOK, Looked
      <3>2. UNCHANGED disk
        BY <2>3 DEF Stop, WriteFails
      <3> QED
        BY <2>1, <3>1, <3>2, LooksOnly
    <2>4. ASSUME NEW p \in Proc, ReadState(p) PROVE [Table!Next]_(Table!vars)
      <3>1. PICK state \in {disk, Empty} : image' = [image EXCEPT ![p] = state]
        BY <2>4 DEF ReadState, ReadResults
      <3>2. Looked(p) = {} /\ Looked(p)' = {state}
            /\ \A q \in Proc : q # p => Looked(q)' = Looked(q)
        BY <2>1, <2>4, <3>1 DEF ReadState, TypeOK, Looked
      <3>3. UNCHANGED disk
        BY <2>4 DEF ReadState
      <3> QED
        BY <2>1, <3>2, <3>3, LooksOnly
    <2>5. ASSUME NEW p \in Proc, WriteTemp(p) PROVE [Table!Next]_(Table!vars)
      <3>1. \A q \in Proc : Looked(q)' = Looked(q)
        BY <2>1, <2>5 DEF WriteTemp, TypeOK, Looked
      <3>2. UNCHANGED disk
        BY <2>5 DEF WriteTemp
      <3> QED
        BY <2>1, <3>1, <3>2, LooksOnly
    <2>6. ASSUME NEW p \in Proc, Rename(p) PROVE [Table!Next]_(Table!vars)
      <3> DEFINE seen == [q \in Proc |-> Looked(q)]
      <3>1. PICK op \in Op, turns \in SUBSET Turn : disk' = Changed(image[p], op, turns)
        BY <2>6, RenameIsChange
      <3>2. image[p] \in State
        BY <2>1 DEF TypeOK
      <3>3. Looked(p) = {image[p]} /\ Looked(p)' = {}
            /\ \A q \in Proc : q # p => Looked(q)' = Looked(q)
        BY <2>1, <2>6 DEF Rename, Settle, TypeOK, Looked
      <3>4. image[p] \in seen[p] /\ seen' = [seen EXCEPT ![p] = {}]
        BY <3>3
      <3>5. CASE op.kind = "save"
        <4>1. /\ disk'.sessions = [image[p].sessions EXCEPT ![op.id] = turns]
              /\ disk'.active = image[p].active /\ op.id \in Session
          BY <3>1, <3>2, <3>5, ChangedParts
        <4>2. Table!Save(p, op.id, turns)
          BY <3>4, <4>1 DEF Table!Save
        <4> QED
          BY <4>1, <4>2 DEF Table!Next
      <3>6. CASE op.kind # "save"
        <4>1. disk'.sessions = image[p].sessions /\ disk'.active = op.id /\ op.id \in Session
          BY <3>1, <3>2, <3>6, ChangedParts
        <4>2. Table!SetActive(p, op.id)
          BY <3>4, <4>1 DEF Table!SetActive
        <4> QED
          BY <4>1, <4>2 DEF Table!Next
      <3> QED
        BY <3>5, <3>6
    <2>7. CASE Next
      <3>1. PICK p \in Proc : Step(p)
        BY <2>7 DEF Next
      <3>2. \/ UNCHANGED <<disk, phase, image>>
            \/ Stop(p) \/ WriteFails(p) \/ ReadState(p) \/ WriteTemp(p) \/ Rename(p)
        BY <3>1 DEF Step, Load, Lock, Switch, AddTurn, TakeBack, Persist
      <3> QED
        BY <2>2, <2>3, <2>4, <2>5, <2>6, <3>2
    <2>8. CASE UNCHANGED vars
      BY <2>2, <2>8 DEF vars
    <2> QED
      BY <2>7, <2>8
  <1> QED
    BY <1>1, <1>2, Invariance, PTL DEF Spec, ImplementsTable, Table!Spec

=============================================================================
