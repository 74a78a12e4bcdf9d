---------------------------- MODULE SessionStore -----------------------------
(***************************************************************************)
(* The file session store (src/session-store.ts) under the chat processes  *)
(* that use it (src/cli-chat.ts and the chat commands that switch between  *)
(* sessions).  All sessions live in one file, which every save reads,      *)
(* changes and replaces.  A process runs its saves one after the other,    *)
(* each in three steps other processes can get in between: the read, the   *)
(* writing of the new state to a temporary file, and the rename.           *)
(*                                                                         *)
(* The session lock is taken as exact here (SessionLock says when it is);  *)
(* it does not cover the file, which all processes share.                  *)
(***************************************************************************)
EXTENDS Naturals, Sequences

CONSTANTS
    Proc,       \* starts of the chat
    Session,    \* session ids
    Turn,       \* the messages of sessions
    Missing,    \* no such session, nothing read
    MaxSaves    \* bound on the saves that are asked for

ASSUME MissingAssumption  == Missing \notin Session /\ \A T \in SUBSET Turn : T # Missing
ASSUME MaxSavesAssumption == MaxSaves \in Nat

VARIABLES
    disk,       \* sessions.json
    made,       \* the session ids and messages that were ever made
    pc,         \* "new", "loaded" (not locked yet), "chat" or "gone"
    mem,        \* state.sessions of a process, with what it appended
    cur,        \* activeSession, and its id in state.activeSessionId
    lock,       \* the session whose lock a process holds
    chain,      \* writeQueue: the operations that have not settled
    phase,      \* how far the first of them has come
    image,      \* the state that operation read
    temp,       \* the state in its temporary file
    saves,      \* bound: the saves that were asked for
    said,       \* <<session, message>> for what a process appended
    blind,      \* history: the operation has not read what the file holds now
    unseen      \* history: sessions others wrote to since the process loaded

history == <<said, blind, unseen>>   \* where turns may run; what was lost why
vars == <<disk, made, pc, mem, cur, lock, chain, phase, image, temp, saves, history>>

Sessions   == [Session -> {Missing} \cup SUBSET Turn]
State      == [sessions : Sessions, active : Session \cup {Missing}]
NoSessions == [s \in Session |-> Missing]
Empty      == [sessions |-> NoSessions, active |-> Missing]
Op         == [kind : {"save", "active"}, id : Session]

TypeOK ==
    /\ disk \in State
    /\ made \subseteq Session \cup Turn
    /\ pc \in [Proc -> {"new", "loaded", "chat", "gone"}]
    /\ mem \in [Proc -> Sessions]
    /\ cur \in [Proc -> Session \cup {Missing}]
    /\ lock \in [Proc -> Session \cup {Missing}]
    /\ chain \in [Proc -> Seq(Op)]
    /\ phase \in [Proc -> {"waiting", "read", "written"}]
    /\ image \in [Proc -> State]
    /\ temp \in [Proc -> State]
    /\ saves \in 0..MaxSaves
    /\ said \in [Proc -> SUBSET (Session \X Turn)]
    /\ blind \in [Proc -> BOOLEAN]
    /\ unseen \in [Proc -> SUBSET Session]

Init ==
    /\ disk = Empty
    /\ made = {}
    /\ pc = [p \in Proc |-> "new"]
    /\ mem = [p \in Proc |-> NoSessions]
    /\ cur = [p \in Proc |-> Missing]
    /\ lock = [p \in Proc |-> Missing]
    /\ chain = [p \in Proc |-> <<>>]
    /\ phase = [p \in Proc |-> "waiting"]
    /\ image = [p \in Proc |-> Empty]
    /\ temp = [p \in Proc |-> Empty]
    /\ saves = 0
    /\ said = [p \in Proc |-> {}]
    /\ blind = [p \in Proc |-> FALSE]
    /\ unseen = [p \in Proc |-> {}]

-----------------------------------------------------------------------------
(* A chat process *)

\* readState answers a file it cannot read, or parse, with an empty state.
ReadResults == {disk, Empty}

\* chatModeWithOptions reads the whole store before it takes a lock.
Load(p) ==
    /\ pc[p] = "new"
    /\ pc' = [pc EXCEPT ![p] = "loaded"]
    /\ \E state \in ReadResults : mem' = [mem EXCEPT ![p] = state.sessions]
    /\ UNCHANGED <<disk, made, cur, lock, chain, phase, image, temp, saves, history>>

\* A session the process loaded, or one it creates under an id nobody had.
CanOpen(p, s) == mem[p][s] # Missing \/ s \notin made

Open(p, s) ==
    /\ mem' = [mem EXCEPT ![p][s] = IF @ = Missing THEN {} ELSE @]
    /\ made' = made \cup {s}
    /\ cur' = [cur EXCEPT ![p] = s]

\* A known session is resumed, or a new one begun, if its lock is free.
Lock(p, s) ==
    /\ pc[p] = "loaded"
    /\ CanOpen(p, s)
    /\ \A q \in Proc : lock[q] # s
    /\ pc' = [pc EXCEPT ![p] = "chat"]
    /\ Open(p, s)
    /\ lock' = [lock EXCEPT ![p] = s]
    /\ UNCHANGED <<disk, chain, phase, image, temp, saves, history>>

\* A message is pushed on the session in use, or on one whose turn the user left
\* running when switching away from it.
AddTurn(p, s, t) ==
    /\ pc[p] = "chat"
    /\ s = cur[p] \/ \E u \in Turn : <<s, u>> \in said[p]
    /\ t \notin made
    /\ mem' = [mem EXCEPT ![p][s] = @ \cup {t}]
    /\ made' = made \cup {t}
    /\ said' = [said EXCEPT ![p] = @ \cup {<<s, t>>}]
    /\ UNCHANGED <<disk, pc, cur, lock, chain, phase, image, temp, saves, blind, unseen>>

\* A turn that is interrupted before any answer came splices its question out
\* again, which may have been saved.  Any message the process appended may be
\* that question.
TakeBack(p, s, t) ==
    /\ pc[p] = "chat"
    /\ <<s, t>> \in said[p] /\ t \in mem[p][s]
    /\ mem' = [mem EXCEPT ![p][s] = @ \ {t}]
    /\ UNCHANGED <<disk, made, pc, cur, lock, chain, phase, image, temp, saves, history>>

Save(p, s) ==
    /\ saves < MaxSaves
    /\ saves' = saves + 1
    /\ chain' = [chain EXCEPT ![p] = Append(@, [kind |-> "save", id |-> s])]

\* persist: the save of the session in use joins the chain; not every caller
\* awaits it.
Persist(p) ==
    /\ pc[p] = "chat"
    /\ Save(p, cur[p])
    /\ UNCHANGED <<disk, made, pc, mem, cur, lock, phase, image, temp, history>>

\* /resume and the session picker take a session the process loaded at its
\* start, /new begins one.  Neither touches a lock.
Switch(p, s) ==
    /\ pc[p] = "chat"
    /\ s # cur[p]
    /\ CanOpen(p, s)
    /\ Open(p, s)
    /\ Save(p, s)
    /\ UNCHANGED <<disk, pc, lock, phase, image, temp, history>>

\* The process ends, is killed, or did not get its lock.  What it had not
\* written is lost; a lock it held is free or stale.
Stop(p) ==
    /\ pc[p] \in {"loaded", "chat"}
    /\ pc' = [pc EXCEPT ![p] = "gone"]
    /\ mem' = [mem EXCEPT ![p] = NoSessions]
    /\ cur' = [cur EXCEPT ![p] = Missing]
    /\ lock' = [lock EXCEPT ![p] = Missing]
    /\ chain' = [chain EXCEPT ![p] = <<>>]
    /\ phase' = [phase EXCEPT ![p] = "waiting"]
    /\ image' = [image EXCEPT ![p] = Empty]
    /\ temp' = [temp EXCEPT ![p] = Empty]
    /\ said' = [said EXCEPT ![p] = {}]
    /\ blind' = [blind EXCEPT ![p] = FALSE]
    /\ unseen' = [unseen EXCEPT ![p] = {}]
    /\ UNCHANGED <<disk, made, saves>>

-----------------------------------------------------------------------------
(* An operation of the chain *)

\* readState, once the operation before has settled.
ReadState(p) ==
    /\ chain[p] # <<>>
    /\ phase[p] = "waiting"
    /\ phase' = [phase EXCEPT ![p] = "read"]
    /\ \E state \in ReadResults :
        /\ image' = [image EXCEPT ![p] = state]
        /\ blind' = [blind EXCEPT ![p] = state # disk]
    /\ UNCHANGED <<disk, made, pc, mem, cur, lock, chain, temp, saves, said, unseen>>

\* saveSession replaces its entry in what was read; setActiveSessionId the id.
ChangedAlone(state, op, turns) ==
    IF op.kind = "save"
    THEN [Empty EXCEPT !.sessions[op.id] = turns]
    ELSE [state EXCEPT !.active = op.id]

Changed(state, op, turns) ==
    IF op.kind = "save"
    THEN [state EXCEPT !.sessions[op.id] = turns]
    ELSE [state EXCEPT !.active = op.id]

\* writeState serialises the session as it is by now: it was passed by
\* reference.
WriteTemp(p) ==
    LET op == Head(chain[p])
    IN  /\ phase[p] = "read"
        /\ phase' = [phase EXCEPT ![p] = "written"]
        /\ temp' = [temp EXCEPT ![p] = Changed(image[p], op, mem[p][op.id])]
        /\ UNCHANGED <<disk, made, pc, mem, cur, lock, chain, image, saves, history>>

\* The operation has settled: the next one may run.
SettleCached(p, rest) ==
    /\ chain' = [chain EXCEPT ![p] = rest]
    /\ phase' = [phase EXCEPT ![p] = IF rest = <<>> THEN "waiting" ELSE "read"]
    /\ temp' = [temp EXCEPT ![p] = Empty]
    /\ UNCHANGED image

Settle(p, rest) ==
    /\ chain' = [chain EXCEPT ![p] = rest]
    /\ phase' = [phase EXCEPT ![p] = "waiting"]
    /\ image' = [image EXCEPT ![p] = Empty]
    /\ temp' = [temp EXCEPT ![p] = Empty]

\* The sessions that state has messages of which disk has not.
Gains(state) ==
    {s \in Session :
        /\ state.sessions[s] # Missing
        /\ disk.sessions[s] # Missing => ~(state.sessions[s] \subseteq disk.sessions[s])}

Loaded(p) == {s \in Session : mem[p][s] # Missing}

\* persist goes on to mark the session in use once its save is done.
Rename(p) ==
    LET mark == [kind |-> "active", id |-> cur[p]]
    IN  /\ phase[p] = "written"
        /\ disk' = temp[p]
        /\ Settle(p, IF Head(chain[p]).kind = "save"
                     THEN Append(Tail(chain[p]), mark)
                     ELSE Tail(chain[p]))
        /\ blind' = [q \in Proc |-> q # p /\ phase[q] # "waiting"]
        /\ unseen' = [q \in Proc |-> IF q = p THEN unseen[q]
                                     ELSE unseen[q] \cup (Gains(temp[p]) \cap Loaded(q))]
        /\ UNCHANGED <<made, pc, mem, cur, lock, saves, said>>

\* mkdir, writeFile or rename throws: persist rejects, the chain goes on.
WriteFails(p) ==
    /\ phase[p] \in {"read", "written"}
    /\ Settle(p, Tail(chain[p]))
    /\ blind' = [blind EXCEPT ![p] = FALSE]
    /\ UNCHANGED <<disk, made, pc, mem, cur, lock, saves, said, unseen>>

Step(p) ==
    \/ Load(p)
    \/ \E s \in Session : Lock(p, s) \/ Switch(p, s)
    \/ \E s \in Session, t \in Turn : AddTurn(p, s, t) \/ TakeBack(p, s, t)
    \/ Persist(p)
    \/ ReadState(p) \/ WriteTemp(p) \/ Rename(p) \/ WriteFails(p)
    \/ Stop(p)

Next == \E p \in Proc : Step(p)

Spec == Init /\ [][Next]_vars

-----------------------------------------------------------------------------
(* Properties *)

\* docs/sessions.md:22, src/session-store.ts:82: nothing that was saved is
\* lost again.  Not kept: other processes, failing reads and interrupted turns
\* make saves lose turns (README, section 4); LossHasACause says there is no
\* other way.
SavedTurnsStay ==
    [][\A s \in Session : disk.sessions[s] # Missing =>
        /\ disk'.sessions[s] # Missing
        /\ disk.sessions[s] \subseteq disk'.sessions[s]]_vars

\* A write of p that has read what the file holds loses no session, and of the
\* one it saves only what p took back, or never saw because others wrote it.
LosesOnlyOwn(p) ==
    \A s \in Session : disk.sessions[s] # Missing =>
        /\ disk'.sessions[s] # Missing
        /\ \A t \in disk.sessions[s] \ disk'.sessions[s] :
            /\ Head(chain[p]) = [kind |-> "save", id |-> s]
            /\ s \in unseen[p] \/ (<<s, t>> \in said[p] /\ t \notin mem[p][s])

\* What was saved is lost in three ways only, whatever a process saves, switches
\* to, fails to write or restarts: by a write whose read failed or was overtaken
\* by another process; by the save of a session another process wrote to since
\* this one loaded it; or because an interrupted turn took its question back.
LossHasACause ==
    [][disk' # disk => \E p \in Proc : Rename(p) /\ (blind[p] \/ LosesOnlyOwn(p))]_vars

\* The three steps of an operation amount to a look at the session table and one
\* change of what was seen, which the next operation does not see again.
Looked(p) == IF phase[p] = "waiting" THEN {} ELSE {image[p]}

Table == INSTANCE SessionTable
    WITH Writer <- Proc, table <- disk.sessions, active <- disk.active,
         seen <- [p \in Proc |-> Looked(p)]

ImplementsTable == Table!Spec

=============================================================================
