-------------------------- MODULE DaemonStartProofs --------------------------
(***************************************************************************)
(* DaemonStart for any clients, builds and retries: whoever made the       *)
(* startup lock is starting a daemon or dead, and a failed start leaves no *)
(* process behind; and every step of a client, but for its two polls,      *)
(* brings it nearer to the end of its command.                             *)
(***************************************************************************)
EXTENDS DaemonStart, TLAPS

Local == [command : Command, force : BOOLEAN, result : Ended,
          seen : Daemon \cup {Nobody}, attempt : 0 .. 1, retryCount : 0 .. MaxStartupRetries]
ProcessState == {"none", "booting", "listening", "closing", "closed", "dead"}

\* Where a client has, or may have, spawned a daemon.
Spawned == {"exited", "healthy", "writeLock", "kill", "reap", "release"}
Before == Places \ (Starting \cup Ended)

\* A client spawns once, and what it returns after a failed start is settled when
\* its process is gone.
Owner(c) == starting.by = c => pc[c] \in Starting \cup {"died"}
NotSpawned(c) == pc[c] \notin Spawned \cup Ended => daemon[c] = "none"
FailedIsGone(c) ==
    pc[c] = "failed" \/ (pc[c] = "release" /\ me[c].result = "failed") => ~Alive(c)

Sound(c) == Owner(c) /\ NotSpawned(c) /\ FailedIsGone(c)
IInv == TypeOK /\ \A c \in Client : Sound(c)

\* What is not there stays so.
NoneRises(D) == \A d \in D : /\ daemon[d] = "none" => daemon'[d] = "none"
                             /\ ~Alive(d) => ~Alive(d)'

-----------------------------------------------------------------------------
(* Typing *)

LEMMA TypedParts ==
  ASSUME TypeOK
  PROVE  /\ daemon \in [Daemon -> ProcessState] /\ slow \in 0 .. MaxSlow
         /\ lock \in Daemon \cup {Nobody}
         /\ starting \in [by : Client \cup {Nobody}, written : BOOLEAN]
         /\ pc \in [Client -> Places] /\ me \in [Client -> Local]
  BY DEF TypeOK, ProcessState, Local

LEMMA TypedFrom ==
  ASSUME daemon' \in [Daemon -> ProcessState], slow' \in 0 .. MaxSlow,
         lock' \in Daemon \cup {Nobody},
         starting' \in [by : Client \cup {Nobody}, written : BOOLEAN],
         pc' \in [Client -> Places], me' \in [Client -> Local]
  PROVE  TypeOK'
  BY DEF TypeOK, ProcessState, Local

LEMMA FreshTyped == Fresh \in Local
  BY ConstantsAssumption DEF Fresh, Local, Command, Ended

\* A client's step is to one place, with one set of local variables.
LEMMA MoveTyped ==
  ASSUME TypeOK, NEW c \in Client, NEW place \in Places, NEW l \in Local, Move(c, place, l)
  PROVE  /\ pc' \in [Client -> Places] /\ me' \in [Client -> Local]
         /\ pc'[c] = place /\ (place \notin Ended => me'[c] = l)
         /\ \A e \in Client \ {c} : pc'[e] = pc[e] /\ me'[e] = me[e]
<1>1. me' = [me EXCEPT ![c] = IF place \in Ended THEN Fresh ELSE l]
      /\ pc' = [pc EXCEPT ![c] = place]
  BY DEF Move
<1> QED BY <1>1, TypedParts, FreshTyped

LEMMA LocalTyped ==
  ASSUME TypeOK, NEW c \in Client
  PROVE  /\ me[c] \in Local
         /\ \A x \in Daemon \cup {Nobody} : [me[c] EXCEPT !.seen = x] \in Local
         /\ \A r \in Ended : Returning(c, r) \in Local /\ Returning(c, r).result = r
         /\ \A n \in 0 .. 1 : [me[c] EXCEPT !.attempt = n] \in Local
         /\ \A n \in 0 .. 1 : [me[c] EXCEPT !.seen = Nobody, !.attempt = n] \in Local
         /\ [me[c] EXCEPT !.seen = Nobody, !.result = "served"] \in Local
         /\ MayRetry(c) => [me[c] EXCEPT !.retryCount = @ + 1] \in Local
         /\ me[c].result \in Ended /\ me[c].seen \in Daemon \cup {Nobody}
<1>1. me[c] \in Local
  BY TypedParts
<1>2. MayRetry(c) => me[c].retryCount + 1 \in 0 .. MaxStartupRetries
  BY <1>1, ConstantsAssumption DEF MayRetry, Local
<1>3. "served" \in Ended
  BY DEF Ended
<1> HIDE DEF Ended
<1> QED BY <1>1, <1>2, <1>3 DEF Local, Returning

LEMMA RequestTyped ==
  ASSUME TypeOK, NEW D, Answered(D) \/ Unanswered(D)
  PROVE  slow' \in 0 .. MaxSlow
  BY TypedParts, ConstantsAssumption DEF Answered, Unanswered

-----------------------------------------------------------------------------
(* What processes and other clients do to one client's start *)

\* A signal ends what is there, and only what has the port closes.
LEMMA Calm ==
  ASSUME TypeOK,
         \/ UNCHANGED daemon
         \/ \E d \in Daemon : Terminated(d)
         \/ \E d \in Holder : Agrees(d)
  PROVE  daemon' \in [Daemon -> ProcessState] /\ NoneRises(Daemon)
<1>1. CASE UNCHANGED daemon
  BY <1>1, TypedParts DEF NoneRises, Alive
<1>2. ASSUME NEW d \in Daemon, Terminated(d)
      PROVE  daemon' \in [Daemon -> ProcessState] /\ NoneRises(Daemon)
  BY <1>2, TypedParts DEF Terminated, NoneRises, Alive, ProcessState
<1>3. ASSUME NEW d \in Holder, Agrees(d)
      PROVE  daemon' \in [Daemon -> ProcessState] /\ NoneRises(Daemon)
  BY <1>3, TypedParts DEF Agrees, Holder, NoneRises, Alive, ProcessState
<1> QED BY <1>1, <1>2, <1>3

\* Another client's step, or a daemon's, as one client sees it.
LEMMA OthersSound ==
  ASSUME NEW c \in Client, Sound(c), NoneRises(Daemon),
         starting' = starting \/ starting'.by # c, pc'[c] = pc[c], me'[c] = me[c]
  PROVE  Sound(c)'
  BY DEF Sound, Owner, NotSpawned, FailedIsGone, NoneRises, Daemon, Alive

\* A step outside of a start.
LEMMA PlainStep ==
  ASSUME IInv, NEW c \in Client, NEW place \in Before \cup Ended, NEW l \in Local,
         Move(c, place, l), pc[c] \in Before,
         \/ UNCHANGED daemon
         \/ \E d \in Daemon : Terminated(d)
         \/ \E d \in Holder : Agrees(d),
         slow' \in 0 .. MaxSlow, lock' \in Daemon \cup {Nobody},
         starting' \in {starting, NoStart}
  PROVE  IInv'
<1>1. place \in Places
  BY DEF Before, Places
<1>2. TypeOK /\ daemon' \in [Daemon -> ProcessState] /\ NoneRises(Daemon)
  BY Calm DEF IInv
<1>3. /\ pc' \in [Client -> Places] /\ me' \in [Client -> Local] /\ pc'[c] = place
      /\ \A e \in Client \ {c} : pc'[e] = pc[e] /\ me'[e] = me[e]
  BY <1>1, <1>2, MoveTyped
<1>4. starting' \in [by : Client \cup {Nobody}, written : BOOLEAN]
      /\ \A e \in Client : starting' = starting \/ starting'.by # e
  <2>1. NoStart \in [by : Client \cup {Nobody}, written : BOOLEAN] /\ NoStart.by = Nobody
    BY DEF NoStart
  <2>2. \A e \in Client : e # Nobody
    BY ConstantsAssumption DEF Daemon
  <2> QED BY <1>2, <2>1, <2>2, TypedParts
<1>5. TypeOK'
  BY <1>2, <1>3, <1>4, TypedFrom
<1>6. starting.by # c /\ daemon[c] = "none"
  BY DEF IInv, Sound, Owner, NotSpawned, Before, Starting, Spawned, Ended
<1>7. Sound(c)'
  <2>1. daemon'[c] = "none" /\ ~Alive(c)'
    BY <1>2, <1>6 DEF NoneRises, Daemon, Alive
  <2>2. starting'.by # c
    BY <1>4, <1>6
  <2> QED BY <1>3, <2>1, <2>2 DEF Sound, Owner, NotSpawned, FailedIsGone
<1>8. \A e \in Client \ {c} : Sound(e)'
  BY <1>2, <1>3, <1>4, OthersSound DEF IInv
<1> QED BY <1>5, <1>7, <1>8 DEF IInv

LEMMA AfterMoves ==
  ASSUME TypeOK, NEW c \in Client, NEW r \in Ended, After(c, r)
  PROVE  \E place \in Before \cup Ended, l \in Local : Move(c, place, l)
<1> DEFINE fresh == [me[c] EXCEPT !.seen = Nobody, !.result = "served"]
<1>1. fresh \in Local /\ me[c] \in Local /\ Fresh \in Local
  BY LocalTyped, FreshTyped
<1>2. {"claim", "readLock", "status"} \subseteq Before /\ "served" \in Ended
  BY DEF Before, Places, Starting, Ended
<1>3. \/ Move(c, "served", fresh) \/ Move(c, "claim", fresh)
      \/ Move(c, "readLock", Fresh) \/ Move(c, "status", fresh) \/ Move(c, r, me[c])
  BY DEF After, Goto
<1> HIDE DEF fresh
<1> QED BY <1>1, <1>2, <1>3

LEMMA PlainPlaces ==
  /\ {"new", "readLock", "sweepLock", "reusable", "listening", "claim", "readStale",
      "clearStale", "wait", "waitStale", "clearOld", "recheck", "retry", "stop", "knock",
      "ask", "askAgain", "awaitExit", "signal", "awaitProc", "reread", "remove",
      "status", "statusProbe", "statusAgain"} \subseteq Before
  /\ {"served", "failed", "stopped", "notRunning", "refused", "unresponsive"} \subseteq Ended
  BY DEF Before, Places, Starting, Ended

-----------------------------------------------------------------------------
(* The steps of a client before and after a start of its own *)

LEMMA LookingKeeps ==
  ASSUME IInv, NEW c \in Client,
         \/ Begin(c) \/ ReadLock(c) \/ SweepLock(c) \/ Probe(c) \/ ReadStale(c)
         \/ ClearStale(c) \/ Wait(c) \/ GiveUpWaiting(c) \/ Retry(c)
  PROVE  IInv'
<1>0. /\ TypeOK /\ slow \in 0 .. MaxSlow /\ lock \in Daemon \cup {Nobody} /\ Nobody \in Daemon \cup {Nobody}
      /\ starting \in [by : Client \cup {Nobody}, written : BOOLEAN]
      /\ Client \subseteq Daemon
  BY TypedParts DEF IInv, Daemon
<1>1. CASE Begin(c)
  BY <1>0, <1>1, LocalTyped, PlainPlaces, PlainStep DEF Begin, At, Goto
<1>2. CASE ReadLock(c)
  BY <1>0, <1>2, LocalTyped, PlainPlaces, PlainStep DEF ReadLock, At, Read
<1>3. CASE SweepLock(c)
  BY <1>0, <1>3, LocalTyped, PlainPlaces, PlainStep DEF SweepLock, At, Read
<1>4. CASE Probe(c)
  <2>1. slow' \in 0 .. MaxSlow
    BY <1>0, <1>4, RequestTyped DEF Probe
  <2> QED BY <1>0, <1>4, <2>1, LocalTyped, PlainPlaces, PlainStep DEF Probe, At, Goto
<1>5. CASE ReadStale(c)
  <2>1. starting.by \in Daemon \cup {Nobody}
    BY <1>0
  <2> QED BY <1>0, <1>5, <2>1, LocalTyped, PlainPlaces, PlainStep DEF ReadStale, At, Read
<1>6. CASE ClearStale(c)
  <2> DEFINE clears == ~OwnerLives(c) /\ (me[c].seen = Nobody => starting # NoStart)
             again == clears /\ At(c, "clearStale") /\ me[c].attempt = 0
             place == IF again THEN "claim"
                      ELSE IF clears /\ At(c, "clearOld") THEN "retry" ELSE "wait"
             l == [me[c] EXCEPT !.seen = Nobody, !.attempt = IF again THEN 1 ELSE 0]
  <2>1. Move(c, place, l) /\ starting' \in {starting, NoStart}
    BY <1>6 DEF ClearStale
  <2>2. place \in Before \cup Ended
    BY PlainPlaces
  <2>3. l \in Local
    <3>1. (IF again THEN 1 ELSE 0) \in 0 .. 1
      OBVIOUS
    <3> HIDE DEF again
    <3> QED BY <1>0, <3>1, LocalTyped
  <2>4. pc[c] \in Before /\ UNCHANGED <<daemon, slow, lock>>
    BY <1>6, PlainPlaces DEF ClearStale
  <2> HIDE DEF place, l
  <2> QED BY <1>0, <2>1, <2>2, <2>3, <2>4, PlainStep
<1>7. CASE Wait(c)
  <2>1. slow' \in 0 .. MaxSlow
    BY <1>0, <1>7, RequestTyped DEF Wait
  <2> QED BY <1>0, <1>7, <2>1, LocalTyped, PlainPlaces, PlainStep DEF Wait, At, Goto
<1>8. CASE GiveUpWaiting(c)
  BY <1>0, <1>8, LocalTyped, PlainPlaces, PlainStep DEF GiveUpWaiting, At, Goto
<1>9. CASE Retry(c)
  BY <1>0, <1>9, LocalTyped, PlainPlaces, PlainStep DEF Retry, At, Goto
<1> QED BY <1>1, <1>2, <1>3, <1>4, <1>5, <1>6, <1>7, <1>8, <1>9

LEMMA StoppingKeeps ==
  ASSUME IInv, NEW c \in Client,
         \/ StopReadsLock(c) \/ Knock(c) \/ Ask(c) \/ AskInVain(c) \/ AskAgain(c)
         \/ AwaitExit(c) \/ Signal(c) \/ AwaitProc(c) \/ Reread(c) \/ Remove(c)
         \/ StatusReadsLock(c) \/ StatusProbe(c) \/ StatusAgain(c)
  PROVE  IInv'
<1>0. /\ TypeOK /\ slow \in 0 .. MaxSlow /\ lock \in Daemon \cup {Nobody} /\ Nobody \in Daemon \cup {Nobody}
      /\ starting \in [by : Client \cup {Nobody}, written : BOOLEAN]
      /\ Client \subseteq Daemon
  BY TypedParts DEF IInv, Daemon
<1> USE <1>0
\* What is common to them, but for where they lead and what they do to daemons.
<1> DEFINE Plain == /\ pc[c] \in Before /\ slow' \in 0 .. MaxSlow
                    /\ lock' \in Daemon \cup {Nobody} /\ starting' = starting
           Moves == \E place \in Before \cup Ended, l \in Local : Move(c, place, l)
           Daemons == \/ UNCHANGED daemon
                      \/ \E d \in Daemon : Terminated(d)
                      \/ \E d \in Holder : Agrees(d)
<1>1. ASSUME Plain, Moves, Daemons PROVE IInv'
  <2>1. PICK place \in Before \cup Ended, l \in Local : Move(c, place, l)
    BY <1>1
  <2> QED BY <1>1, <2>1, PlainStep
<1>2. \A r \in Ended : After(c, r) => Moves
  BY AfterMoves
<1> HIDE DEF Moves
<1>3. ASSUME NEW place \in Before \cup Ended, Goto(c, place) PROVE Moves
  BY <1>3, LocalTyped DEF Goto, Moves
<1>4. CASE StopReadsLock(c)
  <2>1. Moves
    BY <1>4, LocalTyped, PlainPlaces DEF StopReadsLock, Read, Moves
  <2> QED BY <1>1, <1>4, <2>1, PlainPlaces DEF StopReadsLock, At
<1>5. CASE Knock(c)
  <2>1. Moves
    BY <1>5, LocalTyped, PlainPlaces DEF Knock, Moves
  <2>2. slow' \in 0 .. MaxSlow
    BY <1>5, RequestTyped DEF Knock
  <2> QED BY <1>1, <1>5, <2>1, <2>2, PlainPlaces DEF Knock, At
<1>6. CASE Ask(c)
  <2>1. Moves
    BY <1>2, <1>3, <1>6, PlainPlaces DEF Ask
  <2> QED BY <1>1, <1>6, <2>1, PlainPlaces DEF Ask, At
<1>7. CASE AskInVain(c)
  <2>1. Moves
    BY <1>3, <1>7, PlainPlaces DEF AskInVain
  <2>2. slow' \in 0 .. MaxSlow
    BY <1>7, RequestTyped DEF AskInVain
  <2> QED BY <1>1, <1>7, <2>1, <2>2, PlainPlaces DEF AskInVain, At
<1>8. CASE AskAgain(c)
  <2>1. Moves
    BY <1>3, <1>8, PlainPlaces DEF AskAgain
  <2>2. slow' \in 0 .. MaxSlow
    BY <1>8, RequestTyped DEF AskAgain
  <2> QED BY <1>1, <1>8, <2>1, <2>2, PlainPlaces DEF AskAgain, At
<1>9. CASE AwaitExit(c)
  <2>1. Moves
    BY <1>3, <1>9, PlainPlaces DEF AwaitExit
  <2>2. slow' \in 0 .. MaxSlow
    BY <1>9, RequestTyped DEF AwaitExit
  <2> QED BY <1>1, <1>9, <2>1, <2>2, PlainPlaces DEF AwaitExit, At
<1>10. CASE Signal(c)
  <2>1. Moves
    BY <1>2, <1>3, <1>10, LocalTyped, PlainPlaces DEF Signal, Moves
  <2>2. Daemons
    BY <1>10, LocalTyped DEF Signal
  <2> QED BY <1>1, <1>10, <2>1, <2>2, PlainPlaces DEF Signal, At
<1>11. CASE AwaitProc(c)
  <2>1. Moves
    BY <1>2, <1>3, <1>11, PlainPlaces DEF AwaitProc
  <2> QED BY <1>1, <1>11, <2>1, PlainPlaces DEF AwaitProc, At
<1>12. CASE Reread(c)
  <2>1. Moves
    BY <1>2, <1>3, <1>12, LocalTyped, PlainPlaces DEF Reread
  <2> QED BY <1>1, <1>12, <2>1, PlainPlaces DEF Reread, At
<1>13. CASE Remove(c)
  <2>1. Moves
    BY <1>2, <1>13, LocalTyped DEF Remove
  <2> QED BY <1>1, <1>13, <2>1, PlainPlaces DEF Remove, At
<1>14. CASE StatusReadsLock(c)
  <2>1. Moves
    BY <1>14, LocalTyped, PlainPlaces DEF StatusReadsLock, Read, Moves
  <2> QED BY <1>1, <1>14, <2>1, PlainPlaces DEF StatusReadsLock, At
<1>15. CASE StatusProbe(c)
  <2>1. Moves
    BY <1>3, <1>15, PlainPlaces DEF StatusProbe
  <2>2. slow' \in 0 .. MaxSlow
    BY <1>15, RequestTyped DEF StatusProbe
  <2> QED BY <1>1, <1>15, <2>1, <2>2, PlainPlaces DEF StatusProbe, At
<1>16. CASE StatusAgain(c)
  <2>1. Moves
    BY <1>3, <1>16, FreshTyped, PlainPlaces DEF StatusAgain, Moves
  <2>2. slow' \in 0 .. MaxSlow
    BY <1>16, RequestTyped DEF StatusAgain
  <2> QED BY <1>1, <1>16, <2>1, <2>2, PlainPlaces DEF StatusAgain, At
<1> QED
  BY <1>4, <1>5, <1>6, <1>7, <1>8, <1>9, <1>10, <1>11, <1>12, <1>13, <1>14, <1>15, <1>16

-----------------------------------------------------------------------------
(* The steps of a start *)

\* A step of a start, which leaves the others alone: what is left to show is the
\* client itself.
LEMMA StartStep ==
  ASSUME IInv, NEW c \in Client, NEW place \in Places, NEW l \in Local, Move(c, place, l),
         daemon' \in [Daemon -> ProcessState], NoneRises(Daemon \ {c}),
         slow' \in 0 .. MaxSlow, lock' \in Daemon \cup {Nobody},
         starting' \in [by : Client \cup {Nobody}, written : BOOLEAN],
         starting'.by \in {starting.by, c, Nobody},
         Sound(c)'
  PROVE  IInv'
<1>1. TypeOK
  BY DEF IInv
<1>2. /\ pc' \in [Client -> Places] /\ me' \in [Client -> Local]
      /\ \A e \in Client \ {c} : pc'[e] = pc[e] /\ me'[e] = me[e]
  BY <1>1, MoveTyped
<1>3. TypeOK'
  BY <1>2, TypedFrom
<1>4. ASSUME NEW e \in Client \ {c} PROVE Sound(e)'
  <2>1. Sound(e) /\ e # Nobody /\ e \in Daemon \ {c}
    BY ConstantsAssumption DEF IInv, Daemon
  <2> QED BY <1>2, <2>1
          DEF Sound, Owner, NotSpawned, FailedIsGone, NoneRises, Alive
<1> QED BY <1>3, <1>4 DEF IInv

LEMMA StartPlaces ==
  /\ Starting \cup {"claim", "readStale"} \subseteq Places
  /\ {"served", "failed"} \subseteq Ended /\ Starting \cap Ended = {}
  /\ Spawned \subseteq Starting /\ Ended \subseteq Places
  BY DEF Places, Starting, Ended, Spawned

LEMMA ClaimingKeeps ==
  ASSUME IInv, NEW c \in Client, Claim(c) \/ WritePid(c) \/ Spawn(c)
  PROVE  IInv'
<1>0. /\ TypeOK /\ daemon \in [Daemon -> ProcessState]
      /\ slow \in 0 .. MaxSlow /\ lock \in Daemon \cup {Nobody}
      /\ starting \in [by : Client \cup {Nobody}, written : BOOLEAN]
      /\ c \in Daemon /\ c # Nobody /\ Sound(c)
  BY TypedParts, ConstantsAssumption DEF IInv, Daemon
<1>1. CASE Claim(c) /\ starting = NoStart
  <2> DEFINE l == [me[c] EXCEPT !.attempt = 0]
  <2>0. l \in Local
    <3>1. 0 \in 0 .. 1
      OBVIOUS
    <3> QED BY <1>0, <3>1, LocalTyped
  <2>1. Move(c, "write", l) /\ l \in Local /\ starting' = [by |-> c, written |-> FALSE]
        /\ UNCHANGED <<daemon, slow, lock>> /\ At(c, "claim")
    BY <1>1, <2>0 DEF Claim
  <2> HIDE DEF l
  <2>2. pc'[c] = "write" /\ "write" \in Places
    BY <1>0, <2>1, MoveTyped, StartPlaces DEF Starting
  <2>3. Sound(c)'
    BY <1>0, <2>1, <2>2 DEF Sound, Owner, NotSpawned, FailedIsGone, At, Spawned, Ended, Starting
  <2> QED BY <1>0, <2>1, <2>2, <2>3, StartStep DEF NoneRises, Alive
<1>2. CASE Claim(c) /\ starting # NoStart
  BY <1>0, <1>2, LocalTyped, PlainPlaces, PlainStep DEF Claim, At, Goto
<1>3. CASE WritePid(c)
  <2>1. Move(c, "spawn", me[c]) /\ me[c] \in Local
        /\ UNCHANGED <<daemon, slow, lock>> /\ At(c, "write")
    BY <1>0, <1>3, LocalTyped DEF WritePid, Goto
  <2>2. starting' \in [by : Client \cup {Nobody}, written : BOOLEAN] /\ starting'.by = starting.by
    BY <1>0, <1>3 DEF WritePid
  <2>3. pc'[c] = "spawn" /\ "spawn" \in Places
    BY <1>0, <2>1, MoveTyped, StartPlaces DEF Starting
  <2>4. Sound(c)'
    BY <1>0, <2>1, <2>3 DEF Sound, Owner, NotSpawned, FailedIsGone, At, Spawned, Ended, Starting
  <2> QED BY <1>0, <2>1, <2>2, <2>3, <2>4, StartStep DEF NoneRises, Alive
<1>4. CASE Spawn(c) /\ daemon' = [daemon EXCEPT ![c] = "booting"]
  <2>1. /\ \/ Move(c, "healthy", me[c]) /\ pc'[c] = "healthy"
           \/ daemon' = daemon
        /\ UNCHANGED <<slow, lock, starting>> /\ At(c, "spawn")
    BY <1>0, <1>4, LocalTyped, MoveTyped, StartPlaces DEF Spawn, Goto, Starting
  <2>2. daemon[c] = "none"
    BY <1>0, <2>1 DEF Sound, NotSpawned, At, Spawned, Ended
  <2>3. daemon'[c] = "booting" /\ daemon' # daemon
    BY <1>0, <1>4, <2>2
  <2>4. Move(c, "healthy", me[c]) /\ pc'[c] = "healthy" /\ "healthy" \in Places /\ me[c] \in Local
    BY <1>0, <2>1, <2>3, LocalTyped, StartPlaces DEF Starting
  <2>5. Sound(c)'
    BY <1>0, <2>4 DEF Sound, Owner, NotSpawned, FailedIsGone, Spawned, Starting
  <2>6. daemon' \in [Daemon -> ProcessState] /\ NoneRises(Daemon \ {c})
    BY <1>0, <1>4 DEF ProcessState, NoneRises, Alive
  <2> QED BY <1>0, <2>1, <2>4, <2>5, <2>6, StartStep
<1>5. CASE Spawn(c) /\ UNCHANGED daemon
  <2>1. daemon[c] = "none" /\ At(c, "spawn") /\ UNCHANGED <<slow, lock, starting>>
    BY <1>0, <1>5 DEF Spawn, Sound, NotSpawned, At, Spawned, Ended
  <2>2. daemon # [daemon EXCEPT ![c] = "booting"]
    BY <1>0, <2>1
  <2>3. Move(c, "release", Returning(c, "failed"))
    BY <1>5, <2>2 DEF Spawn
  <2>4. Returning(c, "failed") \in Local /\ "release" \in Places
    BY <1>0, LocalTyped, StartPlaces DEF Starting
  <2>5. pc'[c] = "release"
    BY <1>0, <2>3, <2>4, MoveTyped
  <2>6. Sound(c)'
    BY <1>0, <1>5, <2>1, <2>5 DEF Sound, Owner, NotSpawned, FailedIsGone, Spawned, Starting, Alive
  <2> QED BY <1>0, <1>5, <2>1, <2>3, <2>4, <2>6, StartStep DEF NoneRises, Alive
<1> QED BY <1>1, <1>2, <1>3, <1>4, <1>5 DEF Spawn

LEMMA SpawnedKeeps ==
  ASSUME IInv, NEW c \in Client,
         \/ AwaitHealthy(c) \/ GiveUpStarting(c) \/ WriteServerLock(c) \/ KillStarted(c)
         \/ Reap(c) \/ Release(c)
  PROVE  IInv'
<1>0. /\ TypeOK /\ daemon \in [Daemon -> ProcessState]
      /\ slow \in 0 .. MaxSlow /\ lock \in Daemon \cup {Nobody}
      /\ starting \in [by : Client \cup {Nobody}, written : BOOLEAN]
      /\ c \in Daemon /\ c # Nobody /\ Sound(c) /\ me[c] \in Local
  BY TypedParts, ConstantsAssumption DEF IInv, Daemon
<1>1. ASSUME NEW place \in Starting, place # "release", Move(c, place, me[c]),
             pc[c] \in Starting, place \in Spawned,
             daemon' \in [Daemon -> ProcessState], NoneRises(Daemon),
             slow' \in 0 .. MaxSlow, UNCHANGED <<lock, starting>>
      PROVE  IInv'
  <2>1. place \in Places /\ place \notin Ended
    BY StartPlaces
  <2>2. pc'[c] = place
    BY <1>0, <1>1, <2>1, MoveTyped
  <2>3. Sound(c)'
    BY <1>0, <1>1, <2>1, <2>2 DEF Sound, Owner, NotSpawned, FailedIsGone, Ended
  <2> QED BY <1>0, <1>1, <2>1, <2>3, StartStep DEF NoneRises
<1>2. CASE AwaitHealthy(c)
  <2>1. slow' \in 0 .. MaxSlow
    BY <1>0, <1>2, RequestTyped DEF AwaitHealthy
  <2> QED BY <1>0, <1>1, <1>2, <2>1
          DEF AwaitHealthy, At, Goto, Starting, Spawned, NoneRises, Alive
<1>3. CASE GiveUpStarting(c)
  BY <1>0, <1>1, <1>3 DEF GiveUpStarting, At, Goto, Starting, Spawned, NoneRises, Alive
<1>4. CASE KillStarted(c)
  <2>1. daemon' \in [Daemon -> ProcessState] /\ NoneRises(Daemon)
    BY <1>0, <1>4, Calm DEF KillStarted
  <2> QED BY <1>0, <1>1, <1>4, <2>1 DEF KillStarted, At, Goto, Starting, Spawned
<1>5. CASE WriteServerLock(c)
  <2>1. Move(c, "release", Returning(c, "served")) /\ Returning(c, "served") \in Local
        /\ Returning(c, "served").result = "served" /\ "release" \in Places
        /\ "release" \notin Ended /\ pc[c] = "writeLock"
    BY <1>0, <1>5, LocalTyped, StartPlaces DEF WriteServerLock, At, Starting
  <2>2. pc'[c] = "release" /\ me'[c].result = "served"
    BY <1>0, <2>1, MoveTyped
  <2>3. Sound(c)'
    BY <1>0, <1>5, <2>1, <2>2
    DEF WriteServerLock, Sound, Owner, NotSpawned, FailedIsGone, Starting, Spawned
  <2> QED BY <1>0, <1>5, <2>1, <2>3, StartStep DEF WriteServerLock, NoneRises, Alive
<1>6. CASE Reap(c)
  <2>1. Move(c, "release", Returning(c, "failed")) /\ Returning(c, "failed") \in Local
        /\ "release" \in Places /\ pc[c] = "reap" /\ ~Alive(c)
    BY <1>0, <1>6, LocalTyped, StartPlaces DEF Reap, Reaped, At, Starting
  <2>2. pc'[c] = "release"
    BY <1>0, <2>1, MoveTyped
  <2>3. Sound(c)'
    BY <1>0, <1>6, <2>1, <2>2
    DEF Reap, Sound, Owner, NotSpawned, FailedIsGone, Starting, Spawned, Alive
  <2> QED BY <1>0, <1>6, <2>1, <2>3, StartStep DEF Reap, NoneRises, Alive
<1>7. CASE Release(c)
  <2>1. Move(c, me[c].result, me[c]) /\ me[c].result \in Ended /\ me[c].result \in Places
        /\ pc[c] = "release"
    BY <1>0, <1>7, LocalTyped, StartPlaces DEF Release, Goto, At
  <2>2. pc'[c] = me[c].result
    BY <1>0, <2>1, MoveTyped
  <2>3. starting' \in [by : Client \cup {Nobody}, written : BOOLEAN] /\ starting'.by = Nobody
    BY <1>7 DEF Release, NoStart
  <2>4. Sound(c)'
    BY <1>0, <1>7, <2>1, <2>2, <2>3
    DEF Release, Sound, Owner, NotSpawned, FailedIsGone, Alive, Ended
  <2> QED BY <1>0, <1>7, <2>1, <2>3, <2>4, StartStep DEF Release, NoneRises, Alive
<1> QED BY <1>2, <1>3, <1>4, <1>5, <1>6, <1>7

LEMMA DieKeeps == ASSUME IInv, NEW c \in Client, Die(c) PROVE IInv'
<1>0. /\ TypeOK /\ daemon \in [Daemon -> ProcessState]
      /\ slow \in 0 .. MaxSlow /\ lock \in Daemon \cup {Nobody}
      /\ starting \in [by : Client \cup {Nobody}, written : BOOLEAN]
      /\ me[c] \in Local /\ "died" \in Ended /\ "died" \in Places
  BY TypedParts DEF IInv, Ended, Places
<1>1. Move(c, "died", me[c]) /\ pc'[c] = "died"
  BY <1>0, MoveTyped DEF Die, Goto
<1>2. Sound(c)'
  BY <1>0, <1>1 DEF Sound, Owner, NotSpawned, FailedIsGone, Die
<1> QED BY <1>0, <1>1, <1>2, StartStep DEF Die, NoneRises, Alive

LEMMA DaemonStepKeeps == ASSUME IInv, NEW d \in Daemon, DaemonStep(d) PROVE IInv'
<1>1. TypeOK
  BY DEF IInv
<1>2. daemon' \in [Daemon -> ProcessState] /\ NoneRises(Daemon)
  BY <1>1, TypedParts
  DEF DaemonStep, Boot, StopServer, Exit, Crash, ProcessState, NoneRises, Alive
<1>3. UNCHANGED <<slow, lock, starting, pc, me>>
  BY DEF DaemonStep, Boot, StopServer, Exit, Crash
<1>4. TypeOK'
  BY <1>1, <1>2, <1>3, TypedParts, TypedFrom
<1> QED BY <1>2, <1>3, <1>4, OthersSound DEF IInv

-----------------------------------------------------------------------------

LEMMA InitInv == Init => IInv
<1> SUFFICES ASSUME Init PROVE IInv
  OBVIOUS
<1>1. me \in [Client -> Local]
  <2>1. \A x \in Command \X BOOLEAN : [Fresh EXCEPT !.command = x[1], !.force = x[2]] \in Local
    BY FreshTyped DEF Local
  <2> DEFINE S == {[Fresh EXCEPT !.command = x[1], !.force = x[2]] :
                     x \in Command \X BOOLEAN \ {<<"start", TRUE>>}}
  <2>2. S \subseteq Local
    BY <2>1
  <2>3. me \in [Client -> S]
    BY DEF Init
  <2> HIDE DEF S
  <2> QED BY <2>2, <2>3
<1>2. TypeOK
  <2>1. daemon \in [Daemon -> ProcessState] /\ slow \in 0 .. MaxSlow
    <3>1. daemon \in [Daemon -> {"none", "listening"}] /\ slow = 0
      BY DEF Init
    <3> QED BY <3>1, ConstantsAssumption DEF ProcessState
  <2>2. lock \in Daemon \cup {Nobody}
    BY DEF Init, Daemon
  <2>3. starting \in [by : Client \cup {Nobody}, written : BOOLEAN]
    BY DEF Init, NoStart
  <2>4. pc \in [Client -> Places]
    BY PlainPlaces DEF Init, Before
  <2> QED BY <1>1, <2>1, <2>2, <2>3, <2>4 DEF TypeOK, Local, ProcessState
<1>3. \A c \in Client : Sound(c)
  BY ConstantsAssumption
  DEF Init, Sound, Owner, NotSpawned, FailedIsGone, NoStart, Daemon, Spawned, Ended
<1> QED BY <1>2, <1>3 DEF IInv

LEMMA NextInv == IInv /\ [Next]_vars => IInv'
<1> SUFFICES ASSUME IInv, [Next]_vars PROVE IInv'
  OBVIOUS
<1>1. CASE UNCHANGED vars
  BY <1>1 DEF vars, IInv, TypeOK, Sound, Owner, NotSpawned, FailedIsGone, Alive
<1>2. ASSUME NEW c \in Client, Begin(c) \/ Step(c) \/ Deadline(c) \/ Die(c) PROVE IInv'
  BY <1>2, LookingKeeps, StoppingKeeps, ClaimingKeeps, SpawnedKeeps, DieKeeps
  DEF Step, Deadline
<1> QED BY <1>1, <1>2, DaemonStepKeeps DEF Next

\* Whoever made the startup lock is starting a daemon or dead, a client spawns once
\* (ensureLocalServer), and a start it gave up has no process left.
THEOREM Invariance == Spec => []IInv
<1> QED BY InitInv, NextInv, PTL DEF Spec

\* However many clients start, stop and restart, time out and die: who made the
\* startup lock is starting a daemon or dead, and a failed start leaves no process.
THEOREM StartsCleanUp == Spec => []StartCleansUp
<1>1. IInv => StartCleansUp
  BY DEF IInv, Sound, Owner, FailedIsGone, StartCleansUp
<1> QED BY <1>1, Invariance, PTL

\* The state keeps its type; in particular a client retries no more than it may.
THEOREM TypeCorrect == Spec => []TypeOK
<1> QED BY Invariance, PTL DEF IInv

-----------------------------------------------------------------------------
(* The safety half of CallsEnd *)

\* How far a client is from the end of its command.  Within a round, which a retry
\* or the start of a restart begins, it goes down these places; the two loops in
\* which it polls are on one level each.  The startup lock is claimed twice.
Steps ==
    [new |-> 30, readLock |-> 29, sweepLock |-> 28, reusable |-> 27, listening |-> 26,
     stop |-> 25, knock |-> 24, ask |-> 23, askAgain |-> 22, awaitExit |-> 21, signal |-> 20,
     awaitProc |-> 19, reread |-> 18, remove |-> 17,
     status |-> 16, statusProbe |-> 15, statusAgain |-> 14,
     claim |-> 10, readStale |-> 9, clearStale |-> 8,
     wait |-> 7, waitStale |-> 7, clearOld |-> 7, recheck |-> 6, retry |-> 5,
     write |-> 6, spawn |-> 5, exited |-> 4, healthy |-> 4, writeLock |-> 3, kill |-> 3,
     reap |-> 2, release |-> 1]

Rounds(l) ==
    IF l.command = "start" THEN MaxStartupRetries - l.retryCount ELSE MaxStartupRetries + 1
Within(place, l) ==
    Steps[place]
    + (IF place \in {"claim", "readStale", "clearStale"} THEN 3 * (1 - l.attempt) ELSE 0)
Rank(place, l) == IF place \in Ended THEN 0 ELSE 31 * Rounds(l) + Within(place, l)

WaitLoop  == {"wait", "waitStale", "clearOld"}
StartLoop == {"exited", "healthy"}

\* A client that moves is nearer to the end of its command, or it polls.
RunsDown(c) ==
    \/ pc'[c] = pc[c] /\ me'[c] = me[c]
    \/ Rank(pc'[c], me'[c]) < Rank(pc[c], me[c])
    \/ /\ Rank(pc'[c], me'[c]) = Rank(pc[c], me[c])
       /\ {pc[c], pc'[c]} \subseteq WaitLoop \/ {pc[c], pc'[c]} \subseteq StartLoop

\* What a client waits to be gone has closed its server or is dead: it did not
\* miss the signal, and is not waited for in vain.
ReapsWhatEnds == \A c \in Client : At(c, "reap") => daemon[c] \in {"closed", "dead"}

\* Only a restart asks for the status, and a restart or a stop does not start before
\* it has become a start; after the spawn there is a process.
Suits(place, l) ==
    /\ place \in {"status", "statusProbe", "statusAgain"} => l.command # "start"
    /\ l.command # "start" =>
         place \in {"new", "stop", "knock", "ask", "askAgain", "awaitExit", "signal", "awaitProc",
                    "reread", "remove", "status", "statusProbe", "statusAgain"} \cup Ended
Fits(place, state) ==
    /\ place \in StartLoop \cup {"writeLock", "kill"} => state # "none"
    /\ place = "reap" => state \in {"closed", "dead"}
InPlace(c) == Suits(pc[c], me[c]) /\ Fits(pc[c], daemon[c])

Steady(D) ==
    \A d \in D : /\ daemon[d] # "none" => daemon'[d] # "none"
                 /\ daemon[d] \in {"closed", "dead"} => daemon'[d] \in {"closed", "dead"}

Goes == \A c \in Client : RunsDown(c) /\ InPlace(c)'
RankInv == TypeOK /\ \A c \in Client : InPlace(c)

LEMMA RoundsType ==
  ASSUME NEW l \in Local
  PROVE  /\ Rounds(l) \in Nat /\ Rounds(l) <= MaxStartupRetries + 1
         /\ l.command = "start" => Rounds(l) <= MaxStartupRetries
         /\ l.command # "start" => Rounds(l) = MaxStartupRetries + 1
<1>1. l.retryCount \in 0 .. MaxStartupRetries
  BY DEF Local
<1> QED BY <1>1, ConstantsAssumption DEF Rounds

Values(l) ==
    /\ Within("new", l) = 30 /\ Within("readLock", l) = 29 /\ Within("sweepLock", l) = 28
    /\ Within("reusable", l) = 27 /\ Within("listening", l) = 26
    /\ Within("stop", l) = 25 /\ Within("knock", l) = 24 /\ Within("ask", l) = 23
    /\ Within("askAgain", l) = 22 /\ Within("awaitExit", l) = 21
    /\ Within("signal", l) = 20 /\ Within("awaitProc", l) = 19
    /\ Within("reread", l) = 18 /\ Within("remove", l) = 17
    /\ Within("status", l) = 16 /\ Within("statusProbe", l) = 15
    /\ Within("statusAgain", l) = 14
    /\ Within("wait", l) = 7 /\ Within("waitStale", l) = 7 /\ Within("clearOld", l) = 7
    /\ Within("recheck", l) = 6 /\ Within("retry", l) = 5
    /\ Within("write", l) = 6 /\ Within("spawn", l) = 5
    /\ Within("exited", l) = 4 /\ Within("healthy", l) = 4
    /\ Within("writeLock", l) = 3 /\ Within("kill", l) = 3
    /\ Within("reap", l) = 2 /\ Within("release", l) = 1
    /\ l.attempt \in 0 .. 1
    /\ Within("claim", l) = 10 + 3 * (1 - l.attempt)
    /\ Within("readStale", l) = 9 + 3 * (1 - l.attempt)
    /\ Within("clearStale", l) = 8 + 3 * (1 - l.attempt)

LEMMA WithinValues == ASSUME NEW l \in Local PROVE Values(l)
  BY DEF Values, Within, Steps, Local

LEMMA MyValues == ASSUME RankInv, NEW c \in Client PROVE Values(me[c])
<1>1. me[c] \in Local
  BY LocalTyped DEF RankInv
<1> QED BY <1>1, WithinValues

LEMMA WithinType ==
  ASSUME NEW l \in Local, NEW place \in Places \ Ended
  PROVE  Within(place, l) \in 1 .. 30
  BY WithinValues DEF Values, Places, Starting

LEMMA SteadyWhen ==
  ASSUME TypeOK,
         \/ UNCHANGED daemon
         \/ \E d \in Daemon : Terminated(d)
         \/ \E d \in Holder : Agrees(d)
  PROVE  Steady(Client)
<1>1. daemon \in [Daemon -> ProcessState] /\ Client \subseteq Daemon
  BY TypedParts DEF Daemon
<1> QED BY <1>1 DEF Steady, Terminated, Agrees, Holder, ProcessState

LEMMA StayPut ==
  ASSUME NEW c \in Client, InPlace(c), Steady({c}), pc'[c] = pc[c], me'[c] = me[c]
  PROVE  RunsDown(c) /\ InPlace(c)'
  BY DEF RunsDown, InPlace, Fits, Suits, Steady

\* A client's step to a place and local variables.
LEMMA MoveGoes ==
  ASSUME RankInv, NEW c \in Client, NEW place \in Places, NEW l \in Local, Move(c, place, l),
         pc[c] \notin Ended, Steady(Client \ {c}),
         place \notin Ended => Suits(place, l) /\ Fits(place, daemon'[c]),
         \/ place \in Ended
         \/ Rounds(l) < Rounds(me[c])
         \/ Rounds(l) = Rounds(me[c]) /\ Within(place, l) < Within(pc[c], me[c])
         \/ /\ Rounds(l) = Rounds(me[c]) /\ Within(place, l) = Within(pc[c], me[c])
            /\ {pc[c], place} \subseteq WaitLoop \/ {pc[c], place} \subseteq StartLoop
  PROVE  Goes
<1>1. TypeOK /\ me[c] \in Local /\ pc[c] \in Places \ Ended
  BY TypedParts DEF RankInv
<1>2. /\ pc'[c] = place /\ (place \notin Ended => me'[c] = l)
      /\ \A e \in Client \ {c} : pc'[e] = pc[e] /\ me'[e] = me[e]
  BY <1>1, MoveTyped
<1>3. Rounds(me[c]) \in Nat /\ Within(pc[c], me[c]) \in 1 .. 30
  BY <1>1, RoundsType, WithinType
<1>4. Rank(pc[c], me[c]) = 31 * Rounds(me[c]) + Within(pc[c], me[c])
  BY DEF Rank
<1>5. RunsDown(c)
  <2>1. CASE place \in Ended
    BY <1>2, <1>3, <1>4, <2>1 DEF RunsDown, Rank
  <2>2. CASE place \notin Ended
    <3>1. Rounds(l) \in Nat /\ Within(place, l) \in 1 .. 30
      BY <2>2, RoundsType, WithinType
    <3>2. Rank(pc'[c], me'[c]) = 31 * Rounds(l) + Within(place, l)
      BY <1>2, <2>2 DEF Rank
    <3>3. CASE Rounds(l) < Rounds(me[c])
      BY <1>3, <1>4, <3>1, <3>2, <3>3 DEF RunsDown
    <3>4. CASE Rounds(l) = Rounds(me[c]) /\ Within(place, l) < Within(pc[c], me[c])
      BY <1>3, <1>4, <3>1, <3>2, <3>4 DEF RunsDown
    <3>5. CASE /\ Rounds(l) = Rounds(me[c]) /\ Within(place, l) = Within(pc[c], me[c])
               /\ {pc[c], place} \subseteq WaitLoop \/ {pc[c], place} \subseteq StartLoop
      BY <1>2, <1>4, <3>2, <3>5 DEF RunsDown
    <3> QED BY <2>2, <3>3, <3>4, <3>5
  <2> QED BY <2>1, <2>2
<1>6. InPlace(c)'
  <2>1. CASE place \in Ended
    <3>1. me'[c] = Fresh
      BY <1>1, <2>1, TypedParts DEF Move
    <3>2. Fresh.command = "start"
      BY DEF Fresh
    <3> QED BY <1>2, <2>1, <3>1, <3>2 DEF InPlace, Suits, Fits, Ended, StartLoop
  <2>2. CASE place \notin Ended
    BY <1>2, <2>2 DEF InPlace
  <2> QED BY <2>1, <2>2
<1>7. \A e \in Client \ {c} : RunsDown(e) /\ InPlace(e)'
  BY <1>2, StayPut DEF RankInv, Steady
<1> QED BY <1>5, <1>6, <1>7 DEF Goes

\* The same with local variables that make no difference to the rank.
SameRound(c, l) ==
    l.command = me[c].command /\ l.retryCount = me[c].retryCount /\ l.attempt = me[c].attempt

LEMMA SameRoundGoes ==
  ASSUME RankInv, NEW c \in Client, NEW place \in Places, NEW l \in Local, Move(c, place, l),
         SameRound(c, l), pc[c] \notin Ended, Steady(Client \ {c}),
         place \notin Ended => Suits(place, me[c]) /\ Fits(place, daemon'[c]),
         \/ place \in Ended
         \/ Within(place, me[c]) < Within(pc[c], me[c])
         \/ /\ Within(place, me[c]) = Within(pc[c], me[c])
            /\ {pc[c], place} \subseteq WaitLoop \/ {pc[c], place} \subseteq StartLoop
  PROVE  Goes
<1>1. Rounds(l) = Rounds(me[c]) /\ Within(place, l) = Within(place, me[c])
  BY DEF SameRound, Rounds, Within
<1>2. Suits(place, l) <=> Suits(place, me[c])
  BY DEF SameRound, Suits
<1> QED BY <1>1, <1>2, MoveGoes

LEMMA LocalSame ==
  ASSUME TypeOK, NEW c \in Client
  PROVE  /\ me[c] \in Local /\ SameRound(c, me[c])
         /\ \A x \in Daemon \cup {Nobody} :
               [me[c] EXCEPT !.seen = x] \in Local /\ SameRound(c, [me[c] EXCEPT !.seen = x])
         /\ \A r \in Ended : Returning(c, r) \in Local /\ SameRound(c, Returning(c, r))
         /\ /\ [me[c] EXCEPT !.seen = Nobody, !.result = "served"] \in Local
            /\ SameRound(c, [me[c] EXCEPT !.seen = Nobody, !.result = "served"])
<1>1. me[c] \in Local
  BY LocalTyped
<1> HIDE DEF Ended
<1> QED BY <1>1, LocalTyped DEF SameRound, Returning, Local

-----------------------------------------------------------------------------
(* Every step of a client goes down *)

\* A step outside of a start: no daemon of this client is concerned.
LEMMA PlainGoes ==
  ASSUME RankInv, NEW c \in Client, NEW place \in Before \cup Ended, NEW l \in Local,
         Move(c, place, l), SameRound(c, l), pc[c] \in Before,
         \/ UNCHANGED daemon
         \/ \E d \in Daemon : Terminated(d)
         \/ \E d \in Holder : Agrees(d),
         \/ place \in Ended
         \/ /\ Suits(place, me[c])
            /\ \/ Within(place, me[c]) < Within(pc[c], me[c])
               \/ Within(place, me[c]) = Within(pc[c], me[c]) /\ {pc[c], place} \subseteq WaitLoop
  PROVE  Goes
<1>1. place \in Places /\ pc[c] \notin Ended
  BY DEF Before, Places
<1>2. Steady(Client \ {c})
  BY SteadyWhen DEF RankInv, Steady
<1>3. place \notin Ended => Fits(place, daemon'[c])
  BY DEF Fits, Before, StartLoop, Starting
<1> QED BY <1>1, <1>2, <1>3, SameRoundGoes

\* The places of a start are for starts only.
LEMMA OnlyStarts ==
  ASSUME RankInv, NEW c \in Client,
         pc[c] \notin {"new", "stop", "knock", "ask", "askAgain", "awaitExit", "signal",
                       "awaitProc", "reread", "remove", "status", "statusProbe",
                       "statusAgain"} \cup Ended
  PROVE  /\ me[c].command = "start"
         /\ \A place \in Places : place \notin {"status", "statusProbe", "statusAgain"}
                                  => Suits(place, me[c])
  BY DEF RankInv, InPlace, Suits

LEMMA LookingGoes ==
  ASSUME RankInv, NEW c \in Client,
         \/ Begin(c) \/ ReadLock(c) \/ SweepLock(c) \/ Probe(c) \/ ReadStale(c)
         \/ Wait(c) \/ GiveUpWaiting(c)
  PROVE  Goes
<1>0. TypeOK /\ lock \in Daemon \cup {Nobody} /\ Nobody \in Daemon \cup {Nobody}
  BY TypedParts DEF RankInv
<1> USE <1>0
<1>1. CASE Begin(c)
  <2>1. Goto(c, IF me[c].command = "start" THEN "readLock" ELSE "stop")
        /\ pc[c] = "new" /\ UNCHANGED daemon
    BY <1>1 DEF Begin, At
  <2>2. CASE me[c].command = "start"
    <3>1. Suits("readLock", me[c]) /\ Within("readLock", me[c]) < Within("new", me[c])
      BY <2>2, MyValues DEF Values, Suits
    <3> QED BY <2>1, <2>2, <3>1, LocalSame, PlainPlaces, PlainGoes DEF Goto
  <2>3. CASE me[c].command # "start"
    <3>1. Suits("stop", me[c]) /\ Within("stop", me[c]) < Within("new", me[c])
      BY MyValues DEF Values, Suits
    <3> QED BY <2>1, <2>3, <3>1, LocalSame, PlainPlaces, PlainGoes DEF Goto
  <2> QED BY <2>2, <2>3
<1> USE PlainPlaces
<1>2. ASSUME NEW place \in Before \cup Ended, Goto(c, place), pc[c] \in Before, UNCHANGED daemon,
             \/ place \in Ended
             \/ /\ Suits(place, me[c])
                /\ \/ Within(place, me[c]) < Within(pc[c], me[c])
                   \/ /\ Within(place, me[c]) = Within(pc[c], me[c])
                      /\ {pc[c], place} \subseteq WaitLoop
      PROVE  Goes
  BY <1>2, LocalSame, PlainGoes DEF Goto
<1>3. ASSUME NEW place \in Before, NEW x \in Daemon \cup {Nobody}, Read(c, place, x),
             pc[c] \in Before, UNCHANGED daemon, Suits(place, me[c]),
             \/ Within(place, me[c]) < Within(pc[c], me[c])
             \/ /\ Within(place, me[c]) = Within(pc[c], me[c])
                /\ {pc[c], place} \subseteq WaitLoop
      PROVE  Goes
  BY <1>3, LocalSame, PlainGoes DEF Read
<1>4. ASSUME pc[c] \in {"readLock", "sweepLock", "reusable", "listening", "readStale",
                        "wait", "waitStale", "recheck"}
      PROVE  /\ \A place \in {"sweepLock", "reusable", "listening", "stop", "claim", "clearStale",
                              "clearOld", "wait", "waitStale", "recheck", "retry"} :
                   Suits(place, me[c])
             /\ me[c] \in Local
  BY <1>4, OnlyStarts, LocalSame DEF Suits, Ended
<1>5. CASE ReadLock(c)
  <2>1. Within("sweepLock", me[c]) < Within("readLock", me[c])
    BY MyValues DEF Values
  <2> QED BY <1>3, <1>4, <1>5, <2>1 DEF ReadLock, At
<1>6. CASE SweepLock(c)
  <2>1. Within("reusable", me[c]) < Within("sweepLock", me[c])
    BY MyValues DEF Values
  <2> QED BY <1>3, <1>4, <1>6, <2>1 DEF SweepLock, At
<1>7. CASE Probe(c)
  <2>1. /\ Within("listening", me[c]) < Within("reusable", me[c])
        /\ Within("stop", me[c]) < Within("listening", me[c])
        /\ Within("claim", me[c]) < Within("listening", me[c])
    BY MyValues DEF Values
  <2> QED BY <1>2, <1>4, <1>7, <2>1 DEF Probe, At
<1>8. CASE ReadStale(c)
  <2>1. /\ Within("clearStale", me[c]) < Within("readStale", me[c])
        /\ Within("clearOld", me[c]) = Within("waitStale", me[c])
    BY MyValues DEF Values
  <2>2. (IF starting.written THEN starting.by ELSE Nobody) \in Daemon \cup {Nobody}
    BY TypedParts DEF Daemon
  <2>3. CASE pc[c] = "readStale"
    BY <1>3, <1>4, <1>8, <2>1, <2>2, <2>3 DEF ReadStale, At
  <2>4. CASE pc[c] = "waitStale"
    BY <1>3, <1>4, <1>8, <2>1, <2>2, <2>4 DEF ReadStale, At, WaitLoop
  <2> QED BY <1>8, <2>3, <2>4 DEF ReadStale
<1>9. CASE Wait(c)
  <2>1. /\ Within("recheck", me[c]) < Within("wait", me[c])
        /\ Within("waitStale", me[c]) = Within("wait", me[c])
        /\ Within("retry", me[c]) < Within("recheck", me[c])
    BY MyValues DEF Values
  <2> QED BY <1>2, <1>4, <1>9, <2>1 DEF Wait, At, WaitLoop
<1>10. CASE GiveUpWaiting(c)
  BY <1>2, <1>10 DEF GiveUpWaiting, At
<1> QED BY <1>1, <1>5, <1>6, <1>7, <1>8, <1>9, <1>10

LEMMA RetryingGoes == ASSUME RankInv, NEW c \in Client, ClearStale(c) \/ Retry(c) PROVE Goes
<1>0. /\ TypeOK /\ me[c] \in Local /\ Steady(Client \ {c}) /\ UNCHANGED daemon
      /\ pc[c] \in {"clearStale", "clearOld", "retry"} /\ Nobody \in Daemon \cup {Nobody}
  <2>1. UNCHANGED daemon /\ pc[c] \in {"clearStale", "clearOld", "retry"}
    BY DEF ClearStale, Retry, At
  <2> QED BY <2>1, SteadyWhen, LocalTyped DEF RankInv, Steady
<1>1. /\ me[c].command = "start" /\ pc[c] \notin Ended
      /\ {"claim", "retry", "wait", "readLock", "failed"} \subseteq Places
  BY <1>0, OnlyStarts DEF Ended, Places
<1>2. CASE ClearStale(c)
  <2> DEFINE clears == ~OwnerLives(c) /\ (me[c].seen = Nobody => starting # NoStart)
             again == clears /\ At(c, "clearStale") /\ me[c].attempt = 0
             place == IF again THEN "claim"
                      ELSE IF clears /\ At(c, "clearOld") THEN "retry" ELSE "wait"
             l == [me[c] EXCEPT !.seen = Nobody, !.attempt = IF again THEN 1 ELSE 0]
  <2>1. Move(c, place, l) /\ place \in Places /\ pc[c] \in {"clearStale", "clearOld"}
    BY <1>1, <1>2 DEF ClearStale
  <2>2. /\ l \in Local /\ l.command = "start" /\ l.retryCount = me[c].retryCount
        /\ again => l.attempt = 1
    <3>1. (IF again THEN 1 ELSE 0) \in 0 .. 1
      OBVIOUS
    <3> HIDE DEF again
    <3> QED BY <1>0, <1>1, <3>1, LocalTyped DEF Local
  <2>3. Rounds(l) = Rounds(me[c])
    BY <1>1, <2>2 DEF Rounds
  <2>4. Suits(place, l) /\ Fits(place, daemon'[c])
    BY <2>2 DEF Suits, Fits, StartLoop
  <2>5. Values(l) /\ Values(me[c])
    BY <1>0, <2>2, WithinValues
  <2>6. \/ Within(place, l) < Within(pc[c], me[c])
        \/ Within(place, l) = Within(pc[c], me[c]) /\ {pc[c], place} \subseteq WaitLoop
    <3>1. CASE again
      <4>1. place = "claim" /\ pc[c] = "clearStale" /\ l.attempt = 1 /\ me[c].attempt = 0
        BY <2>2, <3>1 DEF At
      <4> QED BY <2>5, <4>1 DEF Values
    <3>2. CASE ~again
      <4>1. \/ place = "retry" /\ pc[c] = "clearOld"
            \/ place = "wait" /\ pc[c] \in {"clearStale", "clearOld"}
        BY <2>1, <3>2 DEF At
      <4> HIDE DEF place, l
      <4> QED BY <2>5, <4>1 DEF Values, WaitLoop
    <3> QED BY <3>1, <3>2
  <2> HIDE DEF place, l
  <2> QED BY <1>0, <1>1, <2>1, <2>2, <2>3, <2>4, <2>6, MoveGoes
<1>3. CASE Retry(c)
  <2>1. CASE MayRetry(c)
    <3> DEFINE l == [me[c] EXCEPT !.retryCount = @ + 1]
    <3>1. l \in Local /\ l.command = "start" /\ l.retryCount = me[c].retryCount + 1
      BY <1>0, <1>1, <2>1, LocalTyped DEF Local
    <3>2. Rounds(l) < Rounds(me[c])
      BY <1>0, <1>1, <3>1, ConstantsAssumption DEF Rounds, Local
    <3>3. Suits("readLock", l) /\ Fits("readLock", daemon'[c]) /\ Move(c, "readLock", l)
      BY <1>3, <2>1, <3>1 DEF Retry, Suits, Fits, StartLoop
    <3> HIDE DEF l
    <3> QED BY <1>0, <1>1, <3>1, <3>2, <3>3, MoveGoes
  <2>2. CASE ~MayRetry(c)
    <3>1. Move(c, "failed", me[c]) /\ "failed" \in Ended
      BY <1>3, <2>2 DEF Retry, Goto, Ended
    <3> QED BY <1>0, <1>1, <3>1, MoveGoes
  <2> QED BY <2>1, <2>2
<1> QED BY <1>2, <1>3

\* A stop that is over: a start goes on, and a restart starts, which is a round less.
LEMMA AfterGoes ==
  ASSUME RankInv, NEW c \in Client, NEW r \in Ended, After(c, r),
         pc[c] \in {"ask", "signal", "awaitProc", "reread", "remove"},
         \/ UNCHANGED daemon
         \/ \E d \in Daemon : Terminated(d)
  PROVE  Goes
<1> DEFINE fresh == [me[c] EXCEPT !.seen = Nobody, !.result = "served"]
<1>1. TypeOK /\ me[c] \in Local /\ fresh \in Local /\ SameRound(c, fresh) /\ SameRound(c, me[c])
  BY LocalSame DEF RankInv
<1>2. /\ Within("claim", me[c]) < Within(pc[c], me[c])
      /\ Within("status", me[c]) < Within(pc[c], me[c])
  BY MyValues DEF Values
<1>3. CASE me[c].command = "start"
  <2>1. Move(c, "served", fresh) \/ Move(c, "claim", fresh)
    BY <1>3 DEF After
  <2>2. Suits("claim", me[c])
    BY <1>3 DEF Suits
  <2> HIDE DEF fresh
  <2> QED BY <1>1, <1>2, <2>1, <2>2, PlainPlaces, PlainGoes
<1>4. CASE me[c].command # "start"
  <2>1. \/ Move(c, "readLock", Fresh)
        \/ Move(c, "status", fresh)
        \/ Move(c, r, me[c])
    BY <1>4 DEF After, Goto
  <2>2. CASE Move(c, "readLock", Fresh)
    <3>1. Fresh \in Local /\ Fresh.command = "start"
      BY FreshTyped DEF Fresh
    <3>2. Rounds(Fresh) < Rounds(me[c])
      BY <1>1, <1>4, <3>1, RoundsType, ConstantsAssumption
    <3>3. Suits("readLock", Fresh) /\ Fits("readLock", daemon'[c])
      BY <3>1 DEF Suits, Fits, StartLoop
    <3>4. pc[c] \notin Ended /\ "readLock" \in Places
      BY DEF Ended, Places
    <3>5. Steady(Client \ {c})
      BY <1>1, SteadyWhen DEF Steady
    <3> QED BY <2>2, <3>1, <3>2, <3>3, <3>4, <3>5, MoveGoes
  <2>3. CASE Move(c, "status", fresh)
    <3>1. Suits("status", me[c])
      BY <1>4 DEF Suits
    <3> HIDE DEF fresh
    <3> QED BY <1>1, <1>2, <2>3, <3>1, PlainPlaces, PlainGoes
  <2>4. CASE Move(c, r, me[c])
    BY <1>1, <2>4, PlainPlaces, PlainGoes
  <2> QED BY <2>1, <2>2, <2>3, <2>4
<1> QED BY <1>3, <1>4

LEMMA StoppingGoes ==
  ASSUME RankInv, NEW c \in Client,
         \/ StopReadsLock(c) \/ Knock(c) \/ Ask(c) \/ AskInVain(c) \/ AskAgain(c)
         \/ AwaitExit(c) \/ Signal(c) \/ AwaitProc(c) \/ Reread(c) \/ Remove(c)
         \/ StatusReadsLock(c) \/ StatusProbe(c) \/ StatusAgain(c)
  PROVE  Goes
<1>0. /\ TypeOK /\ lock \in Daemon \cup {Nobody} /\ me[c] \in Local
      /\ me[c].seen \in Daemon \cup {Nobody} /\ me[c].result \in Ended
  BY TypedParts, LocalTyped DEF RankInv
<1> USE <1>0
<1> DEFINE Mildly == \/ UNCHANGED daemon
                     \/ \E d \in Daemon : Terminated(d)
                     \/ \E d \in Holder : Agrees(d)
           Down(place) == Suits(place, me[c]) /\ Within(place, me[c]) < Within(pc[c], me[c])
<1>1. ASSUME NEW place \in Before \cup Ended, NEW l \in Local, Move(c, place, l),
             SameRound(c, l), pc[c] \in Before, Mildly, place \in Ended \/ Down(place)
      PROVE  Goes
  BY <1>1, PlainGoes
<1>2. ASSUME NEW place \in Before \cup Ended, Goto(c, place),
             pc[c] \in Before, Mildly, place \in Ended \/ Down(place)
      PROVE  Goes
  BY <1>1, <1>2, LocalSame DEF Goto
<1>3. ASSUME NEW place \in Before, NEW x \in Daemon \cup {Nobody}, Read(c, place, x),
             pc[c] \in Before, Mildly, Down(place)
      PROVE  Goes
  BY <1>1, <1>3, LocalSame DEF Read
<1>4. ASSUME NEW place \in Before, NEW r \in Ended, Move(c, place, Returning(c, r)),
             pc[c] \in Before, Mildly, Down(place)
      PROVE  Goes
  BY <1>1, <1>4, LocalSame
<1>5. /\ pc[c] = "stop" => Down("knock")
      /\ pc[c] = "knock" => Down("ask") /\ Down("signal")
      /\ pc[c] = "ask" => Down("signal") /\ Down("awaitExit") /\ Down("askAgain")
      /\ pc[c] = "askAgain" => Down("signal") /\ Down("awaitExit")
      /\ pc[c] = "awaitExit" => Down("signal") /\ Down("reread")
      /\ pc[c] = "signal" => Down("reread") /\ Down("awaitProc")
      /\ pc[c] = "awaitProc" => Down("reread")
      /\ pc[c] = "reread" => Down("remove")
  BY MyValues DEF Values, Suits
<1>6. /\ pc[c] = "status" => Down("statusProbe") /\ Down("statusAgain")
      /\ pc[c] = "statusProbe" => Down("statusAgain")
      /\ pc[c] \in {"status", "statusProbe", "statusAgain"} => me[c].command # "start"
  BY MyValues DEF Values, Suits, RankInv, InPlace
<1> HIDE DEF Mildly, Down
<1> USE PlainPlaces
<1>7. UNCHANGED daemon => Mildly
  BY DEF Mildly
<1>8. CASE StopReadsLock(c)
  BY <1>3, <1>5, <1>7, <1>8 DEF StopReadsLock, At
<1>9. CASE Knock(c)
  BY <1>4, <1>5, <1>7, <1>9 DEF Knock, At
<1>10. CASE Ask(c)
  <2>1. CASE After(c, "refused") /\ UNCHANGED daemon
    BY <1>10, <2>1, AfterGoes DEF Ask, At
  <2>2. CASE Goto(c, "signal") /\ UNCHANGED daemon
    BY <1>2, <1>5, <1>7, <1>10, <2>2 DEF Ask, At
  <2>3. ASSUME NEW d \in Holder, Agrees(d), Goto(c, "awaitExit") PROVE Goes
    BY <1>2, <1>5, <1>10, <2>3 DEF Ask, At, Mildly
  <2> QED BY <1>10, <2>1, <2>2, <2>3 DEF Ask
<1>11. CASE AskInVain(c)
  <2>1. Mildly
    BY <1>11 DEF AskInVain, Mildly
  <2> QED BY <1>2, <1>5, <1>11, <2>1 DEF AskInVain, At
<1>12. CASE AskAgain(c)
  BY <1>2, <1>5, <1>7, <1>12 DEF AskAgain, At
<1>13. CASE AwaitExit(c)
  BY <1>2, <1>5, <1>7, <1>13 DEF AwaitExit, At
<1>14. CASE Signal(c)
  <2>1. CASE me[c].seen = Nobody
    BY <1>2, <1>5, <1>7, <1>14, <2>1, AfterGoes DEF Signal, At, SeenDead
  <2>2. CASE SeenDead(c)
    BY <1>2, <1>5, <1>7, <1>14, <2>2 DEF Signal, At, SeenDead
  <2>3. CASE me[c].seen # Nobody /\ ~SeenDead(c)
    <3>1. Terminated(me[c].seen) /\ me[c].seen \in Daemon
      BY <1>14, <2>3 DEF Signal
    <3>2. Mildly
      BY <3>1 DEF Mildly
    <3> QED BY <1>4, <1>5, <1>14, <2>3, <3>2 DEF Signal, At
  <2> QED BY <2>1, <2>2, <2>3
<1>15. CASE AwaitProc(c)
  BY <1>2, <1>5, <1>7, <1>15, AfterGoes DEF AwaitProc, At
<1>16. CASE Reread(c)
  BY <1>2, <1>5, <1>7, <1>16, AfterGoes DEF Reread, At
<1>17. CASE Remove(c)
  BY <1>17, AfterGoes DEF Remove, At
<1>18. CASE StatusReadsLock(c)
  BY <1>3, <1>6, <1>7, <1>18 DEF StatusReadsLock, At
<1>19. CASE StatusProbe(c)
  BY <1>2, <1>6, <1>7, <1>19 DEF StatusProbe, At
<1>20. CASE StatusAgain(c)
  <2>1. CASE Goto(c, "unresponsive")
    BY <1>2, <1>7, <1>20, <2>1 DEF StatusAgain, At
  <2>2. CASE Move(c, "readLock", Fresh)
    <3>1. Fresh \in Local /\ Fresh.command = "start" /\ pc[c] = "statusAgain"
      BY <1>20, FreshTyped DEF Fresh, StatusAgain, At
    <3>2. Rounds(Fresh) < Rounds(me[c])
      BY <1>6, <3>1, RoundsType, ConstantsAssumption
    <3>3. Suits("readLock", Fresh) /\ Fits("readLock", daemon'[c])
      BY <3>1 DEF Suits, Fits, StartLoop
    <3>4. pc[c] \notin Ended /\ "readLock" \in Places
      BY <3>1 DEF Ended, Places
    <3>5. Steady(Client \ {c})
      BY <1>20, SteadyWhen DEF Steady, StatusAgain
    <3> QED BY <2>2, <3>1, <3>2, <3>3, <3>4, <3>5, MoveGoes
  <2> QED BY <1>20, <2>1, <2>2 DEF StatusAgain
<1> QED
  BY <1>8, <1>9, <1>10, <1>11, <1>12, <1>13, <1>14, <1>15, <1>16, <1>17, <1>18, <1>19, <1>20

LEMMA StartingGoes ==
  ASSUME RankInv, NEW c \in Client,
         \/ Claim(c) \/ WritePid(c) \/ Spawn(c) \/ AwaitHealthy(c) \/ GiveUpStarting(c)
         \/ WriteServerLock(c) \/ KillStarted(c) \/ Reap(c) \/ Release(c)
  PROVE  Goes
<1>0. /\ TypeOK /\ me[c] \in Local /\ me[c].result \in Ended
      /\ daemon \in [Daemon -> ProcessState] /\ c \in Daemon
  BY TypedParts, LocalTyped DEF RankInv, Daemon
<1> USE <1>0
<1>1. pc[c] \in {"claim"} \cup Starting
  BY DEF Claim, WritePid, Spawn, AwaitHealthy, GiveUpStarting, WriteServerLock, KillStarted,
         Reap, Release, At, Starting
<1>2. /\ me[c].command = "start" /\ pc[c] \notin Ended
      /\ \A place \in {"readStale"} \cup Starting : place \in Places /\ Suits(place, me[c])
  BY <1>1, OnlyStarts DEF Starting, Ended, Places
<1>3. Fits(pc[c], daemon[c])
  BY DEF RankInv, InPlace
<1> DEFINE Mildly == Steady(Client \ {c})
           Down(place) ==
             /\ Fits(place, daemon'[c])
             /\ \/ Within(place, me[c]) < Within(pc[c], me[c])
                \/ /\ Within(place, me[c]) = Within(pc[c], me[c])
                   /\ {pc[c], place} \subseteq StartLoop
<1>4. ASSUME NEW place \in {"readStale"} \cup Starting, NEW l \in Local, Move(c, place, l),
             SameRound(c, l), Mildly, Down(place)
      PROVE  Goes
  BY <1>2, <1>4, SameRoundGoes
<1>5. ASSUME NEW place \in {"readStale"} \cup Starting, Goto(c, place), Mildly, Down(place)
      PROVE  Goes
  BY <1>4, <1>5, LocalSame DEF Goto
<1>6. ASSUME NEW place \in {"readStale"} \cup Starting, NEW r \in Ended,
             Move(c, place, Returning(c, r)), Mildly, Down(place)
      PROVE  Goes
  BY <1>4, <1>6, LocalSame
<1>7. UNCHANGED daemon => Mildly
  BY SteadyWhen DEF Steady
<1>8. Values(me[c])
  BY MyValues
<1> HIDE DEF Mildly
<1>9. CASE Claim(c)
  <2>1. CASE starting = NoStart
    <3> DEFINE l == [me[c] EXCEPT !.attempt = 0]
    <3>1. l \in Local /\ l.command = me[c].command /\ l.retryCount = me[c].retryCount
      <4>1. 0 \in 0 .. 1
        OBVIOUS
      <4> QED BY <4>1 DEF Local
    <3>2. Values(l) /\ Rounds(l) = Rounds(me[c])
      BY <3>1, WithinValues DEF Rounds
    <3>3. Move(c, "write", l) /\ UNCHANGED daemon /\ pc[c] = "claim"
      BY <1>9, <2>1 DEF Claim, At
    <3>4. Within("write", l) < Within(pc[c], me[c])
      BY <1>8, <3>2, <3>3 DEF Values
    <3>5. Suits("write", l) /\ Fits("write", daemon'[c]) /\ "write" \in Places
      BY <1>2, <3>1 DEF Suits, Fits, StartLoop, Places, Starting
    <3>6. Steady(Client \ {c})
      BY <3>3, SteadyWhen DEF Steady
    <3> HIDE DEF l
    <3> QED BY <1>2, <3>1, <3>2, <3>3, <3>4, <3>5, <3>6, MoveGoes
  <2>2. CASE starting # NoStart
    <3>1. Goto(c, "readStale") /\ UNCHANGED daemon /\ pc[c] = "claim"
      BY <1>9, <2>2 DEF Claim, At
    <3>2. Down("readStale")
      BY <1>8, <3>1 DEF Values, Fits, StartLoop
    <3> QED BY <1>5, <1>7, <3>1, <3>2
  <2> QED BY <2>1, <2>2
<1>10. CASE WritePid(c)
  <2>1. Down("spawn")
    BY <1>8, <1>10 DEF WritePid, At, Values, Fits, StartLoop
  <2> QED BY <1>5, <1>7, <1>10, <2>1 DEF WritePid, Starting
<1>11. CASE Spawn(c)
  <2>1. CASE daemon' = [daemon EXCEPT ![c] = "booting"] /\ Goto(c, "healthy")
    <3>1. Down("healthy")
      BY <1>8, <1>11, <2>1 DEF Spawn, At, Values, Fits
    <3>2. Mildly
      BY <2>1 DEF Mildly, Steady, Daemon
    <3> QED BY <1>5, <2>1, <3>1, <3>2 DEF Starting
  <2>2. CASE UNCHANGED daemon /\ Move(c, "release", Returning(c, "failed"))
    <3>1. Down("release")
      BY <1>8, <1>11 DEF Spawn, At, Values, Fits, StartLoop
    <3> QED BY <1>6, <1>7, <2>2, <3>1, PlainPlaces DEF Starting
  <2> QED BY <1>11, <2>1, <2>2 DEF Spawn
<1>12. CASE AwaitHealthy(c) \/ GiveUpStarting(c)
  <2>1. UNCHANGED daemon /\ pc[c] \in StartLoop /\ daemon[c] # "none"
    BY <1>3, <1>12 DEF AwaitHealthy, GiveUpStarting, At, StartLoop, Fits
  <2>2. Down("exited") /\ Down("healthy") /\ Down("kill") /\ Down("writeLock")
    BY <1>8, <2>1 DEF Values, Fits, StartLoop
  <2>3. \/ Goto(c, "exited") \/ Goto(c, "healthy") \/ Goto(c, "kill") \/ Goto(c, "writeLock")
    BY <1>12 DEF AwaitHealthy, GiveUpStarting
  <2> HIDE DEF Down
  <2> QED BY <1>5, <1>7, <2>1, <2>2, <2>3 DEF Starting
<1>13. CASE WriteServerLock(c)
  <2>1. Down("release")
    BY <1>8, <1>13 DEF WriteServerLock, At, Values, Fits, StartLoop
  <2> QED BY <1>6, <1>7, <1>13, <2>1, PlainPlaces DEF WriteServerLock, Starting
<1>14. CASE KillStarted(c)
  <2>1. Terminated(c) /\ Goto(c, "reap") /\ pc[c] = "kill" /\ daemon[c] # "none"
    BY <1>3, <1>14 DEF KillStarted, At, Fits
  <2>2. daemon'[c] \in {"closed", "dead"}
    BY <2>1 DEF Terminated, ProcessState
  <2>3. Down("reap")
    BY <1>8, <2>1, <2>2 DEF Values, Fits, StartLoop
  <2>4. Mildly
    BY <2>1, SteadyWhen DEF Mildly, Steady
  <2> QED BY <1>5, <2>1, <2>3, <2>4 DEF Starting
<1>15. CASE Reap(c)
  <2>1. Down("release")
    BY <1>8, <1>15 DEF Reap, At, Values, Fits, StartLoop
  <2> QED BY <1>6, <1>7, <1>15, <2>1, PlainPlaces DEF Reap, Starting
<1>16. CASE Release(c)
  <2>1. Move(c, me[c].result, me[c]) /\ me[c].result \in Places
    BY <1>16 DEF Release, Goto, Places
  <2>2. Steady(Client \ {c})
    BY <1>16, SteadyWhen DEF Steady, Release
  <2> QED BY <1>2, <2>1, <2>2, MoveGoes
<1> QED BY <1>9, <1>10, <1>11, <1>12, <1>13, <1>14, <1>15, <1>16

LEMMA DieGoes == ASSUME RankInv, NEW c \in Client, Die(c) PROVE Goes
<1>1. /\ Move(c, "died", me[c]) /\ pc[c] \notin Ended /\ "died" \in Ended /\ "died" \in Places
      /\ me[c] \in Local
  BY LocalTyped DEF RankInv, Die, Goto, Ended, Places
<1>2. Steady(Client \ {c})
  BY SteadyWhen DEF RankInv, Die, Steady
<1> QED BY <1>1, <1>2, MoveGoes

LEMMA DaemonStepGoes == ASSUME RankInv, NEW d \in Daemon, DaemonStep(d) PROVE Goes
<1>1. Steady(Client)
  <2>1. daemon \in [Daemon -> ProcessState] /\ Client \subseteq Daemon
    BY TypedParts DEF RankInv, Daemon
  <2> QED BY <2>1 DEF DaemonStep, Boot, StopServer, Exit, Crash, Alive, Steady
<1>2. pc' = pc /\ me' = me
  BY DEF DaemonStep, Boot, StopServer, Exit, Crash
<1> QED BY <1>1, <1>2, StayPut DEF RankInv, Goes, Steady

-----------------------------------------------------------------------------

LEMMA InitPlaces == Init => \A c \in Client : InPlace(c)
  BY DEF Init, InPlace, Suits, Fits, StartLoop

LEMMA NextGoes == RankInv /\ [Next]_vars => Goes
<1> SUFFICES ASSUME RankInv, [Next]_vars PROVE Goes
  OBVIOUS
<1>1. CASE UNCHANGED vars
  BY <1>1, StayPut DEF vars, RankInv, Goes, Steady
<1>2. ASSUME NEW c \in Client, Begin(c) \/ Step(c) \/ Deadline(c) \/ Die(c) PROVE Goes
  BY <1>2, LookingGoes, RetryingGoes, StoppingGoes, StartingGoes, DieGoes DEF Step, Deadline
<1> QED BY <1>1, <1>2, DaemonStepGoes DEF Next

\* A client that starts, stops or restarts the daemon comes nearer to the end of its
\* command with every step but those of its two polls, which a deadline ends, whatever
\* the others do, and does not wait for a process that goes on: what CallsEnd needs
\* beside the fairness of the deadlines and of what closes.
THEOREM CommandsRunDown == Spec => []ReapsWhatEnds /\ [][\A c \in Client : RunsDown(c)]_vars
<1>1. Init => \A c \in Client : InPlace(c)
  BY InitPlaces
<1>2. TypeOK /\ (\A c \in Client : InPlace(c)) /\ [Next]_vars
        => (\A c \in Client : InPlace(c))' /\ \A c \in Client : RunsDown(c)
  BY NextGoes DEF RankInv, Goes
<1>3. (\A c \in Client : InPlace(c)) => ReapsWhatEnds
  BY DEF InPlace, Fits, ReapsWhatEnds, At
<1> QED BY <1>1, <1>2, <1>3, TypeCorrect, PTL DEF Spec

=============================================================================
