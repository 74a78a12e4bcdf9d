-------------------------- MODULE SessionLockProofs --------------------------
(***************************************************************************)
(* SessionLock for any processes and sessions, however their acquires      *)
(* overlap: the inductive invariant, that the lock of an acquire without   *)
(* contention stands, and that a crash never locks a session for good.     *)
(***************************************************************************)
EXTENDS SessionLock, TLAPS

-----------------------------------------------------------------------------
(* The inductive invariant *)

\* A lock file has the pid of a process that is chatting, releases or died, or
\* is empty: then its creator is about to write, or died before.
FilesHaveOwners ==
    /\ written \subseteq Files
    /\ \A s \in Files :
        /\ wants[creator[s]] = s
        /\ pc[creator[s]] \in {"write", "chat", "unlinkOwn", "dead"}
        /\ pc[creator[s]] = "write" => s \notin written
        /\ pc[creator[s]] \in {"chat", "unlinkOwn"} => s \in written

\* A pid was written to the file it is read from by a process that has got through
\* acquireSessionLock since.
Owned(q, s) == wants[q] = s /\ pc[q] \in {"chat", "unlinkOwn", "gone", "dead"}

FoundIsOwner ==
    \A p \in Proc : found[p] \in Proc =>
        /\ pc[p] = "sweepCheck" => Owned(found[p], at[p])
        /\ pc[p] = "check" => Owned(found[p], wants[p])

\* Nobody is in the way of a process that is not contended.
Alone ==
    \A p, q \in Proc : pc[p] \in Acquiring /\ ~contended[p] /\ Rival(q) => p = q

\* The file of such a process stays its own.
HoldersHaveFiles ==
    \A p \in Proc : ~contended[p] =>
        /\ pc[p] \in {"write", "chat", "unlinkOwn"} => creator[wants[p]] = p
        /\ pc[p] \in {"chat", "unlinkOwn"} => wants[p] \in written

\* q is not about to remove the file of s, which p owns.
Spares(q, p, s) ==
    /\ pc[q] = "sweepCheck" /\ at[q] = s => found[q] = p
    /\ pc[q] = "check" /\ wants[q] = s => found[q] = p
    /\ pc[q] \in {"unlinkAgain", "unlinkOwn"} => wants[q] # s

HoldersAreSpared ==
    \A p, q \in Proc :
        p # q /\ ~contended[p] /\ pc[p] \in {"chat", "unlinkOwn"} => Spares(q, p, wants[p])

\* The second attempt of a process that is not contended finds no file.
AttemptsLeft ==
    \A p \in Proc :
        /\ pc[p] \in {"new", "sweep", "sweepCheck"} => attempt[p] = 0
        /\ pc[p] = "create" => attempt[p] < MAX_LOCK_ATTEMPTS
        /\ pc[p] = "create" /\ ~contended[p] => attempt[p] = 0 \/ wants[p] \notin Files
        /\ pc[p] \in {"read", "check", "unlinkAgain"} /\ ~contended[p] => attempt[p] = 1

IInv ==
    /\ TypeOK
    /\ FilesHaveOwners
    /\ FoundIsOwner
    /\ Alone
    /\ HoldersHaveFiles
    /\ HoldersAreSpared
    /\ AttemptsLeft

LEMMA InitInv == Init => IInv
  <1> SUFFICES ASSUME Init PROVE IInv
    OBVIOUS
  <1>1. TypeOK
    BY DEF Init, TypeOK, Places, Acquiring, MAX_LOCK_ATTEMPTS
  <1>2. Files = {}
    BY DEF Init, Files
  <1> QED
    BY <1>1, <1>2, NoFileAssumption
    DEF Init, IInv, FilesHaveOwners, FoundIsOwner, Alone, HoldersHaveFiles,
        HoldersAreSpared, AttemptsLeft, Acquiring

\* A process that is about to remove the file of s is not in the way of one that
\* holds s without contention.
LEMMA RemovesNoHoldersFile ==
    ASSUME IInv, NEW q \in Proc, NEW s \in Session,
           \/ pc[q] = "sweepCheck" /\ at[q] = s /\ ~Alive(found[q])
           \/ pc[q] = "check" /\ wants[q] = s /\ ~(found[q] # q /\ Alive(found[q]))
           \/ pc[q] \in {"unlinkAgain", "unlinkOwn"} /\ wants[q] = s,
           NEW p \in Proc \ {q}, ~contended[p], pc[p] \in {"write", "chat", "unlinkOwn"}
    PROVE  wants[p] # s
  <1>1. CASE pc[p] = "write"
    <2>1. ~Rival(q)
      BY <1>1 DEF IInv, Alone, Acquiring
    <2>2. pc[q] = "unlinkOwn" /\ ~contended[q]
      BY <2>1 DEF Rival, Acquiring
    <2>3. creator[wants[q]] = q /\ creator[wants[p]] = p
      BY <1>1, <2>2 DEF IInv, HoldersHaveFiles
    <2> QED
      BY <2>2, <2>3
  <1>2. CASE pc[p] \in {"chat", "unlinkOwn"}
    <2>1. Alive(p)
      BY <1>2 DEF Alive
    <2>2. Spares(q, p, wants[p])
      BY <1>2 DEF IInv, HoldersAreSpared
    <2> QED
      BY <2>1, <2>2 DEF Spares
  <1> QED
    BY <1>1, <1>2

\* Removing a file keeps what does not depend on where the process goes next.
LEMMA UnlinkKeeps ==
    ASSUME IInv, NEW s \in Session, Unlink(s)
    PROVE  /\ Files' = Files \ {s}
           /\ creator' \in [Session -> Proc \cup {NoFile}]
           /\ written' \in SUBSET Session /\ written' \subseteq Files'
           /\ \A x \in Session : x # s => creator'[x] = creator[x]
           /\ \A x \in Session : x # s => (x \in written' <=> x \in written)
           /\ creator'[s] = NoFile
  BY DEF IInv, TypeOK, FilesHaveOwners, Unlink, Files

-----------------------------------------------------------------------------
(* The sweep *)

LEMMA EnterInv ==
    ASSUME IInv, NEW p \in Proc, Enter(p)
    PROVE  IInv'
  <1>1. /\ pc[p] = "new"
        /\ entries' = [entries EXCEPT ![p] = Files]
        /\ pc' = [pc EXCEPT ![p] = AfterSweep(Files)]
        /\ UNCHANGED <<wants, creator, written, at, found, attempt>>
    BY DEF Enter, Goto
  <1>2. AfterSweep(Files) \in {"create", "sweep"} /\ Files \subseteq Session /\ Files' = Files
    BY <1>1 DEF AfterSweep, Files
  <1>3. /\ contended' \in [Proc -> BOOLEAN]
        /\ ~contended'[p] => \A r \in Proc : ~Rival(r)
        /\ \A q \in Proc \ {p} : ~contended'[q] => ~contended[q] /\ pc[q] \notin Acquiring
        /\ \A q \in Proc \ {p} : pc[q] \notin Acquiring => contended'[q] = contended[q]
    BY DEF Enter, Disturbed, IInv, TypeOK
  <1>4. TypeOK /\ attempt[p] = 0
    BY <1>1 DEF IInv, AttemptsLeft
  <1>5. TypeOK'
    BY <1>1, <1>2, <1>3, <1>4 DEF TypeOK, Places, Acquiring
  <1>6. FilesHaveOwners'
    BY <1>1, <1>2, <1>4 DEF IInv, FilesHaveOwners, TypeOK, Files
  <1>7. FoundIsOwner'
    BY <1>1, <1>2, <1>4 DEF IInv, FoundIsOwner, Owned, TypeOK
  <1>8. Alone'
    BY <1>1, <1>2, <1>3, <1>4 DEF Alone, Rival, TypeOK, Acquiring
  <1>9. HoldersHaveFiles' /\ HoldersAreSpared' /\ AttemptsLeft'
    BY <1>1, <1>2, <1>3, <1>4
    DEF IInv, HoldersHaveFiles, HoldersAreSpared, Spares, AttemptsLeft, TypeOK, Acquiring,
        MAX_LOCK_ATTEMPTS
  <1> QED
    BY <1>5, <1>6, <1>7, <1>8, <1>9 DEF IInv

\* What is in a lock file is the pid of its owner.
LEMMA ContentsAreOwned ==
    ASSUME IInv, NEW s \in Session
    PROVE  /\ Contents(s) \in Proc \cup {NoFile, Unreadable}
           /\ Contents(s) \in Proc => s \in written /\ Contents(s) = creator[s]
                                      /\ Owned(Contents(s), s)
  <1>1. CASE s \in Files /\ s \notin written
    BY <1>1, UnreadableAssumption DEF Contents
  <1>2. CASE s \notin Files
    BY <1>2, NoFileAssumption DEF Contents, Files
  <1>3. CASE s \in written
    BY <1>3 DEF Contents, Owned, IInv, TypeOK, FilesHaveOwners
  <1> QED
    BY <1>1, <1>2, <1>3

LEMMA SweepReadInv ==
    ASSUME IInv, NEW p \in Proc, SweepRead(p)
    PROVE  IInv'
  <1>1. PICK s \in entries[p] :
            /\ at' = [at EXCEPT ![p] = s]
            /\ found' = [found EXCEPT ![p] = Contents(s)]
            /\ entries' = [entries EXCEPT ![p] = @ \ {s}]
    BY DEF SweepRead
  <1>2. /\ pc[p] = "sweep" /\ pc' = [pc EXCEPT ![p] = "sweepCheck"]
        /\ UNCHANGED <<wants, creator, written, attempt, contended>>
    BY DEF SweepRead, Goto
  <1>3. TypeOK /\ s \in Session /\ Files' = Files
    BY <1>1, <1>2 DEF IInv, TypeOK, Files
  <1>4. /\ Contents(s) \in Proc \cup {NoFile, Unreadable}
        /\ Contents(s) \in Proc => Owned(Contents(s), s)
    BY <1>3, ContentsAreOwned
  <1>5. TypeOK'
    BY <1>1, <1>2, <1>3, <1>4 DEF TypeOK, Places, Acquiring
  <1>6. FilesHaveOwners' /\ Alone' /\ HoldersHaveFiles' /\ AttemptsLeft'
    BY <1>2, <1>3
    DEF IInv, TypeOK, FilesHaveOwners, Alone, Rival, HoldersHaveFiles, AttemptsLeft, Acquiring
  <1>7. FoundIsOwner'
    BY <1>1, <1>2, <1>3, <1>4 DEF IInv, TypeOK, FoundIsOwner, Owned
  <1>8. HoldersAreSpared'
    <2> SUFFICES ASSUME NEW q \in Proc, NEW r \in Proc, q # r, ~contended[q],
                        pc'[q] \in {"chat", "unlinkOwn"}
                 PROVE  Spares(r, q, wants[q])'
      BY <1>2 DEF HoldersAreSpared
    <2>1. pc[q] \in {"chat", "unlinkOwn"}
      BY <1>2, <1>3 DEF TypeOK
    <2>2. Spares(r, q, wants[q]) /\ creator[wants[q]] = q /\ wants[q] \in written
      BY <2>1 DEF IInv, HoldersAreSpared, HoldersHaveFiles
    <2>3. s = wants[q] => Contents(s) = q
      BY <2>2 DEF Contents
    <2> QED
      BY <2>2, <2>3, <1>1, <1>2, <1>3 DEF Spares, TypeOK
  <1> QED
    BY <1>5, <1>6, <1>7, <1>8 DEF IInv

LEMMA SweepCheckInv ==
    ASSUME IInv, NEW p \in Proc, SweepCheck(p)
    PROVE  IInv'
  <1> DEFINE s == at[p]
  <1>1. /\ pc[p] = "sweepCheck" /\ pc' = [pc EXCEPT ![p] = AfterSweep(entries[p])]
        /\ IF Alive(found[p]) THEN UNCHANGED <<creator, written>> ELSE Unlink(s)
        /\ UNCHANGED <<wants, entries, at, found, attempt, contended>>
    BY DEF SweepCheck, Goto
  <1>2. TypeOK /\ AfterSweep(entries[p]) \in {"create", "sweep"} /\ s \in Session
    BY DEF IInv, TypeOK, AfterSweep
  <1>3. attempt[p] = 0 /\ 0 < MAX_LOCK_ATTEMPTS
    BY <1>1 DEF IInv, AttemptsLeft, MAX_LOCK_ATTEMPTS
  <1>4. FoundIsOwner' /\ Alone' /\ HoldersAreSpared'
    BY <1>1, <1>2
    DEF IInv, TypeOK, FoundIsOwner, Owned, Alone, Rival, HoldersAreSpared, Spares, Acquiring
  <1>5. CASE Alive(found[p])
    <2>1. Files' = Files
      BY <1>1, <1>5 DEF Files
    <2>2. TypeOK'
      BY <1>1, <1>2, <1>5 DEF TypeOK, Places, Acquiring
    <2>3. FilesHaveOwners' /\ HoldersHaveFiles' /\ AttemptsLeft'
      BY <1>1, <1>2, <1>3, <1>5, <2>1
      DEF IInv, TypeOK, FilesHaveOwners, HoldersHaveFiles, AttemptsLeft, Files
    <2> QED
      BY <1>4, <2>2, <2>3 DEF IInv
  <1>6. CASE ~Alive(found[p])
    <2>1. /\ Files' = Files \ {s}
          /\ creator' \in [Session -> Proc \cup {NoFile}]
          /\ written' \in SUBSET Session /\ written' \subseteq Files'
          /\ \A x \in Session : x # s => creator'[x] = creator[x]
          /\ \A x \in Session : x # s => (x \in written' <=> x \in written)
      BY <1>1, <1>2, <1>6, UnlinkKeeps
    <2>2. \A q \in Proc \ {p} : ~contended[q] /\ pc[q] \in {"write", "chat", "unlinkOwn"}
                                => wants[q] # s
      BY <1>1, <1>2, <1>6, RemovesNoHoldersFile
    <2>3. TypeOK'
      BY <1>1, <1>2, <2>1 DEF TypeOK, Places, Acquiring
    <2>4. FilesHaveOwners'
      BY <1>1, <1>2, <2>1 DEF IInv, TypeOK, FilesHaveOwners, Files
    <2>5. HoldersHaveFiles'
      BY <1>1, <1>2, <2>1, <2>2 DEF IInv, TypeOK, HoldersHaveFiles
    <2>6. AttemptsLeft'
      BY <1>1, <1>2, <1>3, <2>1 DEF IInv, TypeOK, AttemptsLeft
    <2> QED
      BY <1>4, <2>3, <2>4, <2>5, <2>6 DEF IInv
  <1> QED
    BY <1>5, <1>6

-----------------------------------------------------------------------------
(* Taking the lock *)

LEMMA CreateInv ==
    ASSUME IInv, NEW p \in Proc, Create(p)
    PROVE  IInv'
  <1> DEFINE s == wants[p]
  <1>1. /\ pc[p] = "create"
        /\ attempt' = [attempt EXCEPT ![p] = @ + 1]
        /\ UNCHANGED <<wants, written, entries, at, found, contended>>
    BY DEF Create
  <1>2. TypeOK /\ s \in Session /\ attempt[p] \in 0..MAX_LOCK_ATTEMPTS
    BY DEF IInv, TypeOK
  <1>3. attempt[p] + 1 \in 0..MAX_LOCK_ATTEMPTS
    BY <1>1, <1>2 DEF IInv, AttemptsLeft, MAX_LOCK_ATTEMPTS
  <1>4. CASE s \in Files
    <2>1. pc' = [pc EXCEPT ![p] = "read"] /\ UNCHANGED creator /\ Files' = Files
      BY <1>4 DEF Create, Goto, Files
    <2>2. TypeOK'
      BY <1>1, <1>2, <1>3, <2>1 DEF TypeOK, Places, Acquiring
    <2>3. FilesHaveOwners' /\ FoundIsOwner' /\ Alone'
      BY <1>1, <1>2, <2>1
      DEF IInv, TypeOK, FilesHaveOwners, FoundIsOwner, Owned, Alone, Rival, Acquiring
    <2>4. HoldersHaveFiles' /\ HoldersAreSpared'
      BY <1>1, <1>2, <2>1 DEF IInv, TypeOK, HoldersHaveFiles, HoldersAreSpared, Spares
    <2>5. AttemptsLeft'
      BY <1>1, <1>2, <1>4, <2>1 DEF IInv, TypeOK, AttemptsLeft, MAX_LOCK_ATTEMPTS
    <2> QED
      BY <2>2, <2>3, <2>4, <2>5 DEF IInv
  <1>5. CASE s \notin Files
    <2>1. pc' = [pc EXCEPT ![p] = "write"] /\ creator' = [creator EXCEPT ![s] = p]
      BY <1>5 DEF Create, Goto
    <2>2. /\ Files' = Files \cup {s} /\ s \notin written
          /\ \A x \in Files : x # s /\ creator'[x] = creator[x] /\ creator[x] # p
      BY <1>1, <1>2, <1>5, <2>1, NoFileAssumption DEF Files, TypeOK, IInv, FilesHaveOwners
    <2>3. TypeOK'
      BY <1>1, <1>2, <1>3, <2>1 DEF TypeOK, Places, Acquiring
    <2>4. FilesHaveOwners'
      BY <1>1, <1>2, <2>1, <2>2 DEF IInv, TypeOK, FilesHaveOwners
    <2>5. FoundIsOwner' /\ Alone'
      BY <1>1, <1>2, <2>1
      DEF IInv, TypeOK, FoundIsOwner, Owned, Alone, Rival, Acquiring
    <2>6. HoldersHaveFiles'
      <3>1. \A q \in Proc : creator[wants[q]] = q => wants[q] \in Files
        BY <1>2, NoFileAssumption DEF Files, TypeOK
      <3> QED
        BY <1>1, <1>2, <2>1, <2>2, <3>1 DEF IInv, TypeOK, HoldersHaveFiles
    <2>7. HoldersAreSpared'
      BY <1>1, <1>2, <2>1 DEF IInv, TypeOK, HoldersAreSpared, Spares
    <2>8. AttemptsLeft'
      <3>1. \A q \in Proc \ {p} : ~contended[q] => pc[q] \notin Acquiring
        BY <1>1 DEF IInv, Alone, Rival, Acquiring
      <3> QED
        BY <1>1, <1>2, <2>1, <3>1 DEF IInv, AttemptsLeft, TypeOK, Acquiring
    <2> QED
      BY <2>3, <2>4, <2>5, <2>6, <2>7, <2>8 DEF IInv
  <1> QED
    BY <1>4, <1>5

LEMMA WriteInv ==
    ASSUME IInv, NEW p \in Proc, Write(p)
    PROVE  IInv'
  <1> DEFINE s == wants[p]
  <1>1. /\ pc[p] = "write" /\ pc' = [pc EXCEPT ![p] = "chat"]
        /\ written' = written \cup {x \in {s} : creator[x] = p}
        /\ UNCHANGED <<wants, creator, entries, at, found, attempt, contended>>
    BY DEF Write, Goto
  <1>2. TypeOK /\ s \in Session /\ Files' = Files
    BY <1>1 DEF IInv, TypeOK, Files
  <1>3. creator[s] = p => s \in Files
    BY <1>2, NoFileAssumption DEF Files
  <1>4. TypeOK'
    BY <1>1, <1>2 DEF TypeOK, Places, Acquiring
  <1>5. FilesHaveOwners'
    BY <1>1, <1>2, <1>3 DEF IInv, TypeOK, FilesHaveOwners
  <1>6. FoundIsOwner' /\ Alone' /\ AttemptsLeft'
    BY <1>1, <1>2
    DEF IInv, TypeOK, FoundIsOwner, Owned, Alone, Rival, AttemptsLeft, Acquiring
  <1>7. HoldersHaveFiles'
    BY <1>1, <1>2 DEF IInv, TypeOK, HoldersHaveFiles
  <1>8. HoldersAreSpared'
    <2> SUFFICES ASSUME NEW q \in Proc, NEW r \in Proc, q # r, ~contended[q],
                        pc'[q] \in {"chat", "unlinkOwn"}
                 PROVE  Spares(r, q, wants[q])'
      BY <1>1 DEF HoldersAreSpared
    <2>1. CASE q # p
      BY <1>1, <1>2, <2>1 DEF IInv, HoldersAreSpared, Spares, TypeOK
    <2>2. CASE q = p
      <3>1. ~Rival(r) /\ creator[s] = p
        BY <1>1, <2>2 DEF IInv, Alone, HoldersHaveFiles, Acquiring
      <3>2. pc[r] = "unlinkOwn" => wants[r] # s
        BY <3>1, <2>2 DEF IInv, Rival, HoldersHaveFiles
      <3> QED
        BY <1>1, <1>2, <2>2, <3>1, <3>2 DEF Spares, Rival, TypeOK, Acquiring
    <2> QED
      BY <2>1, <2>2
  <1> QED
    BY <1>4, <1>5, <1>6, <1>7, <1>8 DEF IInv

LEMMA ReadOwnerInv ==
    ASSUME IInv, NEW p \in Proc, ReadOwner(p)
    PROVE  IInv'
  <1> DEFINE s == wants[p]
             place == IF s \in Files THEN "check" ELSE "unlinkAgain"
  <1>1. /\ pc[p] = "read" /\ pc' = [pc EXCEPT ![p] = place]
        /\ found' = [found EXCEPT ![p] = Contents(s)]
        /\ UNCHANGED <<wants, creator, written, entries, at, attempt, contended>>
    BY DEF ReadOwner, Goto
  <1>2. TypeOK /\ s \in Session /\ Files' = Files
    BY <1>1 DEF IInv, TypeOK, Files
  <1>3. /\ Contents(s) \in Proc \cup {NoFile, Unreadable}
        /\ Contents(s) \in Proc => Owned(Contents(s), s)
    BY <1>2, ContentsAreOwned
  <1>4. TypeOK'
    BY <1>1, <1>2, <1>3 DEF TypeOK, Places, Acquiring
  <1>5. FilesHaveOwners' /\ Alone' /\ HoldersHaveFiles' /\ AttemptsLeft'
    BY <1>1, <1>2
    DEF IInv, TypeOK, FilesHaveOwners, Alone, Rival, HoldersHaveFiles, AttemptsLeft, Acquiring
  <1>6. FoundIsOwner'
    BY <1>1, <1>2, <1>3 DEF IInv, TypeOK, FoundIsOwner, Owned
  <1>7. HoldersAreSpared'
    <2> SUFFICES ASSUME NEW q \in Proc, NEW r \in Proc, q # r, ~contended[q],
                        pc'[q] \in {"chat", "unlinkOwn"}
                 PROVE  Spares(r, q, wants[q])'
      BY <1>1 DEF HoldersAreSpared
    <2>1. pc[q] \in {"chat", "unlinkOwn"}
      BY <1>1, <1>2 DEF TypeOK
    <2>2. Spares(r, q, wants[q]) /\ creator[wants[q]] = q /\ wants[q] \in written
      BY <2>1 DEF IInv, HoldersAreSpared, HoldersHaveFiles
    <2>3. s = wants[q] => Contents(s) = q /\ s \in Files
      BY <1>2, <2>2 DEF Contents, IInv, FilesHaveOwners
    <2> QED
      BY <2>2, <2>3, <1>1, <1>2 DEF Spares, TypeOK
  <1> QED
    BY <1>4, <1>5, <1>6, <1>7 DEF IInv

LEMMA RefuseInv ==
    ASSUME IInv, NEW p \in Proc, Refuse(p)
    PROVE  IInv'
  <1>1. /\ pc[p] = "check" /\ pc' = [pc EXCEPT ![p] = "refused"]
        /\ UNCHANGED <<wants, creator, written, entries, at, found, attempt, contended>>
    BY DEF Refuse, Goto
  <1>2. TypeOK /\ Files' = Files
    BY <1>1 DEF IInv, Files
  <1>3. TypeOK'
    BY <1>1, <1>2 DEF TypeOK, Places, Acquiring
  <1> QED
    BY <1>1, <1>2, <1>3
    DEF IInv, TypeOK, FilesHaveOwners, FoundIsOwner, Owned, Alone, Rival, HoldersHaveFiles,
        HoldersAreSpared, Spares, AttemptsLeft, Acquiring

\* A process that removes the lock of its session and goes to a place of its loop,
\* or is done.
LEMMA UnlinkInv ==
    ASSUME IInv, NEW p \in Proc, NEW place,
           \/ pc[p] = "check" /\ ~(found[p] # p /\ Alive(found[p]))
           \/ pc[p] \in {"unlinkAgain", "unlinkOwn"},
           Unlink(wants[p]),
           pc' = [pc EXCEPT ![p] = place],
           \/ place \in {"refused", "gone"}
           \/ place = "create" /\ attempt[p] < MAX_LOCK_ATTEMPTS
           \/ place = "unlinkAgain" /\ pc[p] = "check" /\ wants[p] \notin Files,
           pc[p] = "unlinkOwn" => place = "gone",
           UNCHANGED <<wants, entries, at, found, attempt, contended>>
    PROVE  IInv'
  <1> DEFINE s == wants[p]
  <1>1. TypeOK /\ s \in Session
    BY DEF IInv, TypeOK
  <1>2. /\ Files' = Files \ {s}
        /\ creator' \in [Session -> Proc \cup {NoFile}]
        /\ written' \in SUBSET Session /\ written' \subseteq Files'
        /\ \A x \in Session : x # s => creator'[x] = creator[x]
        /\ \A x \in Session : x # s => (x \in written' <=> x \in written)
        /\ creator'[s] = NoFile
    BY <1>1, UnlinkKeeps
  <1>3. \A q \in Proc \ {p} : ~contended[q] /\ pc[q] \in {"write", "chat", "unlinkOwn"}
                              => wants[q] # s
    BY <1>1, RemovesNoHoldersFile
  <1>4. TypeOK'
    BY <1>1, <1>2 DEF TypeOK, Places, Acquiring
  <1>5. FilesHaveOwners'
    <2> SUFFICES ASSUME NEW x \in Files'
                 PROVE  /\ wants'[creator'[x]] = x
                        /\ pc'[creator'[x]] \in {"write", "chat", "unlinkOwn", "dead"}
                        /\ pc'[creator'[x]] = "write" => x \notin written'
                        /\ pc'[creator'[x]] \in {"chat", "unlinkOwn"} => x \in written'
      BY <1>2 DEF FilesHaveOwners
    <2>1. x \in Session /\ x \in Files /\ x # s /\ creator'[x] = creator[x]
          /\ (x \in written' <=> x \in written)
      BY <1>2 DEF Files
    <2>2. wants[creator[x]] = x /\ creator[x] \in Proc /\ creator[x] # p
      BY <1>1, <2>1 DEF IInv, FilesHaveOwners, Files, TypeOK
    <2> QED
      BY <1>1, <2>1, <2>2 DEF IInv, FilesHaveOwners, TypeOK
  <1>6. FoundIsOwner'
    BY <1>1 DEF IInv, TypeOK, FoundIsOwner, Owned
  <1>7. Alone'
    BY <1>1 DEF IInv, TypeOK, Alone, Rival, Acquiring
  <1>8. HoldersHaveFiles'
    BY <1>1, <1>2, <1>3 DEF IInv, TypeOK, HoldersHaveFiles
  <1>9. HoldersAreSpared'
    <2> SUFFICES ASSUME NEW q \in Proc, NEW r \in Proc, q # r, ~contended[q],
                        pc'[q] \in {"chat", "unlinkOwn"}
                 PROVE  Spares(r, q, wants[q])'
      BY DEF HoldersAreSpared
    <2>1. q # p /\ pc[q] \in {"chat", "unlinkOwn"} /\ wants[q] # s
      BY <1>1, <1>3 DEF TypeOK
    <2>2. Spares(r, q, wants[q])
      BY <2>1 DEF IInv, HoldersAreSpared
    <2> QED
      BY <1>1, <2>1, <2>2 DEF Spares, TypeOK
  <1>10. AttemptsLeft'
    BY <1>1, <1>2 DEF IInv, TypeOK, AttemptsLeft
  <1> QED
    BY <1>4, <1>5, <1>6, <1>7, <1>8, <1>9, <1>10 DEF IInv

LEMMA ReclaimInv ==
    ASSUME IInv, NEW p \in Proc, Reclaim(p)
    PROVE  IInv'
  <1> DEFINE place == IF wants[p] \in Files THEN Retry(p) ELSE "unlinkAgain"
  <1>1. /\ pc[p] = "check" /\ ~(found[p] # p /\ Alive(found[p]))
        /\ Unlink(wants[p]) /\ pc' = [pc EXCEPT ![p] = place]
        /\ UNCHANGED <<wants, entries, at, found, attempt, contended>>
    BY DEF Reclaim, Goto
  <1>2. \/ place \in {"refused", "gone"}
        \/ place = "create" /\ attempt[p] < MAX_LOCK_ATTEMPTS
        \/ place = "unlinkAgain" /\ pc[p] = "check" /\ wants[p] \notin Files
    BY <1>1 DEF Retry
  <1> HIDE DEF place
  <1> QED
    BY <1>1, <1>2, UnlinkInv

LEMMA UnlinkAgainInv ==
    ASSUME IInv, NEW p \in Proc, UnlinkAgain(p)
    PROVE  IInv'
  <1>1. /\ pc[p] = "unlinkAgain" /\ Unlink(wants[p])
        /\ pc' = [pc EXCEPT ![p] = Retry(p)]
        /\ UNCHANGED <<wants, entries, at, found, attempt, contended>>
    BY DEF UnlinkAgain, Goto
  <1>2. \/ Retry(p) = "refused"
        \/ Retry(p) = "create" /\ attempt[p] < MAX_LOCK_ATTEMPTS
    BY DEF Retry
  <1> QED
    BY <1>1, <1>2, UnlinkInv

-----------------------------------------------------------------------------
(* Releasing it, and dying *)

LEMMA ReleaseReadInv ==
    ASSUME IInv, NEW p \in Proc, ReleaseRead(p)
    PROVE  IInv'
  <1> DEFINE place == IF Contents(wants[p]) = p THEN "unlinkOwn" ELSE "gone"
  <1>1. /\ pc[p] = "chat" /\ pc' = [pc EXCEPT ![p] = place]
        /\ UNCHANGED <<wants, creator, written, entries, at, found, attempt>>
    BY DEF ReleaseRead, Goto
  <1>2. TypeOK /\ Files' = Files /\ wants[p] \in Session
    BY <1>1 DEF IInv, TypeOK, Files
  <1>3. /\ contended' \in [Proc -> BOOLEAN] /\ contended'[p] = contended[p]
        /\ \A q \in Proc : ~contended'[q] => ~contended[q]
        /\ \A q \in Proc : ~contended'[q] /\ pc[q] \in Acquiring =>
                ~contended[p] \/ Contents(wants[p]) # p
        /\ \A q \in Proc : pc[q] \notin Acquiring => contended'[q] = contended[q]
    BY <1>1, <1>2 DEF ReleaseRead, Disturbed, TypeOK, Acquiring
  <1>4. TypeOK'
    BY <1>1, <1>2, <1>3 DEF TypeOK, Places, Acquiring
  <1>5. FilesHaveOwners'
    <2>1. \A s \in Files : creator[s] = p => wants[p] = s /\ s \in written
      BY <1>1 DEF IInv, FilesHaveOwners
    <2>2. \A s \in Files : creator[s] = p => place = "unlinkOwn"
      BY <2>1 DEF Contents
    <2> QED
      BY <1>1, <1>2, <2>1, <2>2 DEF IInv, FilesHaveOwners, TypeOK
  <1>6. FoundIsOwner'
    BY <1>1, <1>2 DEF IInv, TypeOK, FoundIsOwner, Owned
  <1>7. Alone'
    BY <1>1, <1>2, <1>3 DEF IInv, TypeOK, Alone, Rival, Acquiring
  <1>8. HoldersHaveFiles' /\ AttemptsLeft'
    BY <1>1, <1>2, <1>3 DEF IInv, TypeOK, HoldersHaveFiles, AttemptsLeft
  <1>9. HoldersAreSpared'
    <2> SUFFICES ASSUME NEW q \in Proc, NEW r \in Proc, q # r, ~contended[q],
                        pc'[q] \in {"chat", "unlinkOwn"}
                 PROVE  Spares(r, q, wants[q])'
      BY <1>1, <1>3 DEF HoldersAreSpared
    <2>1. pc[q] \in {"chat", "unlinkOwn"}
      BY <1>1, <1>2 DEF TypeOK
    <2>2. Spares(r, q, wants[q]) /\ creator[wants[q]] = q /\ wants[q] \in written
      BY <2>1 DEF IInv, HoldersAreSpared, HoldersHaveFiles
    <2>3. wants[p] = wants[q] => Contents(wants[p]) = q
      BY <2>2 DEF Contents
    <2> QED
      BY <2>2, <2>3, <1>1, <1>2 DEF Spares, TypeOK
  <1> QED
    BY <1>4, <1>5, <1>6, <1>7, <1>8, <1>9 DEF IInv

LEMMA UnlinkOwnInv ==
    ASSUME IInv, NEW p \in Proc, UnlinkOwn(p)
    PROVE  IInv'
  <1>1. /\ pc[p] = "unlinkOwn" /\ Unlink(wants[p]) /\ pc' = [pc EXCEPT ![p] = "gone"]
        /\ UNCHANGED <<wants, entries, at, found, attempt, contended>>
    BY DEF UnlinkOwn, Goto
  <1> QED
    BY <1>1, UnlinkInv

LEMMA DieInv ==
    ASSUME IInv, NEW p \in Proc, Die(p)
    PROVE  IInv'
  <1>1. /\ pc' = [pc EXCEPT ![p] = "dead"]
        /\ UNCHANGED <<wants, creator, written, entries, at, found, attempt, contended>>
    BY DEF Die, Goto
  <1>2. TypeOK /\ Files' = Files
    BY <1>1 DEF IInv, Files
  <1>3. TypeOK'
    BY <1>1, <1>2 DEF TypeOK, Places, Acquiring
  <1> QED
    BY <1>1, <1>2, <1>3
    DEF IInv, TypeOK, FilesHaveOwners, FoundIsOwner, Owned, Alone, Rival, HoldersHaveFiles,
        HoldersAreSpared, Spares, AttemptsLeft, Acquiring

-----------------------------------------------------------------------------
(* The theorems *)

LEMMA StepInv == ASSUME IInv, [Next]_vars PROVE IInv'
  <1>1. CASE UNCHANGED vars
    BY <1>1
    DEF vars, IInv, TypeOK, FilesHaveOwners, FoundIsOwner, Owned, Alone, Rival,
        HoldersHaveFiles, HoldersAreSpared, Spares, AttemptsLeft, Files
  <1>2. CASE Next
    <2>1. PICK p \in Proc : Step(p)
      BY <1>2 DEF Next
    <2> QED
      BY <2>1, EnterInv, SweepReadInv, SweepCheckInv, CreateInv, WriteInv, ReadOwnerInv,
         RefuseInv, ReclaimInv, UnlinkAgainInv, ReleaseReadInv, UnlinkOwnInv, DieInv DEF Step
  <1> QED
    BY <1>1, <1>2

\* Whatever processes acquire at once and wherever they die: lock files are their
\* creators', and nobody is about to remove the one of an uncontended acquire.
THEOREM Invariance == Spec => []IInv
  <1> QED
    BY InitInv, StepInv, PTL DEF Spec

\* The lock of a process that nobody was in the way of stands while it chats, and
\* who chats in its session too got in by a contended acquire.
THEOREM LockKept == Spec => []LockStands
  <1>1. IInv => LockStands
    <2> SUFFICES ASSUME IInv, NEW p \in Proc, pc[p] = "chat", ~contended[p]
                 PROVE  /\ Contents(wants[p]) = p
                        /\ \A q \in Proc \ {p} :
                            pc[q] = "chat" /\ wants[q] = wants[p] => contended[q]
      BY DEF LockStands
    <2>1. creator[wants[p]] = p /\ wants[p] \in written
      BY DEF IInv, HoldersHaveFiles
    <2>2. \A q \in Proc : pc[q] = "chat" /\ ~contended[q] => creator[wants[q]] = q
      BY DEF IInv, HoldersHaveFiles
    <2> QED
      BY <2>1, <2>2 DEF Contents
  <1> QED
    BY <1>1, Invariance, PTL

\* A process is refused behind a live process that took the lock, or when its
\* attempts ran out in a contended acquire: never because others died.
THEOREM CrashNeverLocksOut == Spec => RefusedBehindOwner
  <1>1. ASSUME IInv, NEW p \in Proc, Step(p)
        PROVE  \A q \in Proc : pc[q] # "refused" /\ pc'[q] = "refused" =>
                    \/ contended[q] /\ attempt[q] = MAX_LOCK_ATTEMPTS
                    \/ \E r \in Proc \ {q} :
                        wants[r] = wants[q] /\ pc[r] \in {"chat", "unlinkOwn", "gone"}
    <2> SUFFICES ASSUME NEW q \in Proc, pc[q] # "refused", pc'[q] = "refused"
                 PROVE  \/ contended[q] /\ attempt[q] = MAX_LOCK_ATTEMPTS
                        \/ \E r \in Proc \ {q} :
                            wants[r] = wants[q] /\ pc[r] \in {"chat", "unlinkOwn", "gone"}
      OBVIOUS
    <2>1. q = p /\ (Refuse(p) \/ Reclaim(p) \/ UnlinkAgain(p))
      <3>1. PICK place : pc' = [pc EXCEPT ![p] = place]
        BY <1>1 DEF Step, Enter, SweepRead, SweepCheck, Create, Write, ReadOwner, Refuse,
                    Reclaim, UnlinkAgain, ReleaseRead, UnlinkOwn, Die, Goto
      <3>2. TypeOK /\ q = p
        BY <1>1, <3>1 DEF IInv, TypeOK
      <3>3. ~(Enter(p) \/ SweepRead(p) \/ SweepCheck(p))
        BY <3>2 DEF Enter, SweepRead, SweepCheck, Goto, AfterSweep, TypeOK
      <3>4. ~(Create(p) \/ Write(p) \/ ReadOwner(p))
        BY <3>2 DEF Create, Write, ReadOwner, Goto, TypeOK
      <3>5. ~(ReleaseRead(p) \/ UnlinkOwn(p) \/ Die(p))
        BY <3>2 DEF ReleaseRead, UnlinkOwn, Die, Goto, TypeOK
      <3> QED
        BY <1>1, <3>2, <3>3, <3>4, <3>5 DEF Step
    <2>2. CASE Refuse(p)
      <3>1. pc[p] = "check" /\ found[p] # p /\ Alive(found[p])
        BY <2>2 DEF Refuse
      <3>2. found[p] \in Proc /\ pc[found[p]] # "dead"
        BY <3>1 DEF Alive
      <3>3. Owned(found[p], wants[p])
        BY <1>1, <3>1, <3>2 DEF IInv, FoundIsOwner
      <3> QED
        BY <2>1, <3>1, <3>2, <3>3 DEF Owned
    <2>3. CASE Reclaim(p) \/ UnlinkAgain(p)
      <3>1. pc[p] \in {"check", "unlinkAgain"} /\ Retry(p) = "refused"
        BY <1>1, <2>1, <2>3 DEF Reclaim, UnlinkAgain, Goto, IInv, TypeOK
      <3>2. attempt[p] \in 0..MAX_LOCK_ATTEMPTS /\ ~(attempt[p] < MAX_LOCK_ATTEMPTS)
        BY <1>1, <3>1 DEF Retry, IInv, TypeOK
      <3>3. attempt[p] = MAX_LOCK_ATTEMPTS
        BY <3>2 DEF MAX_LOCK_ATTEMPTS
      <3>4. contended[p]
        BY <1>1, <3>1, <3>3 DEF IInv, AttemptsLeft, MAX_LOCK_ATTEMPTS, TypeOK
      <3> QED
        BY <2>1, <3>3, <3>4
    <2> QED
      BY <2>1, <2>2, <2>3
  <1>2. IInv /\ [Next]_vars =>
        [\A p \in Proc :
            (pc[p] # "refused" /\ pc'[p] = "refused") =>
                \/ contended[p] /\ attempt[p] = MAX_LOCK_ATTEMPTS
                \/ \E q \in Proc \ {p} :
                    wants[q] = wants[p] /\ pc[q] \in {"chat", "unlinkOwn", "gone"}]_vars
    BY <1>1 DEF Next
  <1> QED
    BY <1>2, Invariance, PTL DEF Spec, RefusedBehindOwner

=============================================================================
