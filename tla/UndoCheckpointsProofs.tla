------------------------ MODULE UndoCheckpointsProofs ------------------------
(***************************************************************************)
(* UndoCheckpoints for any files, contents, calls and limits, however many *)
(* calls overlap: what a restore overwrites, and which ids and snapshots   *)
(* races, crashes and prunings leave behind.                               *)
(***************************************************************************)
EXTENDS UndoCheckpoints, FiniteSetTheorems, WellFoundedInduction, TLAPS

Dir == [seq : Nat, snap : Small \cup {Absent}, meta : FileRecord \cup {Absent}]

\* What was captured, and from the look at the file on, the record for meta.json.
PendingTyped ==
    \A k \in Call : /\ pc[k] \in {"running", "written", "numbered"} => pending[k] \in Captured
                    /\ pc[k] = "filed" => pending[k] \in FileRecord

Types == TypeOK /\ PendingTyped

\* What a restore is about to write is as the call left it, unless somebody has
\* been there since.
StillAsLeft == restore.on /\ ~touched => file[restore.of.path] = restore.of.after

\* The numbers in use have a bound, so that there is a greatest one.
Bounded == \E n \in Nat : \A j \in Call : dirs[j].seq <= n

Committing(k) == pc[k] \in {"numbered", "filed"}

\* Before its commit a call has no directory, and before meta.json at most one
\* with its number.
Shapes ==
    \A k \in Call :
       /\ pc[k] \in {"unused", "running", "written"} => dirs[k] = NoDir
       /\ Committing(k) => /\ seqNo[k] > 0 /\ dirs[k].seq \in {0, seqNo[k]}
                           /\ dirs[k].meta = Absent

\* The number a call has, or is about to give its directory.
Number(k) == IF Committing(k) THEN seqNo[k] ELSE dirs[k].seq

\* Who has the same number has raced.
Races ==
    \A i, j \in Call : i # j /\ Number(i) > 0 /\ Number(i) = Number(j) => {i, j} \subseteq raced

\* The directories that sort after that of a call, made already or not.
After(k) ==
    {j \in Call : /\ Exists(j)
                  /\ dirs[j].seq > Number(k) \/ (dirs[j].seq = Number(k) /\ j > k)}
Superseded(k) == Cardinality(After(k)) >= MaxCheckpoints

\* Whatever a pruning has still to remove is too old, if it is there at all ...
PrunedAreOld ==
    \A p \in Call : \A j \in todo[p] :
       /\ pc[j] \notin {"unused", "running", "written"}
       /\ Number(j) > 0 => Superseded(j)

\* ... and so is what lacks its snapshot.
Complete(k) == Stored(dirs[k].meta.before) => dirs[k].snap = dirs[k].meta.before
ListedComplete == \A k \in Call : Listed(k) => Complete(k) \/ Superseded(k)

SnapFiled(k) == Stored(pending[k].before) => dirs[k].snap = pending[k].before
FiledComplete == \A k \in Call : pc[k] = "filed" => SnapFiled(k) \/ Superseded(k)

IInv ==
    /\ Types /\ StillAsLeft /\ Bounded /\ Shapes
    /\ Races /\ PrunedAreOld /\ ListedComplete /\ FiledComplete

-----------------------------------------------------------------------------
(* Typing *)

\* A set of numbers that has a bound has a greatest one.
LEMMA MaxOfBounded ==
  ASSUME NEW S \in SUBSET Nat, S # {}, NEW n \in Nat, \A x \in S : x <= n
  PROVE  Max(S) \in S /\ \A x \in S : x <= Max(S)
<1> DEFINE R == OpToRel(<, Nat)
           B == {m \in Nat : \A x \in S : x <= m}
<1>1. \A x, y \in Nat : x < y => <<x, y>> \in R
  BY DEF OpToRel
<1>2. PICK m \in B : \A y \in B : ~(<<y, m>> \in R)
  <2>1. IsWellFoundedOn(R, Nat)
    BY NatLessThanWellFounded
  <2>2. B \subseteq Nat /\ B # {}
    OBVIOUS
  <2> HIDE DEF R, B
  <2> QED BY <2>1, <2>2, WFMin
<1>3. m \in S
  <2> SUFFICES ASSUME m \notin S PROVE FALSE
    OBVIOUS
  <2>1. m \in Nat /\ \A x \in S : x \in Nat /\ x <= m /\ x # m
    BY <1>2
  <2>2. m > 0
    <3>1. PICK x \in S : TRUE
      OBVIOUS
    <3> QED BY <2>1, <3>1
  <2>3. m - 1 \in B
    BY <2>1, <2>2
  <2>4. m - 1 < m /\ m - 1 \in Nat
    BY <2>2
  <2> QED BY <1>1, <1>2, <2>3, <2>4
<1> QED BY <1>2, <1>3 DEF Max

\* nextSequence is above every number in use.
LEMMA NextSequenceAbove ==
  ASSUME Types, Bounded
  PROVE  NextSequence \in Nat /\ NextSequence > 0 /\ \A j \in Call : dirs[j].seq < NextSequence
<1> DEFINE S == {0} \cup {dirs[j].seq : j \in Call}
<1>1. PICK n \in Nat : \A j \in Call : dirs[j].seq <= n
  BY DEF Bounded
<1>2. S \in SUBSET Nat /\ S # {} /\ \A x \in S : x <= n
  BY <1>1 DEF Types, TypeOK
<1>3. Max(S) \in S /\ \A x \in S : x <= Max(S)
  <2> HIDE DEF S
  <2> QED BY <1>2, MaxOfBounded
<1>4. \A j \in Call : dirs[j].seq \in S
  OBVIOUS
<1>5. NextSequence = 1 + Max(S)
  BY DEF NextSequence
<1>6. Max(S) \in Nat
  BY <1>2, <1>3
<1>7. \A j \in Call : dirs[j].seq \in Nat /\ dirs[j].seq <= Max(S)
  BY <1>2, <1>3, <1>4
<1> HIDE DEF S
<1> QED BY <1>5, <1>6, <1>7

\* One more number leaves a bound.
LEMMA NumberBounded ==
  ASSUME Bounded, NEW d \in [Call -> Dir], NEW m \in Nat,
         \A j \in Call : d[j].seq = dirs[j].seq \/ d[j].seq = m
  PROVE  \E n \in Nat : \A j \in Call : d[j].seq <= n
<1>1. PICK n \in Nat : \A j \in Call : dirs[j].seq <= n
  BY DEF Bounded
<1>2. \A j \in Call : d[j].seq \in Nat
  BY DEF Dir
<1>3. \A j \in Call : d[j].seq <= n + m
  BY <1>1, <1>2
<1> QED BY <1>3

LEMMA NoDirTyped == NoDir \in Dir
  BY DEF NoDir, Dir

LEMMA ForgetTyped ==
  ASSUME TypeOK, NEW K, Forget(K)
  PROVE  /\ pc' \in [Call -> {"unused", "running", "written", "numbered", "filed", "pruning", "over"}]
         /\ pending' \in [Call -> Captured \cup FileRecord \cup {Absent}]
         /\ seqNo' \in [Call -> Nat] /\ todo' \in [Call -> SUBSET Call]
  BY DEF TypeOK, Forget

LEMMA PutTyped ==
  ASSUME TypeOK, NEW p \in Path, NEW c \in State, Put(p, c)
  PROVE  file' \in [Path -> State] /\ touched' \in BOOLEAN
  BY DEF TypeOK, Put

LEMMA RestoreTyped ==
  ASSUME TypeOK, restore.on
  PROVE  restore \in [on : {TRUE}, from : Call, of : FileRecord]
<1>1. Idle.on = FALSE
  BY DEF Idle
<1> QED BY <1>1 DEF TypeOK

LEMMA PutSpares ==
  ASSUME TypeOK, StillAsLeft, NEW p \in Path, NEW c \in State, Put(p, c), restore' = restore
  PROVE  StillAsLeft'
<1>1. restore.on => restore.of.path \in Path
  BY RestoreTyped DEF FileRecord
<1> QED BY <1>1 DEF TypeOK, Put, StillAsLeft

LEMMA PathTyped ==
  ASSUME Types, NEW k \in Call, pc[k] \in {"running", "written", "numbered", "filed"}
  PROVE  pending[k].path \in Path /\ pending[k].before \in State
  BY DEF Types, PendingTyped, Captured, FileRecord

LEMMA InitTyped == Init => Types /\ StillAsLeft /\ Bounded
<1> SUFFICES ASSUME Init PROVE Types /\ StillAsLeft /\ Bounded
  OBVIOUS
<1>1. file \in [Path -> State]
  BY DEF Init, State, Content
<1>2. NoDir \in [seq : Nat, snap : Small \cup {Absent}, meta : FileRecord \cup {Absent}]
      /\ NoDir.seq = 0
  BY DEF NoDir
<1>3. TypeOK
  BY <1>1, <1>2 DEF Init, TypeOK
<1>4. ~restore.on
  BY DEF Init, Idle
<1>5. Bounded
  BY <1>2 DEF Init, Bounded
<1> QED BY <1>3, <1>4, <1>5 DEF Init, Types, PendingTyped, StillAsLeft

-----------------------------------------------------------------------------
(* What a step does to the directories *)

LEMMA FileCommitted ==
  ASSUME Types, NEW k \in Call, CommitFile(k)
  PROVE  /\ dirs' \in [Call -> Dir] /\ \A j \in Call \ {k} : dirs'[j] = dirs[j]
         /\ dirs'[k].meta = dirs[k].meta /\ dirs'[k].seq \in {dirs[k].seq, seqNo[k]}
         /\ SnapFiled(k)'
         /\ pending' = [pending EXCEPT ![k] = [path |-> pending[k].path, before |-> pending[k].before,
                                               after |-> file[pending[k].path]]]
<1> DEFINE b == pending[k].before
           n == IF Stored(b) \/ Stored(file[pending[k].path]) THEN seqNo[k] ELSE dirs[k].seq
           s == IF Stored(b) THEN b ELSE dirs[k].snap
           d == [seq |-> n, snap |-> s, meta |-> dirs[k].meta]
<1>1. dirs[k] \in Dir /\ dirs[k].seq \in Nat /\ seqNo[k] \in Nat
  BY DEF Types, TypeOK, Dir
<1>2. dirs' = [dirs EXCEPT ![k] = d]
  BY DEF CommitFile
<1>3. s \in Small \cup {Absent} /\ n \in Nat
  BY <1>1 DEF Dir, Stored
<1>4. pending' = [pending EXCEPT ![k] = [path |-> pending[k].path, before |-> b,
                                         after |-> file[pending[k].path]]]
  BY DEF CommitFile
<1>5. pending'[k].before = b
  BY <1>4 DEF Types, TypeOK
<1>6. n \in {dirs[k].seq, seqNo[k]} /\ (Stored(b) => s = b)
  OBVIOUS
<1> HIDE DEF n, s, b
<1>7. d \in Dir /\ d.seq = n /\ d.meta = dirs[k].meta /\ d.snap = s
  BY <1>1, <1>3 DEF Dir
<1> HIDE DEF d
<1> QED BY <1>2, <1>7, <1>4, <1>5, <1>6 DEF Types, TypeOK, Dir, SnapFiled, b

LEMMA MetaCommitted ==
  ASSUME Types, NEW k \in Call, CommitMeta(k)
  PROVE  /\ dirs' \in [Call -> Dir] /\ \A j \in Call \ {k} : dirs'[j] = dirs[j]
         /\ dirs'[k].seq = seqNo[k] /\ dirs'[k].snap = dirs[k].snap
         /\ dirs'[k].meta = pending[k]
<1> DEFINE d == [dirs[k] EXCEPT !.seq = seqNo[k], !.meta = pending[k]]
<1>1. dirs[k] \in Dir /\ seqNo[k] \in Nat /\ pending[k] \in FileRecord
  BY DEF Types, TypeOK, PendingTyped, CommitMeta, Dir
<1>2. dirs' = [dirs EXCEPT ![k] = d]
  BY DEF CommitMeta
<1>3. d \in Dir /\ d.seq = seqNo[k] /\ d.snap = dirs[k].snap /\ d.meta = pending[k]
  BY <1>1 DEF Dir
<1> HIDE DEF d
<1> QED BY <1>2, <1>3 DEF Types, TypeOK, Dir

LEMMA FileRemoved ==
  ASSUME Types, NEW k \in Call, NEW j \in Call, RemoveFile(k, j)
  PROVE  /\ dirs' \in [Call -> Dir] /\ \A i \in Call \ {j} : dirs'[i] = dirs[i]
         /\ dirs'[j].seq = dirs[j].seq /\ dirs'[j].meta \in {dirs[j].meta, Absent}
<1> DEFINE d(m, s) == [seq |-> dirs[j].seq, snap |-> s, meta |-> m]
<1>1. dirs[j] \in Dir
  BY DEF Types, TypeOK, Dir
<1>2. \/ dirs' = [dirs EXCEPT ![j] = d(Absent, dirs[j].snap)]
      \/ dirs' = [dirs EXCEPT ![j] = d(dirs[j].meta, Absent)]
  BY <1>1 DEF RemoveFile, Dir
<1>3. d(Absent, dirs[j].snap) \in Dir /\ d(dirs[j].meta, Absent) \in Dir
  BY <1>1 DEF Dir
<1> QED BY <1>2, <1>3 DEF Types, TypeOK, Dir

LEMMA DirRemoved ==
  ASSUME Types, NEW k \in Call, NEW j \in Call, RemoveDir(k, j)
  PROVE  /\ dirs' \in [Call -> Dir] /\ \A i \in Call \ {j} : dirs'[i] = dirs[i]
         /\ dirs'[j] = NoDir
  BY NoDirTyped DEF RemoveDir, Types, TypeOK, Dir

\* Other steps leave them alone.
Elsewhere ==
    \/ \E k \in Call : Write(k) \/ TakeSequence(k) \/ CommitDone(k) \/ CallFails(k) \/ RestoreBegin(k)
    \/ RestoreFile \/ RestoreFails \/ Crash \/ Others \/ UNCHANGED vars

LEMMA DirsKept == Elsewhere => dirs' = dirs
  BY DEF Elsewhere, Write, Capture, ToolRuns, Format, TakeSequence, CommitDone, CallFails,
         RestoreBegin, RestoreFile, RestoreFails, Crash, Others, Uncaptured, UserEdits, vars

LEMMA StepsAre ==
  [Next]_vars => \/ Elsewhere
                 \/ \E k \in Call : CommitFile(k) \/ CommitMeta(k)
                 \/ \E k, j \in Call : RemoveFile(k, j) \/ RemoveDir(k, j)
  BY DEF Next, Commit, Prune, Elsewhere

-----------------------------------------------------------------------------
(* Types and what a restore overwrites *)

Base == Types /\ StillAsLeft /\ Bounded

LEMMA WriteKeeps ==
  ASSUME Base, NEW k \in Call, Write(k) PROVE Types' /\ StillAsLeft'
<1>1. ASSUME NEW p \in Path, Capture(k, p) PROVE Types' /\ StillAsLeft'
  <2>1. [path |-> p, before |-> file[p]] \in Captured
    BY DEF Base, Types, TypeOK, Captured
  <2> QED BY <1>1, <2>1 DEF Base, Types, TypeOK, PendingTyped, Capture, StillAsLeft
<1>2. ASSUME NEW c \in Content, ToolRuns(k, c) PROVE Types' /\ StillAsLeft'
  <2>1. pending[k].path \in Path /\ c \in State
    BY <1>2, PathTyped DEF ToolRuns, Base, State
  <2>2. file' \in [Path -> State] /\ touched' \in BOOLEAN /\ StillAsLeft'
    BY <1>2, <2>1, PutTyped, PutSpares DEF Base, Types, ToolRuns
  <2>3. CASE pc' = [pc EXCEPT ![k] = "written"] /\ UNCHANGED <<pending, seqNo, todo>>
    BY <1>2, <2>2, <2>3 DEF ToolRuns, Base, Types, TypeOK, PendingTyped
  <2>4. CASE Forget({k})
    BY <1>2, <2>2, <2>4, ForgetTyped DEF ToolRuns, Base, Types, TypeOK, PendingTyped, Forget
  <2> QED BY <1>2, <2>3, <2>4 DEF ToolRuns
<1>3. ASSUME NEW c \in Content, Format(k, c) PROVE Types' /\ StillAsLeft'
  <2>1. pending[k].path \in Path /\ c \in State
    BY <1>3, PathTyped DEF Format, Base, State
  <2>2. file' \in [Path -> State] /\ touched' \in BOOLEAN /\ StillAsLeft'
    BY <1>3, <2>1, PutTyped, PutSpares DEF Base, Types, Format
  <2> QED BY <1>3, <2>2 DEF Format, Base, Types, TypeOK, PendingTyped
<1> QED BY <1>1, <1>2, <1>3 DEF Write

LEMMA CommitKeeps ==
  ASSUME Base, NEW k \in Call, Commit(k) PROVE Types' /\ StillAsLeft'
<1> USE DEF Base
<1>1. StillAsLeft'
  BY DEF StillAsLeft, Commit, TakeSequence, CommitFile, CommitMeta, CommitDone, CallFails
<1>2. CASE TakeSequence(k)
  <2>1. raced' \subseteq Call
    BY <1>2 DEF TakeSequence, Types, TypeOK
  <2>2. NextSequence \in Nat
    BY NextSequenceAbove
  <2> QED BY <1>1, <1>2, <2>1, <2>2 DEF TakeSequence, Types, TypeOK, PendingTyped
<1>3. CASE CommitFile(k)
  <2>1. pending[k].path \in Path /\ pending[k].before \in State
    BY <1>3, PathTyped DEF CommitFile
  <2>2. [path |-> pending[k].path, before |-> pending[k].before,
         after |-> file[pending[k].path]] \in FileRecord
    BY <2>1 DEF Types, TypeOK, FileRecord
  <2>3. dirs' \in [Call -> Dir]
    BY <1>3, FileCommitted
  <2>4. pending' \in [Call -> Captured \cup FileRecord \cup {Absent}] /\ pending'[k] \in FileRecord
        /\ \A j \in Call \ {k} : pending'[j] = pending[j]
    BY <1>3, <2>2, FileCommitted DEF Types, TypeOK
  <2>5. TypeOK'
    BY <1>3, <2>3, <2>4 DEF CommitFile, Types, TypeOK, Dir
  <2> QED BY <1>1, <1>3, <2>4, <2>5 DEF CommitFile, Types, TypeOK, PendingTyped
<1>4. CASE CommitMeta(k)
  <2>1. dirs' \in [Call -> Dir]
    BY <1>4, MetaCommitted
  <2> QED BY <1>1, <1>4, <2>1 DEF CommitMeta, Types, TypeOK, PendingTyped, Dir
<1>5. CASE CommitDone(k) \/ CallFails(k)
  <2>1. Forget({k}) /\ UNCHANGED <<file, dirs, restore, touched, raced, edits>>
    BY <1>5 DEF CommitDone, CallFails
  <2> QED BY <1>1, <2>1, ForgetTyped DEF Types, TypeOK, PendingTyped, Forget
<1> QED BY <1>2, <1>3, <1>4, <1>5 DEF Commit

LEMMA PruneKeeps ==
  ASSUME Base, NEW k \in Call, NEW j \in Call, RemoveFile(k, j) \/ RemoveDir(k, j)
  PROVE  Types' /\ StillAsLeft'
<1>1. dirs' \in [Call -> Dir]
  BY FileRemoved, DirRemoved DEF Base
<1>2. todo' \in [Call -> SUBSET Call]
  BY DEF Base, Types, TypeOK, RemoveFile, RemoveDir
<1> QED
  BY <1>1, <1>2 DEF Base, Types, TypeOK, PendingTyped, Dir, StillAsLeft, RemoveFile, RemoveDir

LEMMA RestoreKeeps ==
  ASSUME Base, (\E k \in Call : RestoreBegin(k)) \/ RestoreFile \/ RestoreFails
  PROVE  Types' /\ StillAsLeft'
<1> USE DEF Base
<1>1. ASSUME NEW k \in Call, RestoreBegin(k) PROVE Types' /\ StillAsLeft'
  <2>1. dirs[k].meta \in FileRecord
    BY <1>1 DEF RestoreBegin, Listed, Types, TypeOK
  <2>2. file[dirs[k].meta.path] = dirs[k].meta.after
    BY <1>1 DEF RestoreBegin, Restorable, AsLeft
  <2>3. restore' \in [on : {TRUE}, from : Call, of : FileRecord]
    BY <1>1, <2>1 DEF RestoreBegin
  <2>4. TypeOK'
    BY <1>1, <2>3 DEF RestoreBegin, Types, TypeOK
  <2>5. StillAsLeft'
    BY <1>1, <2>2 DEF RestoreBegin, StillAsLeft
  <2> QED BY <1>1, <2>4, <2>5 DEF RestoreBegin, Types, PendingTyped
<1>2. CASE RestoreFile
  <2>1. restore.of.path \in Path /\ restore.of.before \in State
    BY <1>2, RestoreTyped DEF RestoreFile, Types, FileRecord
  <2> QED BY <1>2, <2>1 DEF RestoreFile, Idle, Types, TypeOK, PendingTyped, StillAsLeft
<1>3. CASE RestoreFails
  BY <1>3 DEF RestoreFails, Idle, Types, TypeOK, PendingTyped, StillAsLeft
<1> QED BY <1>1, <1>2, <1>3

LEMMA OthersKeep == ASSUME Base, Others PROVE Types' /\ StillAsLeft'
<1>1. PICK p \in Path, c \in State : Uncaptured(p, c) \/ UserEdits(p, c)
  BY DEF Others
<1>2. Put(p, c) /\ UNCHANGED <<dirs, pc, pending, seqNo, todo, restore, raced>> /\ edits' = edits + 1
  BY <1>1 DEF Uncaptured, UserEdits
<1>3. file' \in [Path -> State] /\ touched' \in BOOLEAN /\ StillAsLeft'
  BY <1>2, PutTyped, PutSpares DEF Base, Types
<1>4. edits' \in Nat
  BY <1>2 DEF Base, Types, TypeOK
<1>5. TypeOK'
  BY <1>2, <1>3, <1>4 DEF Base, Types, TypeOK
<1> QED BY <1>2, <1>3, <1>5 DEF Base, Types, PendingTyped

LEMMA CrashKeeps == ASSUME Base, Crash \/ UNCHANGED vars PROVE Types' /\ StillAsLeft'
<1>1. CASE Crash
  BY <1>1, ForgetTyped DEF Crash, Base, Types, TypeOK, PendingTyped, Forget, Idle, StillAsLeft
<1>2. CASE UNCHANGED vars
  BY <1>2 DEF vars, Base, Types, TypeOK, PendingTyped, StillAsLeft
<1> QED BY <1>1, <1>2

LEMMA BaseKept == ASSUME Base, [Next]_vars PROVE Base'
<1>1. Types' /\ StillAsLeft'
  BY WriteKeeps, CommitKeeps, PruneKeeps, RestoreKeeps, OthersKeep, CrashKeeps DEF Next, Prune
<1>2. \E m \in Nat : \A j \in Call : dirs'[j].seq = dirs[j].seq \/ dirs'[j].seq = m
  <2>1. ASSUME NEW k \in Call, CommitFile(k) \/ CommitMeta(k)
        PROVE  seqNo[k] \in Nat
               /\ \A j \in Call : dirs'[j].seq = dirs[j].seq \/ dirs'[j].seq = seqNo[k]
    BY <2>1, FileCommitted, MetaCommitted DEF Base, Types, TypeOK
  <2>2. ASSUME NEW k \in Call, NEW j \in Call, RemoveFile(k, j) \/ RemoveDir(k, j)
        PROVE  0 \in Nat /\ \A i \in Call : dirs'[i].seq = dirs[i].seq \/ dirs'[i].seq = 0
    BY <2>2, FileRemoved, DirRemoved DEF Base, NoDir
  <2>3. dirs' = dirs => 0 \in Nat /\ \A i \in Call : dirs'[i].seq = dirs[i].seq \/ dirs'[i].seq = 0
    OBVIOUS
  <2> QED BY <2>1, <2>2, <2>3, StepsAre, DirsKept
<1>3. dirs' \in [Call -> Dir]
  BY <1>1 DEF Types, TypeOK, Dir
<1> QED BY <1>1, <1>2, <1>3, NumberBounded DEF Base, Bounded

\* A restore overwrites nothing but what the call had left there, whatever calls,
\* edits and failures came before it was verified.
THEOREM RestoreIsSparing == Spec => RestoreSparesOthers
<1>1. Init => Base
  BY InitTyped DEF Base
<1>2. Base /\ [Next]_vars => Base'
  BY BaseKept
<1>3. Base /\ [Next]_vars =>
        [RestoreFile /\ ~touched => file[restore.of.path] = restore.of.after]_vars
  BY DEF Base, StillAsLeft, RestoreFile
<1> QED BY <1>1, <1>2, <1>3, PTL DEF Spec, RestoreSparesOthers

-----------------------------------------------------------------------------
(* What a step does to a call *)

Early(k) == pc[k] \in {"unused", "running", "written"}

CallSteps(j) ==
    /\ Early(j)' => Early(j)
    /\ pc'[j] = "numbered" => TakeSequence(j) \/ (pc[j] = "numbered" /\ seqNo'[j] = seqNo[j])
    /\ pc'[j] = "filed" =>
          /\ seqNo'[j] = seqNo[j]
          /\ CommitFile(j) \/ (pc[j] = "filed" /\ pending'[j] = pending[j])
    /\ todo'[j] \subseteq todo[j] \/ CommitMeta(j)
    /\ raced \subseteq raced'

LEMMA CallStepsAre == ASSUME Types, [Next]_vars, NEW j \in Call PROVE CallSteps(j)
<1> USE DEF Types, TypeOK, CallSteps, Early
<1>1. ASSUME NEW k \in Call, Write(k) PROVE CallSteps(j)
  <2>1. ASSUME NEW p \in Path, Capture(k, p) PROVE CallSteps(j)
    BY <2>1 DEF Capture
  <2>2. ASSUME NEW c \in Content, ToolRuns(k, c) PROVE CallSteps(j)
    BY <2>2 DEF ToolRuns, Forget
  <2>3. ASSUME NEW c \in Content, Format(k, c) PROVE CallSteps(j)
    BY <2>3 DEF Format
  <2> QED BY <1>1, <2>1, <2>2, <2>3 DEF Write
<1>2. ASSUME NEW k \in Call, Commit(k) PROVE CallSteps(j)
  <2>1. CASE TakeSequence(k)
    BY <2>1 DEF TakeSequence
  <2>2. CASE CommitFile(k)
    BY <2>2 DEF CommitFile
  <2>3. CASE CommitMeta(k)
    BY <2>3 DEF CommitMeta
  <2>4. CASE CommitDone(k) \/ CallFails(k)
    BY <2>4 DEF CommitDone, CallFails, Forget
  <2> QED BY <1>2, <2>1, <2>2, <2>3, <2>4 DEF Commit
<1>3. ASSUME NEW k \in Call, Prune(k) PROVE CallSteps(j)
  BY <1>3 DEF Prune, RemoveFile, RemoveDir
<1>4. CASE Crash
  BY <1>4 DEF Crash, Forget
<1>5. CASE UNCHANGED <<pc, pending, seqNo, todo, raced>>
  BY <1>5
<1> HIDE DEF Types, TypeOK, CallSteps, Early
<1> QED
  BY <1>1, <1>2, <1>3, <1>4, <1>5
  DEF Next, RestoreBegin, RestoreFile, RestoreFails, Others, Uncaptured, UserEdits, vars

LEMMA DirSteps ==
  ASSUME Types, [Next]_vars, NEW j \in Call
  PROVE  \/ dirs'[j] = dirs[j]
         \/ CommitFile(j)
         \/ CommitMeta(j)
         \/ \E p \in Call : j \in todo[p] /\ (RemoveFile(p, j) \/ RemoveDir(p, j))
<1>1. ASSUME NEW k \in Call, CommitFile(k) \/ CommitMeta(k) PROVE dirs'[j] = dirs[j] \/ k = j
  BY <1>1, FileCommitted, MetaCommitted
<1>2. ASSUME NEW k \in Call, NEW i \in Call, RemoveFile(k, i) \/ RemoveDir(k, i)
      PROVE  i \in todo[k] /\ (dirs'[j] = dirs[j] \/ i = j)
  BY <1>2, FileRemoved, DirRemoved DEF RemoveFile, RemoveDir, Prunes
<1> QED BY <1>1, <1>2, StepsAre, DirsKept

SInv == Base /\ Shapes

LEMMA ShapesKept == ASSUME SInv, [Next]_vars PROVE Shapes'
<1> SUFFICES ASSUME NEW k \in Call
             PROVE  /\ Early(k)' => dirs'[k] = NoDir
                    /\ Committing(k)' => /\ seqNo'[k] > 0 /\ dirs'[k].seq \in {0, seqNo'[k]}
                                         /\ dirs'[k].meta = Absent
  BY DEF Shapes, Early
<1>0. Types /\ CallSteps(k) /\ NoDir.seq = 0 /\ NoDir.meta = Absent
  BY CallStepsAre DEF SInv, Base, NoDir
<1>1. Early(k) => dirs[k] = NoDir
  BY DEF SInv, Shapes, Early
<1>2. Committing(k) => seqNo[k] > 0 /\ dirs[k].seq \in {0, seqNo[k]} /\ dirs[k].meta = Absent
  BY DEF SInv, Shapes
<1>3. CASE dirs'[k] = dirs[k]
  <2>1. TakeSequence(k) => seqNo'[k] > 0 /\ Early(k)
    BY <1>0, NextSequenceAbove DEF TakeSequence, SInv, Base, Types, TypeOK, Early
  <2>2. CommitFile(k) => Committing(k)
    BY DEF CommitFile, Committing
  <2> QED BY <1>0, <1>1, <1>2, <1>3, <2>1, <2>2 DEF CallSteps, Committing
<1>4. CASE CommitFile(k)
  <2>1. Committing(k) /\ pc'[k] = "filed" /\ seqNo' = seqNo
    BY <1>0, <1>4 DEF CommitFile, Committing, Types, TypeOK
  <2> QED BY <1>0, <1>2, <1>4, <2>1, FileCommitted DEF Early
<1>5. CASE CommitMeta(k)
  BY <1>0, <1>5 DEF CommitMeta, Types, TypeOK, Early, Committing
<1>6. ASSUME NEW p \in Call, RemoveFile(p, k) \/ RemoveDir(p, k)
      PROVE  /\ Early(k)' => dirs'[k] = NoDir
             /\ Committing(k)' => /\ seqNo'[k] > 0 /\ dirs'[k].seq \in {0, seqNo'[k]}
                                  /\ dirs'[k].meta = Absent
  <2>1. pc' = pc /\ seqNo' = seqNo
    BY <1>6 DEF RemoveFile, RemoveDir
  <2>2. CASE RemoveDir(p, k)
    BY <1>0, <1>2, <2>1, <2>2, DirRemoved DEF Committing
  <2>3. CASE RemoveFile(p, k)
    <3>1. dirs[k].meta # Absent \/ dirs[k].snap # Absent
      BY <2>3 DEF RemoveFile
    <3>2. ~Early(k)
      BY <1>1, <3>1 DEF NoDir
    <3> QED BY <1>0, <1>2, <2>1, <2>3, <3>2, FileRemoved DEF Committing, Early
  <2> QED BY <1>6, <2>2, <2>3
<1> QED BY <1>0, <1>3, <1>4, <1>5, <1>6, DirSteps

\* A call has its number for as long as it has one, and it gets it in TakeSequence.
LEMMA NumberSteps ==
  ASSUME SInv, [Next]_vars, NEW j \in Call, Number(j)' > 0
  PROVE  \/ Number(j) > 0 /\ Number(j)' = Number(j)
         \/ TakeSequence(j) /\ Number(j) = 0
<1>0. Types /\ CallSteps(j) /\ NoDir.seq = 0 /\ NoDir.meta = Absent
  BY CallStepsAre DEF SInv, Base, NoDir
<1>1. Early(j) => dirs[j] = NoDir
  BY DEF SInv, Shapes, Early
<1>2. Committing(j) => seqNo[j] > 0 /\ dirs[j].seq \in {0, seqNo[j]}
  BY DEF SInv, Shapes
<1>3. TakeSequence(j) => Number(j) = 0
  BY <1>0, <1>1 DEF TakeSequence, Number, Early, Committing
<1>4. CommitFile(j) => Committing(j)
  BY DEF CommitFile, Committing
<1>5. CASE Committing(j)'
  BY <1>0, <1>2, <1>3, <1>4, <1>5 DEF CallSteps, Committing, Number
<1>6. CASE ~Committing(j)' /\ dirs'[j] = dirs[j]
  BY <1>2, <1>6 DEF Number
<1>7. ASSUME CommitFile(j) PROVE Committing(j)'
  BY <1>0, <1>7 DEF CommitFile, Committing, Types, TypeOK
<1>8. CASE CommitMeta(j)
  <2>1. Committing(j) /\ ~Committing(j)'
    BY <1>0, <1>8 DEF CommitMeta, Committing, Types, TypeOK
  <2> QED BY <1>0, <1>2, <1>8, <2>1, MetaCommitted DEF Number
<1>9. ASSUME NEW p \in Call, RemoveFile(p, j) \/ RemoveDir(p, j), ~Committing(j)'
      PROVE  Number(j) > 0 /\ Number(j)' = Number(j)
  <2>1. ~Committing(j)
    BY <1>9 DEF RemoveFile, RemoveDir, Committing
  <2>2. ~RemoveDir(p, j)
    BY <1>0, <1>9, DirRemoved DEF Number
  <2> QED BY <1>0, <1>9, <2>1, <2>2, FileRemoved DEF Number
<1> QED BY <1>0, <1>5, <1>6, <1>7, <1>8, <1>9, DirSteps

LEMMA NumberTyped ==
  ASSUME Types, NEW k \in Call
  PROVE  Number(k) \in Nat /\ dirs[k].seq \in Nat /\ k \in Nat
  BY ConstantsAssumption DEF Types, TypeOK, Number

\* The number of a directory that is there is the call's.
LEMMA DirNumber == ASSUME Types, Shapes, NEW k \in Call, Exists(k) PROVE Number(k) = dirs[k].seq
  BY DEF Types, TypeOK, Shapes, Number, Exists

LEMMA AfterFinite == ASSUME NEW k \in Call PROVE IsFiniteSet(After(k))
  BY ConstantsAssumption, FS_Subset DEF After

\* What is too old stays too old: to remove a newer directory takes enough still
\* newer ones, which are kept.
LEMMA SupersededKept ==
  ASSUME SInv, PrunedAreOld, [Next]_vars, NEW j \in Call, Number(j) > 0, Number(j)' > 0,
         Superseded(j)
  PROVE  Superseded(j)'
<1>0. Types /\ Shapes /\ Types'
  BY BaseKept DEF SInv, Base
<1>1. Number(j)' = Number(j)
  BY NumberSteps
<1>2. IsFiniteSet(After(j)) /\ IsFiniteSet(After(j)')
  BY ConstantsAssumption, FS_Subset DEF After
<1>3. MaxCheckpoints \in Nat
  BY ConstantsAssumption
<1>4. ASSUME NEW S, S \subseteq After(j)', IsFiniteSet(S), Cardinality(S) >= MaxCheckpoints
      PROVE  Superseded(j)'
  <2>1. Cardinality(S) <= Cardinality(After(j)')
    BY <1>2, <1>4, FS_Subset
  <2>2. Cardinality(S) \in Nat /\ Cardinality(After(j)') \in Nat
    BY <1>2, <1>4, FS_CardinalityType
  <2> QED BY <1>3, <1>4, <2>1, <2>2 DEF Superseded
<1>5. CASE \A i \in Call : Exists(i) => dirs'[i].seq = dirs[i].seq
  <2>1. After(j) \subseteq After(j)'
    BY <1>1, <1>5 DEF After, Exists
  <2> QED BY <1>2, <1>4, <2>1 DEF Superseded
<1>6. ASSUME NEW k \in Call, NEW i \in Call, RemoveDir(k, i), Exists(i) PROVE Superseded(j)'
  <2>1. \A l \in Call \ {i} : dirs'[l] = dirs[l]
    BY <1>0, <1>6, DirRemoved
  <2>2. CASE i \notin After(j)
    <3>1. After(j) \subseteq After(j)'
      BY <1>1, <2>1, <2>2 DEF After, Exists
    <3> QED BY <1>2, <1>4, <3>1 DEF Superseded
  <2>3. CASE i \in After(j)
    <3>1. Number(i) = dirs[i].seq /\ Number(i) > 0
      BY <1>0, <1>6, DirNumber DEF Exists
    <3>2. Superseded(i)
      BY <1>6, <3>1 DEF PrunedAreOld, RemoveDir, Prunes
    <3>3. After(i) \subseteq After(j)'
      <4> SUFFICES ASSUME NEW l \in After(i) PROVE l \in After(j)'
        OBVIOUS
      <4>1. l \in Call /\ l # i
        BY <1>0, <3>1, NumberTyped DEF After
      <4>2. dirs'[l] = dirs[l]
        BY <2>1, <4>1
      <4>3. dirs[l].seq > Number(j) \/ (dirs[l].seq = Number(j) /\ l > j)
        BY <1>0, <2>3, <3>1, <4>1, NumberTyped DEF After
      <4> QED BY <1>1, <4>1, <4>2, <4>3 DEF After, Exists
    <3> QED BY <1>4, <3>2, <3>3, AfterFinite DEF Superseded
  <2> QED BY <2>2, <2>3
<1>7. ASSUME NEW i \in Call, Exists(i), dirs'[i].seq # dirs[i].seq
      PROVE  \E p \in Call : RemoveDir(p, i)
  <2>1. ~CommitFile(i)
    BY <1>0, <1>7, FileCommitted DEF CommitFile, Shapes, Committing, Exists
  <2>2. ~CommitMeta(i)
    <3>1. CommitMeta(i) => dirs[i].seq \in {0, seqNo[i]}
      BY <1>0 DEF CommitMeta, Shapes, Committing
    <3>2. CommitMeta(i) => dirs'[i].seq = seqNo[i]
      BY <1>0, MetaCommitted
    <3>3. dirs[i].seq # 0
      BY <1>7 DEF Exists
    <3> QED BY <1>7, <3>1, <3>2, <3>3
  <2>3. \A p \in Call : ~RemoveFile(p, i)
    BY <1>0, <1>7, FileRemoved
  <2> QED BY <1>0, <1>7, <2>1, <2>2, <2>3, DirSteps
<1> QED BY <1>5, <1>6, <1>7

-----------------------------------------------------------------------------
(* Ids and snapshots *)

LEMMA RacesKept == ASSUME SInv, Races, [Next]_vars PROVE Races'
<1>1. ASSUME NEW i \in Call, NEW j \in Call, i # j, Number(i)' > 0, Number(i)' = Number(j)',
             TakeSequence(i)
      PROVE  {i, j} \subseteq raced'
  <2>1. Types /\ Number(i)' = NextSequence
    BY <1>1 DEF TakeSequence, Number, Committing, SInv, Base, Types, TypeOK
  <2>2. ~TakeSequence(j)
    <3>1. pc'[j] = pc[j]
      BY <1>1, <2>1 DEF TakeSequence, Types, TypeOK
    <3>2. TakeSequence(j) => pc[j] = "written" /\ pc'[j] = "numbered"
      BY <2>1 DEF TakeSequence, Types, TypeOK
    <3> QED BY <3>1, <3>2
  <2>3. Number(j) = NextSequence
    BY <1>1, <2>1, <2>2, NumberSteps
  <2>4. dirs[j].seq < NextSequence /\ dirs[j].seq \in Nat /\ NextSequence \in Nat
    BY <2>1, NextSequenceAbove, NumberTyped DEF SInv, Base
  <2>5. pc[j] \in {"numbered", "filed"} /\ ~Exists(j)
    BY <2>3, <2>4 DEF Number, Committing, SInv, Shapes, Exists
  <2> QED BY <1>1, <2>5 DEF TakeSequence
<1> SUFFICES ASSUME NEW i \in Call, NEW j \in Call, i # j, Number(i)' > 0, Number(i)' = Number(j)'
             PROVE  {i, j} \subseteq raced'
  BY DEF Races
<1>2. raced \subseteq raced'
  BY CallStepsAre DEF CallSteps, SInv, Base
<1> QED BY <1>1, <1>2, NumberSteps DEF Races

LEMMA PrunedKept == ASSUME SInv, PrunedAreOld, [Next]_vars PROVE PrunedAreOld'
<1> SUFFICES ASSUME NEW p \in Call, NEW j \in todo'[p]
             PROVE  ~Early(j)' /\ (Number(j)' > 0 => Superseded(j)')
  BY DEF PrunedAreOld, Early
<1>0. Types /\ Shapes /\ Types' /\ Shapes' /\ j \in Call
  BY BaseKept, ShapesKept DEF SInv, Base, Types, TypeOK
<1>1. CallSteps(j) /\ CallSteps(p)
  BY <1>0, CallStepsAre
<1>2. CASE j \in todo[p]
  <2>1. ~Early(j) /\ (Number(j) > 0 => Superseded(j))
    BY <1>2 DEF PrunedAreOld, Early
  <2>2. ~TakeSequence(j)
    BY <2>1 DEF TakeSequence, Early
  <2> QED BY <1>0, <1>1, <2>1, <2>2, NumberSteps, SupersededKept DEF CallSteps
<1>3. CASE CommitMeta(p)
  <2>1. Exists(j)' /\ Cardinality({i \in Call : Before(j, i)'}) >= MaxCheckpoints
    BY <1>0, <1>3 DEF CommitMeta, TooMany, Types, TypeOK
  <2>2. ~Early(j)'
    BY <1>0, <2>1 DEF Shapes, Early, Exists, NoDir
  <2>3. Number(j)' = dirs'[j].seq
    BY <1>0, <2>1 DEF Types, TypeOK, Shapes, Number, Exists
  <2>4. {i \in Call : Before(j, i)'} = After(j)'
    <3>1. \A i \in Call : dirs'[i].seq \in Nat
      BY <1>0 DEF Types, TypeOK
    <3> QED BY <1>0, <2>1, <2>3, <3>1, ConstantsAssumption DEF Before, After, Exists
  <2> QED BY <2>1, <2>2, <2>4 DEF Superseded
<1> QED BY <1>1, <1>2, <1>3 DEF CallSteps

LEMMA ListedKept ==
  ASSUME SInv, PrunedAreOld, ListedComplete, FiledComplete, [Next]_vars
  PROVE  ListedComplete'
<1> SUFFICES ASSUME NEW k \in Call, Listed(k)' PROVE Complete(k)' \/ Superseded(k)'
  BY DEF ListedComplete
<1>0. Types /\ Shapes /\ Types' /\ Shapes'
  BY BaseKept, ShapesKept DEF SInv, Base
<1>1. Number(k)' > 0
  BY <1>0 DEF Listed, Exists, Shapes, Number
<1>2. ASSUME Listed(k) PROVE Number(k) > 0 /\ (Complete(k) \/ Superseded(k))
  BY <1>0, <1>2 DEF Listed, Exists, Shapes, Number, ListedComplete
<1>3. CASE dirs'[k] = dirs[k]
  BY <1>1, <1>2, <1>3, SupersededKept DEF Listed, Exists, Complete
<1>4. CASE CommitFile(k)
  BY <1>0, <1>4, FileCommitted DEF CommitFile, Committing, Shapes, Listed
<1>5. CASE CommitMeta(k)
  <2>1. SnapFiled(k) \/ Superseded(k)
    BY <1>5 DEF CommitMeta, FiledComplete
  <2>2. SnapFiled(k) => Complete(k)'
    BY <1>0, <1>5, MetaCommitted DEF SnapFiled, Complete
  <2>3. Number(k) > 0
    BY <1>0, <1>5 DEF CommitMeta, Shapes, Committing, Number
  <2> QED BY <1>1, <2>1, <2>2, <2>3, SupersededKept
<1>6. ASSUME NEW p \in Call, k \in todo[p], RemoveFile(p, k) \/ RemoveDir(p, k)
      PROVE  Superseded(k)'
  <2>1. ~RemoveDir(p, k)
    BY <1>0, DirRemoved DEF Listed, NoDir
  <2>2. Listed(k)
    BY <1>0, <1>6, <2>1, FileRemoved DEF Listed, Exists
  <2>3. Superseded(k)
    BY <1>2, <1>6, <2>2 DEF PrunedAreOld
  <2> QED BY <1>1, <1>2, <2>2, <2>3, SupersededKept
<1> QED BY <1>0, <1>3, <1>4, <1>5, <1>6, DirSteps

LEMMA FiledKept == ASSUME SInv, PrunedAreOld, FiledComplete, [Next]_vars PROVE FiledComplete'
<1> SUFFICES ASSUME NEW k \in Call, pc'[k] = "filed" PROVE SnapFiled(k)' \/ Superseded(k)'
  BY DEF FiledComplete
<1>0. Types /\ Shapes /\ Shapes' /\ CallSteps(k)
  BY ShapesKept, CallStepsAre DEF SInv, Base
<1>1. Number(k)' > 0
  BY <1>0 DEF Shapes, Committing, Number
<1>2. CASE CommitFile(k)
  BY <1>0, <1>2, FileCommitted
<1>3. CASE pc[k] = "filed" /\ pending'[k] = pending[k] /\ ~CommitFile(k)
  <2>1. Number(k) > 0 /\ (SnapFiled(k) \/ Superseded(k))
    BY <1>0, <1>3 DEF Shapes, Committing, Number, FiledComplete
  <2>2. CASE dirs'[k] = dirs[k]
    BY <1>1, <1>3, <2>1, <2>2, SupersededKept DEF SnapFiled
  <2>3. ~CommitMeta(k)
    BY <1>0 DEF CommitMeta, Types, TypeOK
  <2>4. ASSUME NEW p \in Call, k \in todo[p] PROVE Superseded(k)'
    BY <1>1, <2>1, <2>4, SupersededKept DEF PrunedAreOld
  <2> QED BY <1>0, <1>3, <2>2, <2>3, <2>4, DirSteps
<1> QED BY <1>0, <1>2, <1>3 DEF CallSteps

LEMMA Invariance == Spec => []IInv
<1>1. Init => IInv
  <2> SUFFICES ASSUME Init PROVE IInv
    OBVIOUS
  <2>1. \A k \in Call : /\ pc[k] = "unused" /\ dirs[k] = NoDir /\ todo[k] = {}
                        /\ ~Committing(k) /\ Number(k) = 0 /\ ~Listed(k)
    BY DEF Init, Committing, Number, Listed, Exists, NoDir
  <2> QED
    BY <2>1, InitTyped DEF IInv, Shapes, Races, PrunedAreOld, ListedComplete, FiledComplete,
                           Committing
<1>2. IInv /\ [Next]_vars => IInv'
  BY BaseKept, ShapesKept, RacesKept, PrunedKept, ListedKept, FiledKept DEF IInv, SInv, Base
<1> QED BY <1>1, <1>2, PTL DEF Spec

\* Checkpoints with the same id are those of commits that raced, whatever crashes
\* and prunings left behind: a number is above all that directories have.
THEOREM IdsAreUnique == Spec => []IdsUnique
<1>1. IInv => IdsUnique
  BY DirNumber DEF IInv, Races, IdsUnique, Exists
<1> QED BY <1>1, Invariance, PTL

\* A checkpoint among the newest can be restored, whatever was interrupted and
\* whoever else commits or prunes: meta.json comes after the snapshot, and what is
\* pruned, or half pruned, is too old and stays so.
THEOREM NewestAreComplete == Spec => []NewestComplete
<1>1. ASSUME IInv PROVE NewestComplete
  <2> SUFFICES ASSUME NEW k \in Call, Listed(k),
                      Cardinality({j \in Call : Before(k, j)}) < MaxCheckpoints
               PROVE  Complete(k)
    BY DEF NewestComplete, Complete
  <2>1. Number(k) = dirs[k].seq /\ \A j \in Call : dirs[j].seq \in Nat
    BY <1>1, DirNumber, NumberTyped DEF IInv, Listed
  <2>2. {j \in Call : Before(k, j)} = After(k)
    <3>1. dirs[k].seq > 0 /\ dirs[k].seq \in Nat
      BY <2>1 DEF Exists, Listed
    <3>2. ASSUME NEW j \in Call PROVE Before(k, j) <=> j \in After(k)
      <4>1. dirs[j].seq \in Nat /\ j \in Nat /\ k \in Nat
        BY <2>1, ConstantsAssumption
      <4> QED BY <2>1, <3>1, <4>1 DEF Before, After, Exists
    <3> QED BY <3>2 DEF After
  <2>3. ~Superseded(k)
    <3>1. Cardinality(After(k)) \in Nat /\ MaxCheckpoints \in Nat
      BY AfterFinite, FS_CardinalityType, ConstantsAssumption
    <3> QED BY <2>2, <3>1 DEF Superseded
  <2> QED BY <1>1, <2>3 DEF IInv, ListedComplete
<1> QED BY <1>1, Invariance, PTL

=============================================================================
