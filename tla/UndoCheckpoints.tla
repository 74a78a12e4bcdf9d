--------------------------- MODULE UndoCheckpoints ---------------------------
(***************************************************************************)
(* Undo checkpoints of one session (undo-checkpoints.ts and the effects    *)
(* around a write tool, undo-checkpoints-effects.ts).  Before a write tool *)
(* runs its file is captured; after it has run, and its formatter, the     *)
(* capture becomes a directory <seq>_<toolCallId>: the snapshot first,     *)
(* meta.json last, then the oldest directories are pruned.  undo-restore   *)
(* verifies that the file is still as the call left it and puts the        *)
(* snapshot back.  The process may die, or a file operation fail, between  *)
(* any two steps.  Calls may overlap: an agent nobody reads any more goes  *)
(* on beside the next one, and two connections may share a session.        *)
(*                                                                         *)
(* The tools that are captured name one path each, so a checkpoint has one *)
(* file.  A file is its content; a hash identifies a content.  Small       *)
(* contents are stored, Large ones only hashed, others neither.  The       *)
(* snapshot of what a call left behind (after/) is read by nobody and left *)
(* out.  One restore is followed; to it, a second is a write like others.  *)
(***************************************************************************)
EXTENDS Integers, FiniteSets, FiniteSetsExt

CONSTANTS
    Path,           \* workspace files
    Small,          \* contents up to UNDO_CHECKPOINT_MAX_CONTENT_BYTES
    Large,          \* contents up to UNDO_CHECKPOINT_MAX_HASH_BYTES
    Huge,           \* contents beyond
    Absent,         \* no such file, snapshot or record
    Call,           \* tool calls, each used once, numbered as their ids sort
    MaxCheckpoints, \* maxCheckpoints
    MaxOpen,        \* bound: calls and restores under way at a time
    MaxEdits        \* bound: changes by others

ASSUME ConstantsAssumption ==
    /\ MaxCheckpoints \in Nat \ {0} /\ MaxOpen \in Nat /\ MaxEdits \in Nat
    /\ Call \subseteq Nat /\ IsFiniteSet(Call)
    /\ Absent \notin Small \cup Large \cup Huge

VARIABLES
    file,       \* the workspace
    dirs,       \* the checkpoint directory of each call
    pc,         \* where each call is
    pending,    \* pendingUndo: what was captured for it, then the record for meta.json
    seqNo,      \* the sequence number it took
    todo,       \* the directories it has still to prune
    restore,    \* the restore under way: its checkpoint and the record it verified
    touched,    \* history: the restore's file was changed since it was verified
    edits,      \* how many changes others have made
    raced       \* history: calls that took a number while another had one and no directory

vars == <<file, dirs, pc, pending, seqNo, todo, restore, touched, raced, edits>>

Content == Small \cup Large \cup Huge
State == Content \cup {Absent}
Captured == [path : Path, before : State]
FileRecord == [path : Path, before : State, after : State]
NoDir == [seq |-> 0, snap |-> Absent, meta |-> Absent]
Idle == [on |-> FALSE, from |-> Absent, of |-> Absent]

Stored(c) == c \in Small
Hashed(c) == c \in Small \cup Large
Exists(k) == dirs[k].seq > 0
Listed(k) == Exists(k) /\ dirs[k].meta # Absent
Active == {k \in Call : pc[k] \notin {"unused", "over"}}
Open == Cardinality(Active) + (IF restore.on THEN 1 ELSE 0)

TypeOK ==
    /\ file \in [Path -> State]
    /\ dirs \in [Call -> [seq : Nat, snap : Small \cup {Absent}, meta : FileRecord \cup {Absent}]]
    /\ pc \in [Call -> {"unused", "running", "written", "numbered", "filed", "pruning", "over"}]
    /\ pending \in [Call -> Captured \cup FileRecord \cup {Absent}]
    /\ seqNo \in [Call -> Nat] /\ todo \in [Call -> SUBSET Call]
    /\ restore \in [on : {TRUE}, from : Call, of : FileRecord] \cup {Idle}
    /\ touched \in BOOLEAN /\ raced \subseteq Call /\ edits \in Nat

Init ==
    /\ file \in [Path -> Small \cup {Absent}]
    /\ dirs = [k \in Call |-> NoDir]
    /\ pc = [k \in Call |-> "unused"]
    /\ pending = [k \in Call |-> Absent]
    /\ seqNo = [k \in Call |-> 0] /\ todo = [k \in Call |-> {}]
    /\ restore = Idle /\ touched = FALSE /\ raced = {} /\ edits = 0

\* Somebody other than the restore writes, or removes, a file.
Put(p, c) ==
    /\ file' = [file EXCEPT ![p] = c]
    /\ touched' = IF restore.on /\ restore.of.path = p THEN TRUE ELSE touched

\* What a call that is over had in hand is gone.
Forget(K) ==
    /\ pc' = [k \in Call |-> IF k \in K THEN "over" ELSE pc[k]]
    /\ pending' = [k \in Call |-> IF k \in K THEN Absent ELSE pending[k]]
    /\ seqNo' = [k \in Call |-> IF k \in K THEN 0 ELSE seqNo[k]]
    /\ todo' = [k \in Call |-> IF k \in K THEN {} ELSE todo[k]]

-----------------------------------------------------------------------------
(* A write tool and its checkpoint *)

\* onBeforeToolAsync: captureUndoBefore of the path among the arguments.
Capture(k, p) ==
    /\ pc[k] = "unused" /\ Open < MaxOpen
    /\ pc' = [pc EXCEPT ![k] = "running"]
    /\ pending' = [pending EXCEPT ![k] = [path |-> p, before |-> file[p]]]
    /\ UNCHANGED <<file, dirs, seqNo, todo, restore, touched, raced, edits>>

\* file-edit, file-create or code-edit writes its file, or fails after it has (or
\* before: CallFails); the capture of a call that failed is dropped.
ToolRuns(k, c) ==
    /\ pc[k] = "running" /\ Put(pending[k].path, c)
    /\ \/ pc' = [pc EXCEPT ![k] = "written"] /\ UNCHANGED <<pending, seqNo, todo>>
       \/ Forget({k})
    /\ UNCHANGED <<dirs, restore, raced, edits>>

\* Write tools of which nothing is captured: file-delete, whose argument is path
\* where the effects look for paths, and code-edit of a directory.
Uncaptured(p, c) ==
    /\ edits < MaxEdits /\ edits' = edits + 1
    /\ file[p] # Absent /\ Put(p, c)
    /\ UNCHANGED <<dirs, pc, pending, seqNo, todo, restore, raced>>

\* The lifecycle's effects come before the checkpoint's: the formatter may
\* rewrite what the tool has written.
Format(k, c) ==
    /\ pc[k] = "written" /\ file[pending[k].path] # Absent /\ Put(pending[k].path, c)
    /\ UNCHANGED <<dirs, pc, pending, seqNo, todo, restore, raced, edits>>

\* nextSequence: one more than the highest number there is.
NextSequenceListed == 1 + Max({0} \cup {dirs[j].seq : j \in {i \in Call : Listed(i)}})
NextSequence == 1 + Max({0} \cup {dirs[j].seq : j \in Call})

\* commitUndoCheckpoint reads the directory for the next sequence number ...
TakeSequence(k) ==
    LET unseen == {j \in Call : pc[j] \in {"numbered", "filed"} /\ ~Exists(j)}
    IN  /\ pc[k] = "written"
        /\ pc' = [pc EXCEPT ![k] = "numbered"]
        /\ seqNo' = [seqNo EXCEPT ![k] = NextSequence]
        /\ raced' = IF unseen = {} THEN raced ELSE raced \cup unseen \cup {k}
        /\ UNCHANGED <<file, dirs, pending, todo, restore, touched, edits>>

\* ... looks at the file and stores the snapshots there are to store, which makes
\* the directory ...
CommitFile(k) ==
    LET b == pending[k].before
        a == file[pending[k].path]
    IN  /\ pc[k] = "numbered"
        /\ pc' = [pc EXCEPT ![k] = "filed"]
        /\ pending' = [pending EXCEPT ![k] = [path |-> @.path, before |-> b, after |-> a]]
        /\ dirs' = [dirs EXCEPT ![k] =
                      [seq |-> IF Stored(b) \/ Stored(a) THEN seqNo[k] ELSE @.seq,
                       snap |-> IF Stored(b) THEN b ELSE @.snap,
                       meta |-> @.meta]]
        /\ UNCHANGED <<file, seqNo, todo, restore, touched, raced, edits>>

\* The names of directories sort by number, and then by call.
Before(i, j) == dirs[i].seq < dirs[j].seq \/ (dirs[i].seq = dirs[j].seq /\ i < j)

TooManyEarly(newer) == newer + 1 >= MaxCheckpoints
TooMany(newer) == newer >= MaxCheckpoints

\* ... writes meta.json, and sees which directories are too many.
CommitMeta(k) ==
    /\ pc[k] = "filed"
    /\ pc' = [pc EXCEPT ![k] = "pruning"]
    /\ dirs' = [dirs EXCEPT ![k] = [@ EXCEPT !.seq = seqNo[k], !.meta = pending[k]]]
    /\ todo' = [todo EXCEPT ![k] =
                  {j \in Call : /\ Exists(j)'
                                /\ TooMany(Cardinality({i \in Call : Before(j, i)'}))}]
    /\ UNCHANGED <<file, pending, seqNo, restore, touched, raced, edits>>

\* pruneOldCheckpoints removes them, oldest first, each file by file.
Prunes(k, j) ==
    /\ pc[k] = "pruning" /\ j \in todo[k]
    /\ \A i \in todo[k] \ {j} : Before(j, i)

RemoveFile(k, j) ==
    /\ Prunes(k, j)
    /\ \/ dirs[j].meta # Absent /\ dirs' = [dirs EXCEPT ![j] = [@ EXCEPT !.meta = Absent]]
       \/ dirs[j].snap # Absent /\ dirs' = [dirs EXCEPT ![j] = [@ EXCEPT !.snap = Absent]]
    /\ UNCHANGED <<file, pc, pending, seqNo, todo, restore, touched, raced, edits>>

RemoveDir(k, j) ==
    /\ Prunes(k, j)
    /\ dirs' = [dirs EXCEPT ![j] = NoDir]
    /\ todo' = [todo EXCEPT ![k] = @ \ {j}]
    /\ UNCHANGED <<file, pc, pending, seqNo, restore, touched, raced, edits>>

CommitDone(k) ==
    /\ pc[k] = "pruning" /\ todo[k] = {}
    /\ Forget({k})
    /\ UNCHANGED <<file, dirs, restore, touched, raced, edits>>

\* A file operation throws, or the turn ends before the effects.
CallFails(k) ==
    /\ k \in Active /\ Forget({k})
    /\ UNCHANGED <<file, dirs, restore, touched, raced, edits>>

-----------------------------------------------------------------------------
(* undo-restore *)

\* The file is what the call left, which a hash must be able to tell.
AsLeftOrThere(f) == (f.after = Absent) = (file[f.path] = Absent)
AsLeft(f) ==
    IF f.after = Absent
    THEN file[f.path] = Absent
    ELSE Hashed(f.after) /\ file[f.path] = f.after

\* The file can be put back: it is as left, and its snapshot was stored.
Restorable(f) == AsLeft(f) /\ (f.before = Absent \/ Stored(f.before))

\* The wanted file is verified before it is written; a conflict refuses.
RestoreBegin(k) ==
    /\ Listed(k) /\ ~restore.on /\ Open < MaxOpen
    /\ Restorable(dirs[k].meta)
    /\ restore' = [on |-> TRUE, from |-> k, of |-> dirs[k].meta] /\ touched' = FALSE
    /\ UNCHANGED <<file, dirs, pc, pending, seqNo, todo, raced, edits>>

\* It is put back from its snapshot, or removed if the call had created it.
RestoreFile ==
    /\ restore.on
    /\ restore.of.before = Absent \/ dirs[restore.from].snap = restore.of.before
    /\ file' = [file EXCEPT ![restore.of.path] = restore.of.before]
    /\ restore' = Idle /\ touched' = FALSE
    /\ UNCHANGED <<dirs, pc, pending, seqNo, todo, raced, edits>>

\* Without the snapshot, or when a file operation fails, it throws.
RestoreFails ==
    /\ restore.on /\ restore' = Idle /\ touched' = FALSE
    /\ UNCHANGED <<file, dirs, pc, pending, seqNo, todo, raced, edits>>

-----------------------------------------------------------------------------
\* The process dies: what was under way is over, and what is on disk stays.
Crash ==
    /\ Active # {} \/ restore.on
    /\ Forget(Active)
    /\ restore' = Idle /\ touched' = FALSE
    /\ UNCHANGED <<file, dirs, raced, edits>>

\* The user, or another process, changes a file.
UserEdits(p, c) ==
    /\ edits < MaxEdits /\ edits' = edits + 1
    /\ file[p] # c /\ Put(p, c)
    /\ UNCHANGED <<dirs, pc, pending, seqNo, todo, restore, raced>>

Write(k) ==
    \/ \E p \in Path : Capture(k, p)
    \/ \E c \in Content : ToolRuns(k, c) \/ Format(k, c)
Commit(k) == TakeSequence(k) \/ CommitFile(k) \/ CommitMeta(k) \/ CommitDone(k) \/ CallFails(k)
Prune(k) == \E j \in Call : RemoveFile(k, j) \/ RemoveDir(k, j)
Others == \E p \in Path, c \in State : Uncaptured(p, c) \/ UserEdits(p, c)

Next ==
    \/ \E k \in Call : Write(k) \/ Commit(k) \/ Prune(k) \/ RestoreBegin(k)
    \/ RestoreFile \/ RestoreFails \/ Crash \/ Others

Spec == Init /\ [][Next]_vars

-----------------------------------------------------------------------------
(* Properties *)

\* An id names one checkpoint, whatever crashes and prunings left behind, unless
\* two commits raced: each took its number before the other's directory was
\* there (nextSequence takes it from the directory, without a lock).
IdsUnique ==
    \A i, j \in Call :
        Exists(i) /\ Exists(j) /\ i # j /\ dirs[i].seq = dirs[j].seq => {i, j} \subseteq raced

\* A checkpoint that undo-list shows, and that is among the newest ones, has the
\* snapshot its meta.json promises: no crash, error or other call in a commit or
\* in a pruning leaves one that fails in the restore.
NewestComplete ==
    \A k \in Call :
        Listed(k) /\ Cardinality({j \in Call : Before(k, j)}) < MaxCheckpoints
        => (Stored(dirs[k].meta.before) => dirs[k].snap = dirs[k].meta.before)

\* A restore overwrites nothing but what the call had left there: neither the
\* user's edits nor the work of later calls.  (What changes after the file was
\* verified is out of its sight.)
RestoreSparesOthers ==
    [][RestoreFile /\ ~touched => file[restore.of.path] = restore.of.after]_vars

-----------------------------------------------------------------------------
(* Not kept (README, section 4) *)

\* No two checkpoints share an id.  Two that raced do, and undo-restore takes the
\* first directory with the number.
IdsAlwaysUnique ==
    \A i, j \in Call : Exists(i) /\ Exists(j) /\ i # j => dirs[i].seq # dirs[j].seq

\* A restore never overwrites another's work.  It does what comes between its look
\* at the file and its write.
RestoreSparesAll == [][RestoreFile => file[restore.of.path] = restore.of.after]_vars

=============================================================================
