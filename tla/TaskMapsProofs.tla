--------------------------- MODULE TaskMapsProofs ---------------------------
(***************************************************************************)
(* Proofs about the two in-memory maps of the daemon that hold tasks.      *)
(*                                                                         *)
(* TaskQueue: memory commits that share a key never overlap, and the       *)
(* promise chains implement the order of KeyedJobs (its safety part), for  *)
(* every set of keys and any number of commits.                            *)
(*                                                                         *)
(* TaskRegistry (whose specification is RegistrySpec): the store evicts    *)
(* the oldest finished records, as many as it must, and so implements      *)
(* TaskContract, for every set of ids and every size of the store.         *)
(***************************************************************************)
EXTENDS TaskQueue, TaskRegistry, FiniteSetTheorems, WellFoundedInduction, TLAPS

(***************************************************************************)
(* How the four handlers change the sequences, in terms of their members.  *)
(***************************************************************************)
LEMMA Members ==
    ASSUME TypeOK
    PROVE  /\ Len(keysOf) \in Nat /\ Job = 1..Len(keysOf)
           /\ DOMAIN phase = Job /\ DOMAIN waitsFor = Job
           /\ \A j \in Job : /\ keysOf[j] \in SUBSET Key
                             /\ waitsFor[j] \in SUBSET (1..MaxJobs)
                             /\ phase[j] \in Phases
           /\ \A k \in Key : queueByKey[k] \in Job \/ queueByKey[k] = NoJob
  BY DEF TypeOK, Job

LEMMA PhaseStep ==
    ASSUME TypeOK, NEW j \in Job, NEW p \in Phases, phase' = [phase EXCEPT ![j] = p]
    PROVE  /\ phase' \in Seq(Phases) /\ Len(phase') = Len(phase)
           /\ phase'[j] = p
           /\ \A i \in Job \ {j} : phase'[i] = phase[i]
  BY Members DEF TypeOK

LEMMA EnqueueStep ==
    ASSUME TypeOK, NEW keys \in SUBSET Key, EnqueueMany(keys)
    PROVE  LET n == Len(keysOf) + 1
           IN  /\ Job' = Job \cup {n} /\ n \notin Job /\ \A i \in Job : i < n
               /\ \A i \in Job : /\ keysOf'[i] = keysOf[i]
                                 /\ waitsFor'[i] = waitsFor[i]
                                 /\ phase'[i] = phase[i]
               /\ keysOf'[n] = keys /\ waitsFor'[n] = Awaited(keys) /\ phase'[n] = "pending"
               /\ \A k \in Key : queueByKey'[k] = IF k \in keys THEN n ELSE queueByKey[k]
               /\ TypeOK'
  <1> DEFINE n == Len(keysOf) + 1
  <1>1. /\ n <= MaxJobs
        /\ keysOf' = Append(keysOf, keys)
        /\ waitsFor' = Append(waitsFor, Awaited(keys))
        /\ phase' = Append(phase, "pending")
        /\ queueByKey' = [k \in Key |-> IF k \in keys THEN n ELSE queueByKey[k]]
    BY DEF EnqueueMany
  <1>2. /\ Len(keysOf) \in Nat /\ Job = 1..Len(keysOf)
        /\ keysOf \in Seq(SUBSET Key) /\ phase \in Seq(Phases) /\ Len(phase) = Len(keysOf)
        /\ waitsFor \in Seq(SUBSET (1..MaxJobs)) /\ Len(waitsFor) = Len(keysOf)
    BY Members DEF TypeOK
  <1>3. Awaited(keys) \in SUBSET (1..MaxJobs)
    <2>1. \A k \in keys : queueByKey[k] \in Job \/ queueByKey[k] = NoJob
      BY Members
    <2>2. Job \subseteq 1..MaxJobs
      BY <1>2, MaxJobsAssumption DEF TypeOK
    <2> QED
      BY <2>1, <2>2 DEF Awaited
  <1>4. "pending" \in Phases
    BY DEF Phases
  <1>5. keysOf' \in Seq(SUBSET Key) /\ Len(keysOf') = n /\ Job' = 1..n
    BY <1>1, <1>2 DEF Job
  <1>6. waitsFor' \in Seq(SUBSET (1..MaxJobs)) /\ Len(waitsFor') = n
    BY <1>1, <1>2, <1>3
  <1>7. phase' \in Seq(Phases) /\ Len(phase') = n
    BY <1>1, <1>2, <1>4
  <1>8. Job' = Job \cup {n} /\ n \notin Job /\ \A i \in Job : i < n
    BY <1>2, <1>5
  <1>9. queueByKey' \in [Key -> Job' \cup {NoJob}]
    BY <1>1, <1>8, Members
  <1>10. TypeOK'
    BY <1>1, <1>5, <1>6, <1>7, <1>9 DEF TypeOK
  <1> QED
    BY <1>1, <1>2, <1>8, <1>10

(***************************************************************************)
(* Every action preserves the invariant of the promise chains.             *)
(***************************************************************************)
LEMMA EnqueueChain ==
    ASSUME ChainInv, NEW keys \in SUBSET Key, EnqueueMany(keys)
    PROVE  ChainInv'
  <1> DEFINE n == Len(keysOf) + 1
  <1>1. /\ Job' = Job \cup {n} /\ n \notin Job /\ \A i \in Job : i < n
        /\ \A i \in Job : /\ keysOf'[i] = keysOf[i]
                          /\ waitsFor'[i] = waitsFor[i]
                          /\ phase'[i] = phase[i]
        /\ keysOf'[n] = keys /\ waitsFor'[n] = Awaited(keys) /\ phase'[n] = "pending"
        /\ \A k \in Key : queueByKey'[k] = IF k \in keys THEN n ELSE queueByKey[k]
        /\ TypeOK'
    BY EnqueueStep DEF ChainInv
  <1>2. /\ Job = 1..Len(keysOf) /\ Len(keysOf) \in Nat
        /\ \A i \in Job : keysOf[i] \in SUBSET Key /\ waitsFor[i] \in SUBSET (1..MaxJobs)
        /\ \A k \in Key : queueByKey[k] \in Job \/ queueByKey[k] = NoJob
    BY Members DEF ChainInv
  <1> HIDE DEF n
  <1>3. \A m \in Awaited(keys) : m \in Job
    BY <1>2 DEF Awaited
  <1>4. \A i \in Job : Settled(i)' <=> Settled(i)
    BY <1>1 DEF Settled
  <1>5. WaitsEarlier'
    BY <1>1, <1>3 DEF ChainInv, WaitsEarlier
  <1>6. WaitsReachBack'
    <2> SUFFICES ASSUME NEW i \in Job', NEW j \in Job', i < j,
                        NEW k \in keysOf'[i] \cap keysOf'[j]
                 PROVE  Settled(i)' \/ \E m \in waitsFor'[j] : i <= m /\ k \in keysOf'[m]
      BY DEF WaitsReachBack
    <2>1. i \in Job
      <3>1. i # n
        BY <1>1, <1>2 DEF n
      <3> QED
        BY <3>1, <1>1
    <2>2. CASE j = n
      <3>1. k \in keysOf[i] /\ k \in keys /\ k \in Key
        BY <2>1, <2>2, <1>1
      <3>2. Settled(i) \/ (i <= queueByKey[k] /\ k \in keysOf[queueByKey[k]])
        BY <2>1, <3>1 DEF ChainInv, MapReachesBack
      <3>3. CASE Settled(i)
        BY <3>3, <2>1, <1>4
      <3>4. CASE i <= queueByKey[k] /\ k \in keysOf[queueByKey[k]]
        <4>1. queueByKey[k] \in Job
          BY <1>2, <2>1, <3>1, <3>4 DEF NoJob
        <4>2. queueByKey[k] \in Awaited(keys)
          BY <1>2, <3>1, <4>1 DEF Awaited, NoJob
        <4> QED
          BY <4>1, <4>2, <3>4, <2>2, <1>1
      <3> QED
        BY <3>2, <3>3, <3>4
    <2>3. CASE j \in Job
      <3>1. Settled(i) \/ \E m \in waitsFor[j] : i <= m /\ k \in keysOf[m]
        BY <2>1, <2>3, <1>1 DEF ChainInv, WaitsReachBack
      <3>2. \A m \in waitsFor[j] : m \in Job
        BY <2>3, <1>2 DEF ChainInv, WaitsEarlier
      <3> QED
        BY <3>1, <3>2, <2>1, <2>3, <1>1, <1>4
    <2> QED
      BY <2>2, <2>3, <1>1
  <1>7. MapReachesBack'
    <2> SUFFICES ASSUME NEW i \in Job', NEW k \in keysOf'[i]
                 PROVE  Settled(i)' \/ (i <= queueByKey'[k] /\ k \in keysOf'[queueByKey'[k]])
      BY DEF MapReachesBack
    <2>1. k \in Key /\ i \in 1..n /\ n \in Nat
      BY <1>1, <1>2 DEF n
    <2>2. CASE k \in keys
      BY <2>1, <2>2, <1>1
    <2>3. CASE k \notin keys
      <3>1. i \in Job /\ k \in keysOf[i]
        BY <2>3, <1>1
      <3>2. Settled(i) \/ (i <= queueByKey[k] /\ k \in keysOf[queueByKey[k]])
        BY <3>1 DEF ChainInv, MapReachesBack
      <3>3. queueByKey'[k] = queueByKey[k]
        BY <2>1, <2>3, <1>1
      <3>4. queueByKey[k] \in Job \/ ~(i <= queueByKey[k])
        BY <1>2, <2>1, <3>1 DEF NoJob
      <3> QED
        BY <3>1, <3>2, <3>3, <3>4, <1>1, <1>4
    <2> QED
      BY <2>2, <2>3
  <1>8. StartedInOrder'
    <2> SUFFICES ASSUME NEW i \in Job', NEW j \in Job', i < j, Share(i, j)',
                        phase'[j] # "pending"
                 PROVE  Settled(i)'
      BY DEF StartedInOrder
    <2>1. j \in Job /\ i \in Job
      BY <1>1, <1>2 DEF n
    <2> QED
      BY <2>1, <1>1, <1>4 DEF ChainInv, StartedInOrder, Share
  <1> QED
    BY <1>1, <1>5, <1>6, <1>7, <1>8 DEF ChainInv

\* Who waits for the last job of each key waits for all the others.
LEMMA WaitsReachAll ==
    ASSUME ChainInv, NEW j \in Job, \A m \in waitsFor[j] : Settled(m)
    PROVE  \A i \in Job : i < j /\ Share(i, j) => Settled(i)
  <1> SUFFICES ASSUME NEW i \in Job, i < j, Share(i, j)
               PROVE  Settled(i)
    OBVIOUS
  <1>1. Job = 1..Len(keysOf) /\ Len(keysOf) \in Nat /\ waitsFor[j] \in SUBSET (1..MaxJobs)
    BY Members DEF ChainInv
  <1>2. PICK k \in keysOf[i] \cap keysOf[j] : TRUE
    BY DEF Share
  <1>3. Settled(i) \/ \E m \in waitsFor[j] : i <= m /\ k \in keysOf[m]
    BY <1>2 DEF ChainInv, WaitsReachBack
  <1>4. ASSUME NEW m \in waitsFor[j], i <= m, k \in keysOf[m], m # i
        PROVE  Settled(i)
    <2>1. m \in Job /\ Settled(m)
      BY <1>1 DEF ChainInv, WaitsEarlier
    <2>2. i < m /\ Share(i, m) /\ phase[m] # "pending"
      BY <1>1, <1>2, <1>4, <2>1 DEF Share, Settled, Outcomes
    <2> QED
      BY <2>1, <2>2 DEF ChainInv, StartedInOrder
  <1> QED
    BY <1>3, <1>4

LEMMA StartChain ==
    ASSUME ChainInv, NEW j \in Job, Start(j)
    PROVE  ChainInv' /\ \A i \in 1..(j - 1) : Share(i, j) => Settled(i)
  <1>1. /\ phase[j] = "pending" /\ phase' = [phase EXCEPT ![j] = "running"]
        /\ \A i \in waitsFor[j] : Settled(i)
        /\ UNCHANGED <<keysOf, waitsFor, queueByKey>>
    BY DEF Start
  <1>2. TypeOK /\ "running" \in Phases
    BY DEF ChainInv, Phases
  <1>3. /\ phase' \in Seq(Phases) /\ Len(phase') = Len(phase) /\ phase'[j] = "running"
        /\ \A i \in Job \ {j} : phase'[i] = phase[i]
    BY <1>1, <1>2, PhaseStep
  <1>4. /\ Job = 1..Len(keysOf) /\ Len(keysOf) \in Nat /\ Job' = Job
        /\ \A i \in Job : waitsFor[i] \in SUBSET (1..MaxJobs)
    BY <1>1, <1>2, Members DEF Job
  <1>5. TypeOK'
    BY <1>1, <1>2, <1>3, <1>4 DEF TypeOK
  <1>6. \A i \in Job : Settled(i) <=> Settled(i)'
    BY <1>1, <1>3, <1>4 DEF Settled, Outcomes
  <1>7. \A i \in Job : i < j /\ Share(i, j) => Settled(i)
    BY <1>1, WaitsReachAll
  <1>8. StartedInOrder'
    <2> SUFFICES ASSUME NEW i \in Job, NEW l \in Job, i < l, Share(i, l), phase'[l] # "pending"
                 PROVE  Settled(i)
      BY <1>1, <1>4, <1>6 DEF StartedInOrder, Share
    <2> QED
      BY <1>3, <1>7 DEF ChainInv, StartedInOrder
  <1>9. WaitsEarlier' /\ WaitsReachBack' /\ MapReachesBack'
    BY <1>1, <1>4, <1>6 DEF ChainInv, WaitsEarlier, WaitsReachBack, MapReachesBack
  <1>10. \A i \in 1..(j - 1) : i \in Job /\ i < j
    BY <1>4
  <1> QED
    BY <1>5, <1>7, <1>8, <1>9, <1>10 DEF ChainInv

LEMMA FinishChain ==
    ASSUME ChainInv, NEW j \in Job, NEW outcome \in Outcomes, Finish(j, outcome)
    PROVE  ChainInv'
  <1>1. /\ phase[j] = "running" /\ phase' = [phase EXCEPT ![j] = outcome]
        /\ UNCHANGED <<keysOf, waitsFor, queueByKey>>
    BY DEF Finish
  <1>2. TypeOK /\ outcome \in Phases /\ outcome # "pending"
    BY DEF ChainInv, Phases, Outcomes
  <1>3. /\ phase' \in Seq(Phases) /\ Len(phase') = Len(phase) /\ phase'[j] = outcome
        /\ \A i \in Job \ {j} : phase'[i] = phase[i]
    BY <1>1, <1>2, PhaseStep
  <1>4. Job' = Job
    BY <1>1 DEF Job
  <1>5. TypeOK'
    BY <1>1, <1>2, <1>3, <1>4 DEF TypeOK
  <1>6. \A i \in Job : Settled(i) => Settled(i)'
    BY <1>1, <1>3 DEF Settled, Outcomes
  <1>7. \A i \in Job : phase'[i] # "pending" => phase[i] # "pending"
    BY <1>1, <1>3
  <1>8. WaitsEarlier' /\ WaitsReachBack' /\ MapReachesBack'
    BY <1>1, <1>4, <1>6 DEF ChainInv, WaitsEarlier, WaitsReachBack, MapReachesBack
  <1>9. StartedInOrder'
    BY <1>1, <1>4, <1>6, <1>7 DEF ChainInv, StartedInOrder, Share
  <1> QED
    BY <1>5, <1>8, <1>9 DEF ChainInv

LEMMA CleanUpChain ==
    ASSUME ChainInv, NEW j \in Job, CleanUp(j)
    PROVE  ChainInv'
  <1>1. /\ phase[j] \in Outcomes /\ phase' = [phase EXCEPT ![j] = "cleaned"]
        /\ queueByKey' = [k \in Key |-> IF k \in Deletes(j) THEN NoJob ELSE queueByKey[k]]
        /\ UNCHANGED <<keysOf, waitsFor>>
    BY DEF CleanUp
  <1>2. TypeOK /\ "cleaned" \in Phases
    BY DEF ChainInv, Phases
  <1>3. /\ phase' \in Seq(Phases) /\ Len(phase') = Len(phase) /\ phase'[j] = "cleaned"
        /\ \A i \in Job \ {j} : phase'[i] = phase[i]
    BY <1>1, <1>2, PhaseStep
  <1>4. /\ Job = 1..Len(keysOf) /\ Len(keysOf) \in Nat /\ Job' = Job
        /\ \A i \in Job : keysOf[i] \in SUBSET Key
        /\ \A k \in Key : queueByKey[k] \in Job \/ queueByKey[k] = NoJob
    BY <1>1, <1>2, Members DEF Job
  <1>5. TypeOK'
    <2>1. queueByKey' \in [Key -> Job' \cup {NoJob}]
      BY <1>1, <1>4
    <2> QED
      BY <1>1, <1>2, <1>3, <1>4, <2>1 DEF TypeOK
  <1>6. \A i \in Job : Settled(i) <=> Settled(i)'
    BY <1>1, <1>3 DEF Settled, Outcomes
  <1>7. \A i \in Job : phase'[i] # "pending" => phase[i] # "pending"
    BY <1>1, <1>3 DEF Outcomes
  <1>8. WaitsEarlier' /\ WaitsReachBack'
    BY <1>1, <1>4, <1>6 DEF ChainInv, WaitsEarlier, WaitsReachBack
  <1>9. StartedInOrder'
    BY <1>1, <1>4, <1>6, <1>7 DEF ChainInv, StartedInOrder, Share
  <1>10. MapReachesBack'
    <2> SUFFICES ASSUME NEW i \in Job, NEW k \in keysOf[i]
                 PROVE  Settled(i) \/ (i <= queueByKey'[k] /\ k \in keysOf[queueByKey'[k]])
      BY <1>1, <1>4, <1>6 DEF MapReachesBack
    <2>1. k \in Key
      BY <1>4
    <2>2. Settled(i) \/ (i <= queueByKey[k] /\ k \in keysOf[queueByKey[k]])
      BY DEF ChainInv, MapReachesBack
    <2>3. CASE k \in Deletes(j)
      <3>1. k \in keysOf[j] /\ queueByKey[k] = j
        BY <2>3 DEF Deletes
      <3>2. Settled(j) /\ phase[j] # "pending"
        BY <1>1 DEF Settled, Outcomes
      <3>3. CASE i = j
        BY <3>2, <3>3
      <3>4. CASE i < j
        BY <3>1, <3>2, <3>4 DEF ChainInv, StartedInOrder, Share
      <3> QED
        BY <2>2, <3>1, <3>3, <3>4, <1>4
    <2>4. CASE k \notin Deletes(j)
      BY <1>1, <2>1, <2>2, <2>4
    <2> QED
      BY <2>3, <2>4
  <1> QED
    BY <1>5, <1>8, <1>9, <1>10 DEF ChainInv

LEMMA InitChain == Init => ChainInv
  BY MaxJobsAssumption
  DEF Init, ChainInv, TypeOK, Job, NoJob, WaitsEarlier, WaitsReachBack, MapReachesBack,
      StartedInOrder

LEMMA NextChain == ChainInv /\ [Next]_vars => ChainInv'
  <1> SUFFICES ASSUME ChainInv, [Next]_vars
               PROVE  ChainInv'
    OBVIOUS
  <1>1. CASE UNCHANGED vars
    BY <1>1 DEF vars, ChainInv, TypeOK, Job, WaitsEarlier, WaitsReachBack, MapReachesBack,
                StartedInOrder, Settled, Share
  <1>2. ASSUME NEW keys \in SUBSET Key, EnqueueMany(keys)
        PROVE  ChainInv'
    BY <1>2, EnqueueChain
  <1>3. ASSUME NEW j \in Job, Start(j) \/ CleanUp(j)
        PROVE  ChainInv'
    BY <1>3, StartChain, CleanUpChain
  <1>4. ASSUME NEW j \in Job, NEW outcome \in Outcomes, Finish(j, outcome)
        PROVE  ChainInv'
    BY <1>4, FinishChain
  <1> QED
    BY <1>1, <1>2, <1>3, <1>4 DEF Next

(***************************************************************************)
(* The invariant holds of the specification.                               *)
(***************************************************************************)
THEOREM ChainsHold == Spec => []ChainInv
  BY InitChain, NextChain, PTL DEF Spec

(***************************************************************************)
(* Two memory commits that share a session, project or user scope never    *)
(* run at the same time, for any keys and any number of commits.           *)
(***************************************************************************)
THEOREM CommitsExclude == Spec => []MutualExclusion
  <1>1. ASSUME ChainInv
        PROVE  MutualExclusion
    <2> SUFFICES ASSUME NEW i \in Job, NEW j \in Job, i # j,
                        phase[i] = "running", phase[j] = "running", Share(i, j)
                 PROVE  FALSE
      BY DEF MutualExclusion
    <2>1. ~Settled(i) /\ ~Settled(j) /\ Share(j, i)
      BY DEF Settled, Outcomes, Share
    <2>2. i < j \/ j < i
      BY <1>1, Members DEF ChainInv
    <2> QED
      BY <1>1, <2>1, <2>2 DEF ChainInv, StartedInOrder
  <1> QED
    BY <1>1, ChainsHold, PTL

(***************************************************************************)
(* The step simulation behind RunsInKeyOrder: every step of the promise    *)
(* chains is a step of KeyedJobs or invisible to it.  In particular a job  *)
(* begins only when all earlier jobs it shares a key with are over, though *)
(* it awaits at most one of them per key.                                  *)
(***************************************************************************)
THEOREM ImplementsKeyOrder == Spec => Jobs!Init /\ [][Jobs!Next]_(Jobs!vars)
  <1> DEFINE st == [j \in Job |-> StatusOf(phase[j])]
  <1>1. Init => Jobs!Init
    BY DEF Init, Jobs!Init, Job
  <1>2. ASSUME ChainInv, [Next]_vars
        PROVE  [Jobs!Next]_(Jobs!vars)
    <2>1. TypeOK
      BY <1>2 DEF ChainInv
    <2>2. Job = 1..Len(keysOf) /\ Len(keysOf) \in Nat /\ Jobs!Job = Job
      BY <2>1, Members DEF Jobs!Job, Job
    <2>3. CASE UNCHANGED vars
      BY <2>3 DEF vars, Jobs!vars, Job
    <2>4. ASSUME NEW keys \in SUBSET Key \ {{}}, EnqueueMany(keys)
          PROVE  Jobs!Next
      <3> DEFINE n == Len(keysOf) + 1
      <3>1. /\ Job' = Job \cup {n} /\ n \notin Job
            /\ \A i \in Job : phase'[i] = phase[i]
            /\ phase'[n] = "pending"
        BY <2>1, <2>4, EnqueueStep
      <3>2. st' = Append(st, "waiting")
        <4>1. st \in Seq({"waiting", "running", "over"}) /\ Len(st) = Len(keysOf)
          BY <2>2 DEF StatusOf
        <4>2. /\ Append(st, "waiting") = [i \in 1..n |-> IF i = n THEN "waiting" ELSE st[i]]
          BY <4>1, <2>2
        <4>3. StatusOf("pending") = "waiting"
          BY DEF StatusOf
        <4>4. st' = [i \in 1..n |-> IF i = n THEN "waiting" ELSE st[i]]
          BY <3>1, <2>2, <4>3
        <4> QED
          BY <4>2, <4>4
      <3>3. Len(keysOf) < MaxJobs /\ keysOf' = Append(keysOf, keys)
        BY <2>1, <2>2, <2>4, MaxJobsAssumption DEF EnqueueMany
      <3>4. Jobs!Submit(keys)
        BY <3>2, <3>3 DEF Jobs!Submit
      <3> QED
        BY <3>4 DEF Jobs!Next
    <2>5. ASSUME NEW j \in Job, NEW p \in Phases, phase' = [phase EXCEPT ![j] = p],
                 keysOf' = keysOf
          PROVE  st' = [st EXCEPT ![j] = StatusOf(p)]
      <3>1. phase'[j] = p /\ \A i \in Job \ {j} : phase'[i] = phase[i]
        BY <2>1, <2>5, PhaseStep
      <3>2. Job' = Job
        BY <2>5 DEF Job
      <3> QED
        BY <3>1, <3>2
    <2>6. ASSUME NEW j \in Job, Start(j)
          PROVE  Jobs!Next
      <3>1. st' = [st EXCEPT ![j] = "running"] /\ st[j] = "waiting"
        BY <2>5, <2>6 DEF Start, Phases, StatusOf
      <3>2. ASSUME NEW i \in 1..(j - 1), keysOf[i] \cap keysOf[j] # {}
            PROVE  st[i] = "over"
        BY <1>2, <2>2, <2>6, <3>2, StartChain DEF Share, Settled, Outcomes, StatusOf
      <3>3. Jobs!Begin(j)
        BY <2>2, <2>6, <3>1, <3>2 DEF Jobs!Begin, Jobs!MayStart, Start
      <3> QED
        BY <2>2, <3>3 DEF Jobs!Next
    <2>7. ASSUME NEW j \in Job, NEW outcome \in Outcomes, Finish(j, outcome)
          PROVE  Jobs!Next
      <3>1. st' = [st EXCEPT ![j] = "over"] /\ st[j] = "running"
        BY <2>5, <2>7 DEF Finish, Outcomes, Phases, StatusOf
      <3>2. Jobs!End(j)
        BY <2>2, <2>7, <3>1 DEF Jobs!End, Finish
      <3> QED
        BY <2>2, <3>2 DEF Jobs!Next
    <2>8. ASSUME NEW j \in Job, CleanUp(j)
          PROVE  UNCHANGED Jobs!vars
      <3>1. st' = [st EXCEPT ![j] = "over"] /\ st[j] = "over"
        BY <2>5, <2>8 DEF CleanUp, Outcomes, Phases, StatusOf
      <3>2. st' = st
        BY <3>1
      <3> QED
        BY <2>8, <3>2 DEF Jobs!vars, CleanUp
    <2> QED
      BY <1>2, <2>3, <2>4, <2>6, <2>7, <2>8 DEF Next
  <1> QED
    BY <1>1, <1>2, ChainsHold, PTL DEF Spec

-----------------------------------------------------------------------------
(***************************************************************************)
(* The map entry of a key in terms of its last job: a job that nobody      *)
(* enqueued for the key after it and that has not been cleaned up.         *)
(***************************************************************************)
Last(k, j) ==
    /\ j \in Job
    /\ k \in keysOf[j]
    /\ phase[j] # "cleaned"
    /\ \A i \in Job : k \in keysOf[i] => i <= j

EntryIsLast ==
    \A k \in Key :
        /\ \A j \in Job : Last(k, j) => queueByKey[k] = j
        /\ (\A j \in Job : ~Last(k, j)) => queueByKey[k] = NoJob

LEMMA EntryIsLastMeans ==
    ASSUME TypeOK, EntryIsLast
    PROVE  MapTracksLast
  <1> SUFFICES ASSUME NEW k \in Key
               PROVE  LET users == {j \in Job : k \in keysOf[j]}
                      IN  IF \E j \in users : phase[j] # "cleaned" /\ \A i \in users : i <= j
                          THEN \A i \in users : i <= queueByKey[k] /\ queueByKey[k] \in users
                          ELSE queueByKey[k] = NoJob
    BY DEF MapTracksLast
  <1> QED
    BY DEF EntryIsLast, Last

LEMMA EnqueueEntry ==
    ASSUME TypeOK, EntryIsLast, NEW keys \in SUBSET Key, EnqueueMany(keys)
    PROVE  EntryIsLast'
  <1>1. PICK n \in Nat :
        /\ Job' = Job \cup {n} /\ n \notin Job /\ \A i \in Job : i < n
        /\ \A i \in Job : keysOf'[i] = keysOf[i] /\ phase'[i] = phase[i]
        /\ keysOf'[n] = keys /\ phase'[n] = "pending"
        /\ \A k \in Key : queueByKey'[k] = IF k \in keys THEN n ELSE queueByKey[k]
    <2>1. Len(keysOf) + 1 \in Nat
      BY Members
    <2> QED
      BY <2>1, EnqueueStep
  <1>2. Job \subseteq Nat
    BY Members
  <1> SUFFICES ASSUME NEW k \in Key
               PROVE  /\ \A j \in Job' : Last(k, j)' => queueByKey'[k] = j
                      /\ (\A j \in Job' : ~Last(k, j)') => queueByKey'[k] = NoJob
    BY DEF EntryIsLast
  <1>3. CASE k \in keys
    <2>1. Last(k, n)'
      BY <1>1, <1>2, <1>3 DEF Last
    <2>2. ASSUME NEW j \in Job', Last(k, j)'
          PROVE  j = n
      BY <1>1, <1>2, <1>3, <2>2 DEF Last
    <2> QED
      BY <1>1, <1>3, <2>1, <2>2
  <1>4. CASE k \notin keys
    <2>1. \A j \in Job : Last(k, j)' <=> Last(k, j)
      BY <1>1, <1>4 DEF Last
    <2>2. ~Last(k, n)'
      BY <1>1, <1>4 DEF Last
    <2> QED
      BY <1>1, <1>4, <2>1, <2>2 DEF EntryIsLast
  <1> QED
    BY <1>3, <1>4

LEMMA CleanUpEntry ==
    ASSUME TypeOK, EntryIsLast, NEW j \in Job, CleanUp(j)
    PROVE  EntryIsLast'
  <1>1. /\ phase[j] \in Outcomes /\ phase' = [phase EXCEPT ![j] = "cleaned"]
        /\ queueByKey' = [k \in Key |-> IF k \in Deletes(j) THEN NoJob ELSE queueByKey[k]]
        /\ keysOf' = keysOf
    BY DEF CleanUp
  <1>2. /\ Job' = Job /\ Job \subseteq Nat /\ NoJob \notin Job
        /\ phase'[j] = "cleaned" /\ \A i \in Job \ {j} : phase'[i] = phase[i]
    BY <1>1, Members, PhaseStep DEF Job, Phases, NoJob
  <1> SUFFICES ASSUME NEW k \in Key
               PROVE  /\ \A i \in Job : Last(k, i)' => queueByKey'[k] = i
                      /\ (\A i \in Job : ~Last(k, i)') => queueByKey'[k] = NoJob
    BY <1>2 DEF EntryIsLast
  <1>3. /\ \A i \in Job \ {j} : Last(k, i)' <=> Last(k, i)
        /\ ~Last(k, j)'
    BY <1>1, <1>2 DEF Last
  <1>4. /\ \A i \in Job : Last(k, i) => queueByKey[k] = i
        /\ (\A i \in Job : ~Last(k, i)) => queueByKey[k] = NoJob
    BY DEF EntryIsLast
  <1>5. phase[j] # "cleaned"
    BY <1>1 DEF Outcomes
  <1>6. CASE k \in Deletes(j)
    <2>1. queueByKey[k] = j /\ queueByKey'[k] = NoJob
      BY <1>1, <1>6 DEF Deletes
    <2>2. \A i \in Job : Last(k, i) => i = j
      BY <1>4, <2>1
    <2> QED
      BY <1>3, <2>1, <2>2
  <1>7. CASE k \notin Deletes(j)
    <2>1. queueByKey'[k] = queueByKey[k]
      BY <1>1, <1>7
    <2>2. ~Last(k, j)
      BY <1>4, <1>7 DEF Last, Deletes
    <2> QED
      BY <1>3, <1>4, <2>1, <2>2
  <1> QED
    BY <1>6, <1>7

LEMMA NextEntry == TypeOK /\ EntryIsLast /\ [Next]_vars => EntryIsLast'
  <1> SUFFICES ASSUME TypeOK, EntryIsLast, [Next]_vars
               PROVE  EntryIsLast'
    OBVIOUS
  <1>1. CASE UNCHANGED vars
    BY <1>1 DEF vars, EntryIsLast, Last, Job
  <1>2. ASSUME NEW j \in Job, NEW p \in Phases \ {"cleaned"}, phase[j] # "cleaned",
               phase' = [phase EXCEPT ![j] = p], UNCHANGED <<keysOf, queueByKey>>
        PROVE  EntryIsLast'
    <2>1. phase'[j] = p /\ \A i \in Job \ {j} : phase'[i] = phase[i]
      BY <1>2, PhaseStep
    <2>2. Job' = Job
      BY <1>2 DEF Job
    <2>3. \A k \in Key, i \in Job : Last(k, i)' <=> Last(k, i)
      BY <1>2, <2>1, <2>2 DEF Last
    <2> QED
      BY <1>2, <2>2, <2>3 DEF EntryIsLast
  <1>3. ASSUME NEW j \in Job, Start(j)
        PROVE  EntryIsLast'
    BY <1>2, <1>3 DEF Start, Phases, Outcomes
  <1>4. ASSUME NEW j \in Job, NEW outcome \in Outcomes, Finish(j, outcome)
        PROVE  EntryIsLast'
    BY <1>2, <1>4 DEF Finish, Phases, Outcomes
  <1> QED
    BY <1>1, <1>3, <1>4, EnqueueEntry, CleanUpEntry DEF Next

LEMMA InitEntry == Init => EntryIsLast
  <1>1. Init => Job = {} /\ \A k \in Key : queueByKey[k] = NoJob
    BY DEF Init, Job
  <1> QED
    BY <1>1 DEF EntryIsLast

(***************************************************************************)
(* The map neither loses nor keeps a job: the clean-up deletes a key only  *)
(* while its own job is the last one there, so a key leads to its last job *)
(* until that one is cleaned up, and to nothing afterwards.                *)
(***************************************************************************)
THEOREM MapIsExact == Spec => []MapTracksLast
  <1>1. Init => EntryIsLast
    BY InitEntry
  <1>2. ChainInv /\ EntryIsLast /\ [Next]_vars => EntryIsLast'
    BY NextEntry DEF ChainInv
  <1>3. ChainInv /\ EntryIsLast => MapTracksLast
    BY EntryIsLastMeans DEF ChainInv
  <1> QED
    BY <1>1, <1>2, <1>3, ChainsHold, PTL DEF Spec

-----------------------------------------------------------------------------
(***************************************************************************)
(* The fairness of KeyedJobs is of Begin, the fairness of TaskQueue of     *)
(* Start: the safety half of RunsInKeyOrder is that the two have the same  *)
(* guard, and that somebody's guard holds while a job is unfinished.       *)
(***************************************************************************)
MayRun(j) == \A m \in waitsFor[j] : Settled(m)

WaitsForSharers == \A j \in Job : \A m \in waitsFor[j] : Share(m, j)

\* A job is held up by its promises exactly while KeyedJobs holds it up: by no
\* job it shares nothing with, and by no job that is over, whatever came of it.
HeldUpExactly == \A j \in Job : MayRun(j) <=> Jobs!MayStart(j)

\* While a job is unfinished, one runs or nothing keeps it from running: jobs
\* whose key sets overlap in a circle do not wait for each other.
SomebodyMoves ==
    (\E j \in Job : ~Settled(j)) =>
        \E j \in Job : phase[j] = "running" \/ (phase[j] = "pending" /\ MayRun(j))

LEMMA EnqueueSharers ==
    ASSUME ChainInv, EntryIsLast, WaitsForSharers, NEW keys \in SUBSET Key, EnqueueMany(keys)
    PROVE  WaitsForSharers'
  <1>1. PICK n \in Nat :
        /\ Job' = Job \cup {n} /\ n \notin Job
        /\ \A i \in Job : keysOf'[i] = keysOf[i] /\ waitsFor'[i] = waitsFor[i]
        /\ keysOf'[n] = keys /\ waitsFor'[n] = Awaited(keys)
    <2>1. Len(keysOf) + 1 \in Nat
      BY Members DEF ChainInv
    <2> QED
      BY <2>1, EnqueueStep DEF ChainInv
  <1>2. \A j \in Job : \A m \in waitsFor[j] : m \in Job
    BY Members DEF ChainInv, WaitsEarlier
  <1>3. ASSUME NEW m \in Awaited(keys)
        PROVE  m \in Job /\ keysOf[m] \cap keys # {}
    <2>1. PICK k \in keys : m = queueByKey[k] /\ m # NoJob
      BY <1>3 DEF Awaited
    <2>2. PICK j \in Job : Last(k, j)
      BY <2>1 DEF EntryIsLast
    <2> QED
      BY <2>1, <2>2 DEF EntryIsLast, Last
  <1> QED
    BY <1>1, <1>2, <1>3 DEF WaitsForSharers, Share

LEMMA NextSharers ==
    ChainInv /\ EntryIsLast /\ WaitsForSharers /\ [Next]_vars => WaitsForSharers'
  <1> SUFFICES ASSUME ChainInv, EntryIsLast, WaitsForSharers, [Next]_vars
               PROVE  WaitsForSharers'
    OBVIOUS
  <1>1. CASE UNCHANGED <<keysOf, waitsFor>>
    BY <1>1 DEF WaitsForSharers, Share, Job
  <1> QED
    BY <1>1, EnqueueSharers DEF Next, Start, Finish, CleanUp, vars

LEMMA GuardsAgree ==
    ASSUME ChainInv, WaitsForSharers, NEW j \in Job
    PROVE  MayRun(j) <=> Jobs!MayStart(j)
  <1>1. Job = 1..Len(keysOf) /\ Len(keysOf) \in Nat /\ waitsFor[j] \in SUBSET (1..MaxJobs)
    BY Members DEF ChainInv
  <1>2. \A i \in Job : StatusOf(phase[i]) = "over" <=> Settled(i)
    BY Members DEF ChainInv, StatusOf, Settled, Outcomes, Phases
  <1>3. Jobs!MayStart(j) <=> \A i \in 1..(j - 1) : Share(i, j) => Settled(i)
    <2> DEFINE st == [i \in Job |-> StatusOf(phase[i])]
    <2>1. \A i \in 1..(j - 1) : i \in Job /\ (st[i] = "over" <=> Settled(i))
      BY <1>1, <1>2
    <2>2. Jobs!MayStart(j) <=> \A i \in 1..(j - 1) : Share(i, j) => st[i] = "over"
      BY DEF Jobs!MayStart, Share
    <2> QED
      BY <2>1, <2>2
  <1>4. MayRun(j) => Jobs!MayStart(j)
    BY <1>1, <1>3, WaitsReachAll DEF MayRun
  <1>5. ASSUME Jobs!MayStart(j), NEW m \in waitsFor[j]
        PROVE  Settled(m)
    BY <1>1, <1>3, <1>5 DEF ChainInv, WaitsEarlier, WaitsForSharers
  <1> QED
    BY <1>4, <1>5 DEF MayRun

\* The earliest unfinished job has nobody to wait for.
LEMMA EarliestMoves == ASSUME ChainInv PROVE SomebodyMoves
  <1> DEFINE R == OpToRel(<, Nat)
             U == {j \in Job : ~Settled(j)}
  <1> SUFFICES ASSUME U # {}
               PROVE  \E j \in Job : phase[j] = "running" \/ (phase[j] = "pending" /\ MayRun(j))
    BY DEF SomebodyMoves
  <1>1. Job = 1..Len(keysOf) /\ Len(keysOf) \in Nat
    BY Members DEF ChainInv
  <1>2. \A x, y \in Nat : x < y => <<x, y>> \in R
    BY DEF OpToRel
  <1>3. PICK j \in U : \A i \in U : ~(<<i, j>> \in R)
    <2>1. IsWellFoundedOn(R, Nat)
      BY NatLessThanWellFounded
    <2>2. U \subseteq Nat
      BY <1>1
    <2> HIDE DEF R, U
    <2> QED
      BY <2>1, <2>2, WFMin
  <1> HIDE DEF R
  <1>4. \A i \in Job : i < j => Settled(i)
    <2>1. \A i \in Job : ~Settled(i) => ~(<<i, j>> \in R)
      BY <1>3
    <2>2. \A i \in Job : i \in Nat /\ j \in Nat
      BY <1>1, <1>3
    <2> QED
      BY <1>2, <2>1, <2>2
  <1>5. phase[j] \in {"pending", "running"}
    BY <1>3, Members DEF ChainInv, Settled, Outcomes, Phases
  <1>6. MayRun(j)
    <2>1. j \in Job /\ waitsFor[j] \in SUBSET (1..MaxJobs)
      BY <1>3, Members DEF ChainInv
    <2>2. \A m \in waitsFor[j] : m < j /\ m \in Job
      BY <1>1, <2>1, MaxJobsAssumption DEF ChainInv, WaitsEarlier
    <2> QED
      BY <1>4, <2>2 DEF MayRun
  <1> QED
    BY <1>3, <1>5, <1>6

(***************************************************************************)
(* A commit of the memory waits for the commits it shares a scope with and *)
(* for no others, and while there is an unfinished one somebody moves:     *)
(* with the fairness of the microtasks that is why every commit runs.      *)
(***************************************************************************)
THEOREM NobodyWaitsInVain == Spec => [](HeldUpExactly /\ SomebodyMoves)
  <1>1. Init => EntryIsLast /\ WaitsForSharers
    BY InitEntry DEF Init, Job, WaitsForSharers
  <1>2. ChainInv /\ EntryIsLast /\ WaitsForSharers /\ [Next]_vars
        => EntryIsLast' /\ WaitsForSharers'
    BY NextEntry, NextSharers DEF ChainInv
  <1>3. ChainInv /\ WaitsForSharers => HeldUpExactly /\ SomebodyMoves
    BY GuardsAgree, EarliestMoves DEF HeldUpExactly
  <1> QED
    BY <1>1, <1>2, <1>3, ChainsHold, PTL DEF Spec

-----------------------------------------------------------------------------
(* The task registry *)

\* before is a strict total order of the tasks in S.
Orders(before, S) ==
    /\ before \subseteq S \X S
    /\ \A t \in S : <<t, t>> \notin before
    /\ \A t, u \in S : t # u => <<t, u>> \in before \/ <<u, t>> \in before
    /\ \A t, u, v \in S : <<t, u>> \in before /\ <<u, v>> \in before => <<t, v>> \in before

\* The store holds finitely many records, whatever ids there are, and createdAt
\* orders them.
RegistryInv ==
    /\ taskState \in [Task -> TaskStates \cup {Absent}]
    /\ IsFiniteSet(Known(taskState))
    /\ Orders(createdBefore, Known(taskState))

\* The records of S older than t.
Older(before, S, t) == {u \in S : <<u, t>> \in before}

-----------------------------------------------------------------------------
LEMMA OrdersSubset ==
  ASSUME NEW before, NEW S, Orders(before, S), NEW T \in SUBSET S
  PROVE  Orders({p \in before : p[1] \in T /\ p[2] \in T}, T)
  BY DEF Orders

\* The newest record goes last.
LEMMA OrdersNewest ==
  ASSUME NEW before, NEW S, Orders(before, S), NEW x, x \notin S
  PROVE  Orders(before \cup {<<u, x>> : u \in S}, S \cup {x})
<1> DEFINE b == before \cup {<<u, x>> : u \in S}
           T == S \cup {x}
<1>1. b \subseteq T \X T
  BY DEF Orders
<1>2. ASSUME NEW t, NEW u
      PROVE  <<t, u>> \in b <=> t \in S /\ (u = x \/ <<t, u>> \in before)
  <2>1. <<t, u>> \in {<<v, x>> : v \in S} <=> t \in S /\ u = x
    OBVIOUS
  <2>2. <<t, u>> \in before => t \in S
    BY DEF Orders
  <2> QED BY <2>1, <2>2
<1> HIDE DEF b
<1>3. \A t \in T : <<t, t>> \notin b
  BY <1>2 DEF Orders
<1>4. \A t, u \in T : t # u => <<t, u>> \in b \/ <<u, t>> \in b
  BY <1>2 DEF Orders
<1>5. ASSUME NEW t \in T, NEW u \in T, NEW v \in T, <<t, u>> \in b, <<u, v>> \in b
      PROVE  <<t, v>> \in b
  BY <1>2, <1>5 DEF Orders
<1> QED BY <1>1, <1>3, <1>4, <1>5 DEF Orders, b

\* An order numbers a finite set, oldest first.
LEMMA Ranking ==
  ASSUME NEW before, NEW S, Orders(before, S), IsFiniteSet(S)
  PROVE  [t \in S |-> Cardinality(Older(before, S, t))] \in Bijection(S, 0 .. Cardinality(S) - 1)
<1> DEFINE rank == [t \in S |-> Cardinality(Older(before, S, t))]
           N == 0 .. Cardinality(S) - 1
<1>1. \A t \in S : Older(before, S, t) \in SUBSET S /\ IsFiniteSet(Older(before, S, t))
                   /\ rank[t] = Cardinality(Older(before, S, t)) /\ rank[t] \in Nat
  BY FS_Subset, FS_CardinalityType DEF Older
<1>2. ASSUME NEW t \in S PROVE rank[t] \in N
  <2>1. t \notin Older(before, S, t)
    BY DEF Orders, Older
  <2>2. rank[t] <= Cardinality(S) /\ rank[t] # Cardinality(S)
    BY <1>1, <2>1, FS_Subset
  <2> QED BY <1>1, <2>2, FS_CardinalityType
<1>3. ASSUME NEW t \in S, NEW u \in S, <<t, u>> \in before PROVE rank[t] < rank[u]
  <2>1. Older(before, S, t) \in SUBSET Older(before, S, u)
    BY <1>3 DEF Orders, Older
  <2>2. t \in Older(before, S, u) /\ t \notin Older(before, S, t)
    BY <1>3 DEF Orders, Older
  <2>3. rank[t] <= rank[u] /\ rank[t] # rank[u]
    BY <1>1, <2>1, <2>2, FS_Subset
  <2> QED BY <1>1, <2>3
<1>4. rank \in Injection(S, N)
  <2>1. rank \in [S -> N]
    BY <1>2
  <2>2. ASSUME NEW t \in S, NEW u \in S, rank[t] = rank[u] PROVE t = u
    <3>1. rank[t] \in Nat /\ rank[u] \in Nat
      BY <1>1
    <3>2. ~(rank[t] < rank[u]) /\ ~(rank[u] < rank[t])
      BY <2>2, <3>1
    <3>3. <<t, u>> \notin before /\ <<u, t>> \notin before
      BY <1>3, <3>2
    <3> QED BY <3>3 DEF Orders
  <2> HIDE DEF rank
  <2> QED BY <2>1, <2>2 DEF Injection, IsInjective
<1>5. IsFiniteSet(N) /\ Cardinality(N) = Cardinality(S)
  <2>1. Cardinality(S) \in Nat
    BY FS_CardinalityType
  <2>2. Cardinality(S) - 1 \in Int /\ 0 \in Int
    BY <2>1
  <2>3. IsFiniteSet(N) /\ Cardinality(N) = IF 0 > Cardinality(S) - 1 THEN 0 ELSE Cardinality(S) - 1 - 0 + 1
    BY <2>2, FS_Interval
  <2> QED BY <2>1, <2>3
<1> HIDE DEF rank, N
<1>6. rank \in Surjection(S, N)
  BY <1>4, <1>5, FS_Injection
<1> QED BY <1>4, <1>6 DEF Bijection, rank, N

\* The oldest n of a finite set are n, or all there are.
LEMMA OldestCount ==
  ASSUME NEW before, NEW S, Orders(before, S), IsFiniteSet(S), NEW n \in Nat
  PROVE  LET V == {t \in S : Cardinality(Older(before, S, t)) < n}
         IN  IsFiniteSet(V) /\ Cardinality(V) = IF n <= Cardinality(S) THEN n ELSE Cardinality(S)
<1> DEFINE rank == [t \in S |-> Cardinality(Older(before, S, t))]
           N == 0 .. Cardinality(S) - 1
           V == {t \in S : Cardinality(Older(before, S, t)) < n}
           k == IF n <= Cardinality(S) THEN n ELSE Cardinality(S)
           M == 0 .. k - 1
           f == [t \in V |-> rank[t]]
<1>1. rank \in Bijection(S, N)
  BY Ranking
<1>2. V = {t \in S : rank[t] < n}
  OBVIOUS
<1>3. Cardinality(S) \in Nat /\ k \in Nat /\ IsFiniteSet(V)
  BY FS_CardinalityType, FS_Subset
<1>4. \A t \in V : f[t] = rank[t]
  OBVIOUS
<1> HIDE DEF rank, V
<1>6. /\ \A t \in S : rank[t] \in N
      /\ \A t, u \in S : rank[t] = rank[u] => t = u
      /\ \A i \in N : \E t \in S : rank[t] = i
  BY <1>1 DEF Bijection, Injection, Surjection, IsInjective
<1>7. \A i \in N : i \in M <=> i < n
  BY <1>3
<1>8. M \subseteq N
  BY <1>3
<1>9. f \in Bijection(V, M)
  <2>1. f \in [V -> M]
    BY <1>2, <1>6, <1>7
  <2>2. \A t, u \in V : f[t] = f[u] => t = u
    BY <1>2, <1>6
  <2>3. \A i \in M : \E t \in V : f[t] = i
    BY <1>2, <1>6, <1>7, <1>8
  <2> HIDE DEF f
  <2> QED BY <2>1, <2>2, <2>3 DEF Bijection, Injection, Surjection, IsInjective
<1>10. Cardinality(M) = k
  <2>1. 0 \in Int /\ k - 1 \in Int
    BY <1>3
  <2>2. Cardinality(M) = IF 0 > k - 1 THEN 0 ELSE k - 1 - 0 + 1
    BY <2>1, FS_Interval
  <2> QED BY <1>3, <2>2
<1>11. Cardinality(M) = Cardinality(V)
  BY <1>3, <1>9, FS_Bijection DEF ExistsBijection
<1> QED BY <1>3, <1>10, <1>11 DEF V

-----------------------------------------------------------------------------
(* One transition, and the eviction that follows it *)

Moving(t, s) == [taskState EXCEPT ![t] = s]

\* The registry between the two: in order, with the record it may have created.
LEMMA MovingFacts ==
  ASSUME RegistryInv, NEW t \in Task, NEW s \in TaskStates
  PROVE  LET st == Moving(t, s)
         IN  /\ st \in [Task -> TaskStates \cup {Absent}]
             /\ \A u \in Task : st[u] = IF u = t THEN s ELSE taskState[u]
             /\ Known(st) = Known(taskState) \cup {t}
             /\ IsFiniteSet(Known(st)) /\ TerminalIn(st) \in SUBSET Known(st)
             /\ Orders(CreatedBeforeWith(t), Known(st))
             /\ \A u, v \in Known(taskState) :
                    <<u, v>> \in CreatedBeforeWith(t) <=> <<u, v>> \in createdBefore
<1> DEFINE st == Moving(t, s)
<1>1. st \in [Task -> TaskStates \cup {Absent}]
      /\ \A u \in Task : st[u] = IF u = t THEN s ELSE taskState[u]
  BY DEF RegistryInv, Moving
<1> HIDE DEF st
<1>2. Absent \notin TaskStates /\ TerminalStates \subseteq TaskStates
  BY DEF Absent, TaskStates, LiveStates, TerminalStates
<1>3. Known(st) = Known(taskState) \cup {t} /\ TerminalIn(st) \in SUBSET Known(st)
  BY <1>1, <1>2 DEF Known, TerminalIn
<1>4. IsFiniteSet(Known(st))
  BY <1>3, FS_AddElement DEF RegistryInv
<1>5. CASE taskState[t] = Absent
  <2>1. t \notin Known(taskState)
    BY <1>5 DEF Known
  <2>2. CreatedBeforeWith(t) = createdBefore \cup {<<u, t>> : u \in Known(taskState)}
    BY <1>5 DEF CreatedBeforeWith
  <2>3. Orders(CreatedBeforeWith(t), Known(st))
    BY <1>3, <2>1, <2>2, OrdersNewest DEF RegistryInv
  <2> QED BY <1>1, <1>3, <1>4, <2>1, <2>2, <2>3 DEF st
<1>6. CASE taskState[t] # Absent
  <2>1. Known(st) = Known(taskState) /\ CreatedBeforeWith(t) = createdBefore
    BY <1>3, <1>6 DEF Known, CreatedBeforeWith
  <2> QED BY <1>1, <1>3, <1>4, <2>1 DEF RegistryInv, st
<1> QED BY <1>5, <1>6

\* What pruneIfNeeded removes: as many as it must, or all that are finished.
LEMMA VictimsCount ==
  ASSUME NEW st, IsFiniteSet(Known(st)), TerminalIn(st) \in SUBSET Known(st),
         NEW before, Orders(before, Known(st))
  PROVE  PruneVictims(st, before) \in Evictions(st)
<1> DEFINE T == TerminalIn(st)
           b == {p \in before : p[1] \in T /\ p[2] \in T}
           V == {t \in T : Cardinality(Older(b, T, t)) < Overflow(st)}
<1>1. Orders(b, T) /\ IsFiniteSet(T)
  BY OrdersSubset, FS_Subset
<1>2. \A t \in T : Older(b, T, t) = {u \in T : <<u, t>> \in before}
  BY DEF Older
<1>3. PruneVictims(st, before) = V
  BY <1>2 DEF PruneVictims
<1>4. Overflow(st) \in Int /\ Cardinality(T) \in Nat
  BY <1>1, FS_CardinalityType, MaxTasksAssumption DEF Overflow
<1>5. CASE Overflow(st) <= 0
  <2>1. \A t \in T : Cardinality(Older(b, T, t)) \in Nat
    BY <1>1, FS_Subset, FS_CardinalityType DEF Older
  <2>2. V = {}
    BY <1>4, <1>5, <2>1
  <2> QED BY <1>3, <1>5, <2>2, FS_EmptySet DEF Evictions, EvictionCount
<1>6. CASE ~(Overflow(st) <= 0)
  <2>1. Overflow(st) \in Nat
    BY <1>4, <1>6
  <2>2. Cardinality(V) = IF Overflow(st) <= Cardinality(T) THEN Overflow(st) ELSE Cardinality(T)
    BY <1>1, <2>1, OldestCount
  <2> QED BY <1>3, <1>6, <2>2 DEF Evictions, EvictionCount
<1> QED BY <1>5, <1>6

\* A victim is older than every finished record that stays.
LEMMA VictimsOldest ==
  ASSUME NEW st, IsFiniteSet(Known(st)), TerminalIn(st) \in SUBSET Known(st),
         NEW before, Orders(before, Known(st)),
         NEW t \in PruneVictims(st, before), NEW u \in TerminalIn(st) \ PruneVictims(st, before)
  PROVE  <<t, u>> \in before
<1> DEFINE old(x) == {v \in TerminalIn(st) : <<v, x>> \in before}
<1>1. /\ t \in TerminalIn(st) /\ t # u
      /\ Cardinality(old(t)) < Overflow(st) /\ ~(Cardinality(old(u)) < Overflow(st))
  BY DEF PruneVictims
<1>2. IsFiniteSet(old(t)) /\ IsFiniteSet(old(u))
  BY FS_Subset
<1>3. Cardinality(old(t)) \in Nat /\ Cardinality(old(u)) \in Nat /\ Overflow(st) \in Int
  BY <1>2, FS_CardinalityType, MaxTasksAssumption DEF Overflow
<1>4. ASSUME <<u, t>> \in before PROVE FALSE
  <2>1. old(u) \in SUBSET old(t)
    BY <1>1, <1>4 DEF Orders
  <2>2. Cardinality(old(u)) <= Cardinality(old(t))
    BY <1>2, <2>1, FS_Subset
  <2> HIDE DEF old
  <2> QED BY <1>1, <1>3, <2>2
<1> QED BY <1>1, <1>4 DEF Orders

LEMMA TransitionKeeps ==
  ASSUME RegistryInv, NEW t \in Task, NEW s \in TaskStates, TransitionTask(t, s)
  PROVE  RegistryInv'
<1> DEFINE st == Moving(t, s)
           before == CreatedBeforeWith(t)
           gone == PruneVictims(st, before)
<1>1. /\ taskState' = Without(st, gone)
      /\ createdBefore' = {p \in before : p[1] \notin gone /\ p[2] \notin gone}
  BY DEF TransitionTask, Moving
<1>2. /\ st \in [Task -> TaskStates \cup {Absent}] /\ IsFiniteSet(Known(st))
      /\ Orders(before, Known(st))
  BY MovingFacts
<1> HIDE DEF st, before, gone
<1>3. /\ taskState' \in [Task -> TaskStates \cup {Absent}]
      /\ Known(taskState') = Known(st) \ gone
  BY <1>1, <1>2 DEF Without, Known
<1>4. createdBefore' = {p \in before : p[1] \in Known(st) \ gone /\ p[2] \in Known(st) \ gone}
  BY <1>1, <1>2 DEF Orders
<1>5. Orders(createdBefore', Known(st) \ gone) /\ IsFiniteSet(Known(st) \ gone)
  BY <1>2, <1>4, OrdersSubset, FS_Subset
<1> QED BY <1>3, <1>5 DEF RegistryInv

\* createdAt orders the records there are, through evictions and records created
\* again under an old id (transitionTask, pruneIfNeeded).
THEOREM RegistryInvariance == RegistrySpec => []RegistryInv
<1>1. RegistryInit => RegistryInv
  <2>1. RegistryInit => Known(taskState) = {}
    BY DEF RegistryInit, Known
  <2> QED BY <2>1, FS_EmptySet DEF RegistryInit, RegistryInv, Orders
<1>2. RegistryInv /\ [RegistryNext]_registryVars => RegistryInv'
  BY TransitionKeeps DEF RegistryNext, registryVars, RegistryInv
<1> QED BY <1>1, <1>2, PTL DEF RegistrySpec

THEOREM RegistryTypeCorrect == RegistrySpec => []RegistryTypeOK
<1>1. RegistryInv => RegistryTypeOK
  BY DEF RegistryInv, RegistryTypeOK, Orders
<1> QED BY <1>1, RegistryInvariance, PTL

\* pruneIfNeeded evicts a finished task only if every finished task that stays is
\* younger, for any store size and any history of the store.
THEOREM EvictsOldestFirst == RegistrySpec => OldestEvictedFirst
<1> DEFINE A == \A t, u \in Task :
                   ( /\ t \in Known(taskState) /\ t \notin Known(taskState')
                     /\ u \in TerminalIn(taskState) /\ u \in TerminalIn(taskState') )
                   => <<t, u>> \in createdBefore
<1>1. ASSUME RegistryInv, NEW x \in Task, NEW s \in TaskStates, TransitionTask(x, s),
             NEW t \in Task, NEW u \in Task,
             t \in Known(taskState), t \notin Known(taskState'),
             u \in TerminalIn(taskState), u \in TerminalIn(taskState')
      PROVE  <<t, u>> \in createdBefore
  <2> DEFINE st == Moving(x, s)
             before == CreatedBeforeWith(x)
             gone == PruneVictims(st, before)
  <2>1. taskState' = Without(st, gone)
    BY <1>1 DEF TransitionTask, Moving
  <2>2. /\ Known(st) = Known(taskState) \cup {x}
        /\ IsFiniteSet(Known(st)) /\ TerminalIn(st) \in SUBSET Known(st)
        /\ Orders(before, Known(st))
        /\ \A w, v \in Known(taskState) : <<w, v>> \in before <=> <<w, v>> \in createdBefore
    BY <1>1, MovingFacts
  <2>3. Absent \notin TerminalStates
    BY DEF Absent, TerminalStates
  <2> HIDE DEF st, before
  <2>4. t \in gone
    BY <1>1, <2>1, <2>2 DEF Without, Known
  <2>5. u \in TerminalIn(st) \ gone
    BY <1>1, <2>1, <2>3 DEF Without, TerminalIn
  <2>6. <<t, u>> \in before
    BY <2>2, <2>4, <2>5, VictimsOldest
  <2>7. u \in Known(taskState)
    BY <1>1, <2>3 DEF Known, TerminalIn
  <2> QED BY <1>1, <2>2, <2>6, <2>7
<1>2. ASSUME RegistryInv, UNCHANGED registryVars PROVE A
  BY <1>2 DEF registryVars
<1>3. RegistryInv /\ [RegistryNext]_registryVars => A
  BY <1>1, <1>2 DEF RegistryNext
<1>4. RegistryInv /\ [RegistryNext]_registryVars => [A]_registryVars
  BY <1>3
<1> QED BY <1>4, RegistryInvariance, PTL DEF RegistrySpec, OldestEvictedFirst

\* Every step of the registry is one its callers are told to expect (TaskContract):
\* the transition asked for, and then the eviction of exactly as many finished
\* records as the store is over its size, or of all of them.
THEOREM RegistryContract == RegistrySpec => ImplementsContract
<1>1. ASSUME RegistryInv, NEW t \in Task, NEW s \in TaskStates, TransitionTask(t, s)
      PROVE  taskState' \in Transitioned(taskState, Only(t, s))
  <2> DEFINE st == Moving(t, s)
             before == CreatedBeforeWith(t)
             gone == PruneVictims(st, before)
  <2>1. taskState' = Without(st, gone) /\ Accepts(taskState, t, s)
    BY <1>1 DEF TransitionTask, Moving
  <2>2. /\ st \in [Task -> TaskStates \cup {Absent}]
        /\ \A u \in Task : st[u] = IF u = t THEN s ELSE taskState[u]
        /\ gone \in Evictions(st)
    BY <1>1, MovingFacts, VictimsCount
  <2>3. Moved(taskState, Only(t, s)) = st
    BY <2>1, <2>2 DEF Moved, Only
  <2> HIDE DEF st, gone
  <2> QED BY <2>1, <2>2, <2>3 DEF Transitioned
<1>2. RegistryInv /\ [RegistryNext]_registryVars =>
        [\E t \in Task, s \in TaskStates :
            taskState' \in Transitioned(taskState, Only(t, s))]_registryVars
  BY <1>1 DEF RegistryNext
<1> QED BY <1>2, RegistryInvariance, PTL DEF RegistrySpec, ImplementsContract

\* The memory of the registry is bounded by maxTasks and the live tasks: no finished
\* record outlives the step that put the store over its size (pruneIfNeeded).
THEOREM StoreBounded == RegistrySpec => []OverOnlyWhileLive
<1>1. ASSUME RegistryInv, NEW t \in Task, NEW s \in TaskStates, TransitionTask(t, s)
      PROVE  OverOnlyWhileLive'
  <2> DEFINE st == Moving(t, s)
             before == CreatedBeforeWith(t)
             gone == PruneVictims(st, before)
  <2>1. taskState' = Without(st, gone)
    BY <1>1 DEF TransitionTask, Moving
  <2>2. /\ IsFiniteSet(Known(st)) /\ TerminalIn(st) \in SUBSET Known(st)
        /\ gone \in Evictions(st)
    BY <1>1, MovingFacts, VictimsCount
  <2>3. Absent \notin TerminalStates
    BY DEF Absent, TerminalStates
  <2> HIDE DEF st, gone
  <2>4. Known(taskState') = Known(st) \ gone /\ TerminalIn(taskState') = TerminalIn(st) \ gone
    BY <2>1, <2>3 DEF Without, Known, TerminalIn
  <2>5. /\ gone \in SUBSET TerminalIn(st) /\ Cardinality(gone) = EvictionCount(st)
        /\ IsFiniteSet(TerminalIn(st)) /\ IsFiniteSet(gone)
    BY <2>2, FS_Subset DEF Evictions
  <2>6. Cardinality(Known(taskState')) = Cardinality(Known(st)) - EvictionCount(st)
    <3>1. Known(st) \cap gone = gone
      BY <2>2, <2>5
    <3> QED BY <2>2, <2>4, <2>5, <3>1, FS_Difference
  <2>7. /\ Cardinality(Known(st)) \in Nat /\ Cardinality(TerminalIn(st)) \in Nat
        /\ MaxTasks \in Nat
    BY <2>2, <2>5, FS_CardinalityType, MaxTasksAssumption
  <2>8. ASSUME Cardinality(Known(taskState')) > MaxTasks PROVE TerminalIn(taskState') = {}
    <3>1. EvictionCount(st) = Cardinality(TerminalIn(st))
      BY <2>6, <2>7, <2>8 DEF EvictionCount, Overflow
    <3>2. gone = TerminalIn(st)
      BY <2>5, <3>1, FS_Subset
    <3> QED BY <2>4, <3>2
  <2> QED BY <2>8 DEF OverOnlyWhileLive
<1>2. RegistryInit => OverOnlyWhileLive
  <2>1. RegistryInit => TerminalIn(taskState) = {}
    BY DEF RegistryInit, TerminalIn, TerminalStates, Absent
  <2> QED BY <2>1 DEF OverOnlyWhileLive
<1>3. RegistryInv /\ OverOnlyWhileLive /\ [RegistryNext]_registryVars => OverOnlyWhileLive'
  <2>1. OverOnlyWhileLive /\ UNCHANGED registryVars => OverOnlyWhileLive'
    BY DEF OverOnlyWhileLive, registryVars
  <2> QED BY <1>1, <2>1 DEF RegistryNext
<1> QED BY <1>2, <1>3, RegistryInvariance, PTL DEF RegistrySpec

=============================================================================
