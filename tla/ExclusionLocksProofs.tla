------------------------ MODULE ExclusionLocksProofs ------------------------
(***************************************************************************)
(* The exclusion of ExclusionLocks for any set of processes.  The argument *)
(* is the arbiter's: between its probes and its own lock a starter holds   *)
(* the arbiter, nobody else can take any lock but the arbiter's successor, *)
(* so an opposing lock found free is still free when the own one is taken. *)
(***************************************************************************)
EXTENDS ExclusionLocks, TLAPS

(* The processes between _take_arbiter and the finally of acquire().       *)
Critical(p) == pc[p] \in {"probe", "probed", "taken", "leave"}

(* Exactly the process inside the critical section holds the arbiter.      *)
ArbiterInv ==
  \A p \in Procs : Critical(p) <=> holder["ARBITER"] = p

(* Every other lock is held by an owner past acquire()'s last try or by    *)
(* the one prober that is trying it.                                       *)
HolderInv ==
  \A l \in Locks \ {"ARBITER"}, p \in Procs :
    holder[l] = p <=> \/ HoldsOwn(p) /\ l = OwnLock(p)
                      \/ pc[p] = "probed" /\ l = Target(p)

(* A starter's index stays within its opposing locks while it tries one,   *)
(* and is back at the first one outside acquire().                         *)
IndexInv ==
  \A p \in Procs :
    /\ at[p] \in 1..(Len(ToProbe(p)) + 1)
    /\ ~Critical(p) => at[p] = 1
    /\ pc[p] = "probed" => at[p] <= Len(ToProbe(p))

(* The opposing locks already tried are free.                              *)
ProbedInv ==
  \A p \in Procs :
    /\ pc[p] \in {"probe", "probed"} =>
         \A i \in 1..(at[p] - 1) : holder[ToProbe(p)[i]] = NoProc

(* A held lock is a file that exists, so a missing file is a free lock.    *)
FilesInv ==
  /\ \A l \in Locks : holder[l] # NoProc => l \in files
  /\ \A p \in Procs : pc[p] = "waiting" => "ARBITER" \in files

(* The inductive invariant.                                                *)
IInv ==
  /\ TypeOK
  /\ ArbiterInv
  /\ HolderInv
  /\ IndexInv
  /\ ProbedInv
  /\ FilesInv
  /\ MutualExclusion

-----------------------------------------------------------------------------
(* What the tables OWN and OPPOSING say: a role's own lock and the ones it *)
(* probes are not the arbiter, it probes one or two, never its own, and    *)
(* opposition is mutual.                                                   *)
LEMMA RoleFacts ==
  ASSUME NEW p \in Procs
  PROVE  /\ OwnLock(p) \in Locks \ {"ARBITER"}
         /\ Len(ToProbe(p)) \in 1..2
         /\ \A i \in 1..Len(ToProbe(p)) :
              ToProbe(p)[i] \in Locks \ {"ARBITER"} /\ ToProbe(p)[i] # OwnLock(p)
<1>1. ActorOf[p] \in Actors
  BY ProcsAssumption
<1>2. CASE ActorOf[p] = "gate"
  BY <1>2 DEF OwnLock, ToProbe, Own, Opposing, Actors, Locks
<1>3. CASE ActorOf[p] \in {"sequencer", "chain"}
  BY <1>3 DEF OwnLock, ToProbe, Own, Opposing, Actors, Locks
<1>4. QED
  BY <1>1, <1>2, <1>3 DEF Actors

LEMMA OppositionIsMutual ==
  ASSUME NEW a \in Actors, NEW b \in Actors, Opposes(a, b)
  PROVE  Opposes(b, a)
<1>1. CASE a = "gate"
  <2>1. b # "gate"
    BY <1>1 DEF Opposes, Opposing, Own, Actors
  <2>2. Opposing[b] = <<"RUNNING">> /\ Own[a] = "RUNNING"
    BY <1>1, <2>1 DEF Opposing, Own, Actors
  <2>3. QED
    BY <2>2 DEF Opposes
<1>2. CASE a # "gate"
  <2>1. Opposing[a] = <<"RUNNING">>
    BY <1>2 DEF Opposing
  <2>2. b = "gate"
    BY <2>1 DEF Opposes, Own, Actors
  <2>3. Opposing[b] = <<"SEQUENCER", "LEG">> /\ Own[a] \in {"SEQUENCER", "LEG"}
    BY <1>2, <2>2 DEF Opposing, Own, Actors
  <2>4. QED
    BY <2>3 DEF Opposes
<1>3. QED
  BY <1>1, <1>2

(* No lock is tried twice.                                                 *)
LEMMA DistinctProbes ==
  ASSUME NEW p \in Procs, NEW i \in 1..Len(ToProbe(p)), NEW j \in 1..Len(ToProbe(p)),
         ToProbe(p)[i] = ToProbe(p)[j]
  PROVE  i = j
<1>1. CASE ActorOf[p] = "gate"
  BY <1>1, ProcsAssumption DEF ToProbe, Opposing, Actors
<1>2. CASE ActorOf[p] # "gate"
  BY <1>2, ProcsAssumption DEF ToProbe, Opposing, Actors
<1>3. QED
  BY <1>1, <1>2

(* Whoever has its own lock is the holder of it.                           *)
LEMMA OwnerHolds ==
  ASSUME HolderInv, NEW p \in Procs, HoldsOwn(p)
  PROVE  holder[OwnLock(p)] = p
BY RoleFacts DEF HolderInv

(* Only one process is inside the critical section.                        *)
LEMMA OneCritical ==
  ASSUME ArbiterInv, NEW p \in Procs, NEW q \in Procs, Critical(p), Critical(q)
  PROVE  p = q
BY DEF ArbiterInv

LEMMA InitIInv == Init => IInv
<1> SUFFICES ASSUME Init PROVE IInv
  OBVIOUS
<1>1. TypeOK
  BY DEF Init, TypeOK, PCs, Locks
<1>2. ArbiterInv
  BY ProcsAssumption DEF Init, ArbiterInv, Critical, Locks
<1>3. HolderInv
  BY ProcsAssumption DEF Init, HolderInv, HoldsOwn, Locks
<1>4. IndexInv
  <2> SUFFICES ASSUME NEW p \in Procs
               PROVE  at[p] \in 1..(Len(ToProbe(p)) + 1) /\ pc[p] # "probed" /\ at[p] = 1
    BY DEF IndexInv
  <2>1. at[p] = 1 /\ pc[p] = "out"
    BY DEF Init
  <2>2. QED
    BY <2>1, RoleFacts
<1>5. ProbedInv
  BY DEF Init, ProbedInv
<1>6. FilesInv
  BY DEF Init, FilesInv
<1>7. MutualExclusion
  BY DEF Init, MutualExclusion, HoldsOwn
<1>8. QED
  BY <1>1, <1>2, <1>3, <1>4, <1>5, <1>6, <1>7 DEF IInv

(* One step of the next-state relation preserves the invariant.            *)
LEMMA NextIInv == IInv /\ [Next]_vars => IInv'
<1> SUFFICES ASSUME IInv, [Next]_vars PROVE IInv'
  OBVIOUS
<1> USE ProcsAssumption DEF IInv
<1>1. ASSUME NEW p \in Procs, Start(p) PROVE IInv'
  <2>1. TypeOK'
    BY <1>1, RoleFacts DEF TypeOK, PCs, Locks, Start, Probing, ProbesDone, IndexInv
  <2>2. ArbiterInv'
    BY <1>1, RoleFacts DEF TypeOK, ArbiterInv, HolderInv, Critical, Start, Probing, ProbesDone, Locks
  <2>3. HolderInv'
    BY <1>1, RoleFacts DEF TypeOK, ArbiterInv, HolderInv, IndexInv, Critical, HoldsOwn, Target, Start, Probing, ProbesDone, Locks
  <2>4. IndexInv'
    BY <1>1, RoleFacts DEF TypeOK, IndexInv, Critical, Start, Probing, ProbesDone
  <2>5. ProbedInv'
    BY <1>1, RoleFacts DEF TypeOK, ArbiterInv, HolderInv, IndexInv, ProbedInv, Critical, Target, Start, Probing, ProbesDone, Locks
  <2>6. MutualExclusion'
    BY <1>1, RoleFacts DEF TypeOK, MutualExclusion, Conflict, HoldsOwn, Start, Probing, ProbesDone
  <2>7. FilesInv'
    BY <1>1, RoleFacts DEF TypeOK, FilesInv, Start, Probing, ProbesDone, Locks
  <2>8. QED
    BY <2>1, <2>2, <2>3, <2>4, <2>5, <2>6, <2>7
<1>2. ASSUME NEW p \in Procs, TakeArbiter(p) PROVE IInv'
  <2>1. TypeOK'
    BY <1>2, RoleFacts DEF TypeOK, PCs, Locks, TakeArbiter, Probing, ProbesDone, IndexInv
  <2>2. ArbiterInv'
    BY <1>2, RoleFacts DEF TypeOK, ArbiterInv, HolderInv, Critical, TakeArbiter, Probing, ProbesDone, Locks
  <2>3. HolderInv'
    BY <1>2, RoleFacts DEF TypeOK, ArbiterInv, HolderInv, IndexInv, Critical, HoldsOwn, Target, TakeArbiter, Probing, ProbesDone, Locks
  <2>4. IndexInv'
    BY <1>2, RoleFacts DEF TypeOK, IndexInv, Critical, TakeArbiter, Probing, ProbesDone
  <2>5. ProbedInv'
    <3> SUFFICES ASSUME NEW q \in Procs, pc'[q] \in {"probe", "probed"}, NEW i \in 1..(at[q] - 1)
                 PROVE  holder'[ToProbe(q)[i]] = NoProc
      BY <1>2 DEF ProbedInv, TakeArbiter
    <3>1. CASE q = p
      BY <3>1, <1>2 DEF TakeArbiter, IndexInv, Critical
    <3>2. CASE q # p
      BY <3>2, <1>2 DEF TakeArbiter, ArbiterInv, Critical, TypeOK
    <3>3. QED
      BY <3>1, <3>2
  <2>6. MutualExclusion'
    BY <1>2, RoleFacts DEF TypeOK, MutualExclusion, Conflict, HoldsOwn, TakeArbiter, Probing, ProbesDone
  <2>7. FilesInv'
    BY <1>2, RoleFacts DEF TypeOK, FilesInv, TakeArbiter, Probing, ProbesDone, Locks
  <2>8. QED
    BY <2>1, <2>2, <2>3, <2>4, <2>5, <2>6, <2>7
<1>3. ASSUME NEW p \in Procs, Deadline(p) PROVE IInv'
  <2>1. TypeOK'
    BY <1>3, RoleFacts DEF TypeOK, PCs, Locks, Deadline, Probing, ProbesDone, IndexInv
  <2>2. ArbiterInv'
    BY <1>3, RoleFacts DEF TypeOK, ArbiterInv, HolderInv, Critical, Deadline, Probing, ProbesDone, Locks
  <2>3. HolderInv'
    BY <1>3, RoleFacts DEF TypeOK, ArbiterInv, HolderInv, IndexInv, Critical, HoldsOwn, Target, Deadline, Probing, ProbesDone, Locks
  <2>4. IndexInv'
    BY <1>3, RoleFacts DEF TypeOK, IndexInv, Critical, Deadline, Probing, ProbesDone
  <2>5. ProbedInv'
    BY <1>3, RoleFacts DEF TypeOK, ArbiterInv, HolderInv, IndexInv, ProbedInv, Critical, Target, Deadline, Probing, ProbesDone, Locks
  <2>6. MutualExclusion'
    BY <1>3, RoleFacts DEF TypeOK, MutualExclusion, Conflict, HoldsOwn, Deadline, Probing, ProbesDone
  <2>7. FilesInv'
    BY <1>3, RoleFacts DEF TypeOK, FilesInv, Deadline, Probing, ProbesDone, Locks
  <2>8. QED
    BY <2>1, <2>2, <2>3, <2>4, <2>5, <2>6, <2>7
<1>4. ASSUME NEW p \in Procs, ArbiterTimeout(p) PROVE IInv'
  <2>1. TypeOK'
    BY <1>4, RoleFacts DEF TypeOK, PCs, Locks, ArbiterTimeout, Probing, ProbesDone, IndexInv
  <2>2. ArbiterInv'
    BY <1>4, RoleFacts DEF TypeOK, ArbiterInv, HolderInv, Critical, ArbiterTimeout, Probing, ProbesDone, Locks
  <2>3. HolderInv'
    BY <1>4, RoleFacts DEF TypeOK, ArbiterInv, HolderInv, IndexInv, Critical, HoldsOwn, Target, ArbiterTimeout, Probing, ProbesDone, Locks
  <2>4. IndexInv'
    BY <1>4, RoleFacts DEF TypeOK, IndexInv, Critical, ArbiterTimeout, Probing, ProbesDone
  <2>5. ProbedInv'
    BY <1>4, RoleFacts DEF TypeOK, ArbiterInv, HolderInv, IndexInv, ProbedInv, Critical, Target, ArbiterTimeout, Probing, ProbesDone, Locks
  <2>6. MutualExclusion'
    BY <1>4, RoleFacts DEF TypeOK, MutualExclusion, Conflict, HoldsOwn, ArbiterTimeout, Probing, ProbesDone
  <2>7. FilesInv'
    BY <1>4, RoleFacts DEF TypeOK, FilesInv, ArbiterTimeout, Probing, ProbesDone, Locks
  <2>8. QED
    BY <2>1, <2>2, <2>3, <2>4, <2>5, <2>6, <2>7
<1>5. ASSUME NEW p \in Procs, ProbeMissing(p) PROVE IInv'
  <2>1. TypeOK'
    <3>1. at[p] \in 1..2
      BY <1>5, RoleFacts DEF ProbeMissing, Probing, IndexInv
    <3>2. QED
      BY <1>5, <3>1 DEF TypeOK, PCs, ProbeMissing, Probing
  <2>2. ArbiterInv'
    BY <1>5, RoleFacts DEF TypeOK, ArbiterInv, HolderInv, Critical, ProbeMissing, Probing, ProbesDone, Locks
  <2>3. HolderInv'
    BY <1>5, RoleFacts DEF TypeOK, ArbiterInv, HolderInv, IndexInv, Critical, HoldsOwn, Target, ProbeMissing, Probing, ProbesDone, Locks
  <2>4. IndexInv'
    BY <1>5, RoleFacts DEF TypeOK, IndexInv, Critical, ProbeMissing, Probing, ProbesDone
  <2>5. ProbedInv'
    <3>1. pc' = pc /\ holder' = holder /\ at' = [at EXCEPT ![p] = @ + 1]
      BY <1>5 DEF ProbeMissing
    <3>2. holder[ToProbe(p)[at[p]]] = NoProc
      BY <1>5, RoleFacts DEF ProbeMissing, FilesInv, Probing, Target, IndexInv
    <3>3. QED
      BY <3>1, <3>2, <1>5, RoleFacts DEF ProbedInv, IndexInv, TypeOK
  <2>6. MutualExclusion'
    BY <1>5, RoleFacts DEF TypeOK, MutualExclusion, Conflict, HoldsOwn, ProbeMissing, Probing, ProbesDone
  <2>7. FilesInv'
    BY <1>5, RoleFacts DEF TypeOK, FilesInv, ProbeMissing, Probing, ProbesDone, Locks
  <2>8. QED
    BY <2>1, <2>2, <2>3, <2>4, <2>5, <2>6, <2>7
<1>6. ASSUME NEW p \in Procs, ProbeFree(p) PROVE IInv'
  <2>1. TypeOK'
    BY <1>6, RoleFacts DEF TypeOK, PCs, Locks, ProbeFree, Probing, ProbesDone, IndexInv
  <2>2. ArbiterInv'
    BY <1>6, RoleFacts DEF TypeOK, ArbiterInv, HolderInv, Critical, ProbeFree, Probing, ProbesDone, Locks
  <2>3. HolderInv'
    BY <1>6, RoleFacts DEF TypeOK, ArbiterInv, HolderInv, IndexInv, Critical, HoldsOwn, Target, ProbeFree, Probing, ProbesDone, Locks
  <2>4. IndexInv'
    BY <1>6, RoleFacts DEF TypeOK, IndexInv, Critical, ProbeFree, Probing, ProbesDone
  <2>5. ProbedInv'
    <3> SUFFICES ASSUME NEW q \in Procs, pc'[q] \in {"probe", "probed"}, NEW i \in 1..(at[q] - 1)
                 PROVE  holder'[ToProbe(q)[i]] = NoProc
      BY <1>6 DEF ProbedInv, ProbeFree
    <3>1. q = p
      BY <1>6 DEF ProbeFree, Probing, ArbiterInv, Critical, TypeOK
    <3>2. holder[ToProbe(p)[i]] = NoProc
      BY <3>1, <1>6 DEF ProbedInv, ProbeFree, Probing
    <3>3. ToProbe(p)[i] # Target(p)
      BY <3>1, <1>6, DistinctProbes, RoleFacts DEF Target, ProbeFree, Probing, IndexInv
    <3>4. QED
      BY <3>1, <3>2, <3>3, <1>6 DEF ProbeFree, TypeOK
  <2>6. MutualExclusion'
    BY <1>6, RoleFacts DEF TypeOK, MutualExclusion, Conflict, HoldsOwn, ProbeFree, Probing, ProbesDone
  <2>7. FilesInv'
    BY <1>6, RoleFacts DEF TypeOK, FilesInv, ProbeFree, Probing, ProbesDone, Locks
  <2>8. QED
    BY <2>1, <2>2, <2>3, <2>4, <2>5, <2>6, <2>7
<1>7. ASSUME NEW p \in Procs, Unprobe(p) PROVE IInv'
  <2>1. TypeOK'
    <3>1. at[p] \in 1..2
      BY <1>7, RoleFacts DEF Unprobe, IndexInv
    <3>2. at' \in [Procs -> 1..3] /\ pc' \in [Procs -> PCs]
      BY <1>7, <3>1 DEF TypeOK, PCs, Unprobe
    <3>3. holder' \in [Locks -> Procs \cup {NoProc}]
      BY <1>7 DEF TypeOK, Unprobe
    <3>4. QED
      BY <1>7, <3>2, <3>3 DEF TypeOK, Unprobe
  <2>2. ArbiterInv'
    <3>1. Target(p) # "ARBITER"
      BY <1>7, RoleFacts DEF Unprobe, IndexInv, Target
    <3>2. QED
      BY <1>7, <3>1 DEF ArbiterInv, Critical, Unprobe, TypeOK, Locks
  <2>3. HolderInv'
    BY <1>7, RoleFacts DEF TypeOK, ArbiterInv, HolderInv, IndexInv, Critical, HoldsOwn, Target, Unprobe, Probing, ProbesDone, Locks
  <2>4. IndexInv'
    BY <1>7, RoleFacts DEF TypeOK, IndexInv, Critical, Unprobe, Probing, ProbesDone
  <2>5. ProbedInv'
    BY <1>7, RoleFacts DEF TypeOK, ArbiterInv, HolderInv, IndexInv, ProbedInv, Critical, Target, Unprobe, Probing, ProbesDone, Locks
  <2>6. MutualExclusion'
    BY <1>7, RoleFacts DEF TypeOK, MutualExclusion, Conflict, HoldsOwn, Unprobe, Probing, ProbesDone
  <2>7. FilesInv'
    BY <1>7, RoleFacts DEF TypeOK, FilesInv, Unprobe, Probing, ProbesDone, Locks
  <2>8. QED
    BY <2>1, <2>2, <2>3, <2>4, <2>5, <2>6, <2>7
<1>8. ASSUME NEW p \in Procs, ProbeHeld(p) PROVE IInv'
  <2>1. TypeOK'
    BY <1>8, RoleFacts DEF TypeOK, PCs, Locks, ProbeHeld, Probing, ProbesDone, IndexInv
  <2>2. ArbiterInv'
    BY <1>8, RoleFacts DEF TypeOK, ArbiterInv, HolderInv, Critical, ProbeHeld, Probing, ProbesDone, Locks
  <2>3. HolderInv'
    BY <1>8, RoleFacts DEF TypeOK, ArbiterInv, HolderInv, IndexInv, Critical, HoldsOwn, Target, ProbeHeld, Probing, ProbesDone, Locks
  <2>4. IndexInv'
    BY <1>8, RoleFacts DEF TypeOK, IndexInv, Critical, ProbeHeld, Probing, ProbesDone
  <2>5. ProbedInv'
    BY <1>8, RoleFacts DEF TypeOK, ArbiterInv, HolderInv, IndexInv, ProbedInv, Critical, Target, ProbeHeld, Probing, ProbesDone, Locks
  <2>6. MutualExclusion'
    BY <1>8, RoleFacts DEF TypeOK, MutualExclusion, Conflict, HoldsOwn, ProbeHeld, Probing, ProbesDone
  <2>7. FilesInv'
    BY <1>8, RoleFacts DEF TypeOK, FilesInv, ProbeHeld, Probing, ProbesDone, Locks
  <2>8. QED
    BY <2>1, <2>2, <2>3, <2>4, <2>5, <2>6, <2>7
<1>9. ASSUME NEW p \in Procs, ProbeUnreadable(p) PROVE IInv'
  <2>1. TypeOK'
    BY <1>9, RoleFacts DEF TypeOK, PCs, Locks, ProbeUnreadable, Probing, ProbesDone, IndexInv
  <2>2. ArbiterInv'
    BY <1>9, RoleFacts DEF TypeOK, ArbiterInv, HolderInv, Critical, ProbeUnreadable, Probing, ProbesDone, Locks
  <2>3. HolderInv'
    BY <1>9, RoleFacts DEF TypeOK, ArbiterInv, HolderInv, IndexInv, Critical, HoldsOwn, Target, ProbeUnreadable, Probing, ProbesDone, Locks
  <2>4. IndexInv'
    BY <1>9, RoleFacts DEF TypeOK, IndexInv, Critical, ProbeUnreadable, Probing, ProbesDone
  <2>5. ProbedInv'
    BY <1>9, RoleFacts DEF TypeOK, ArbiterInv, HolderInv, IndexInv, ProbedInv, Critical, Target, ProbeUnreadable, Probing, ProbesDone, Locks
  <2>6. MutualExclusion'
    BY <1>9, RoleFacts DEF TypeOK, MutualExclusion, Conflict, HoldsOwn, ProbeUnreadable, Probing, ProbesDone
  <2>7. FilesInv'
    BY <1>9, RoleFacts DEF TypeOK, FilesInv, ProbeUnreadable, Probing, ProbesDone, Locks
  <2>8. QED
    BY <2>1, <2>2, <2>3, <2>4, <2>5, <2>6, <2>7
<1>10. ASSUME NEW p \in Procs, TakeOwn(p) PROVE IInv'
  <2>1. TypeOK'
    BY <1>10, RoleFacts DEF TypeOK, PCs, Locks, TakeOwn, Probing, ProbesDone, IndexInv
  <2>2. ArbiterInv'
    BY <1>10, RoleFacts DEF TypeOK, ArbiterInv, HolderInv, Critical, TakeOwn, Probing, ProbesDone, Locks
  <2>3. HolderInv'
    BY <1>10, RoleFacts DEF TypeOK, ArbiterInv, HolderInv, IndexInv, Critical, HoldsOwn, Target, TakeOwn, Probing, ProbesDone, Locks
  <2>4. IndexInv'
    BY <1>10, RoleFacts DEF TypeOK, IndexInv, Critical, TakeOwn, Probing, ProbesDone
  <2>5. ProbedInv'
    BY <1>10, RoleFacts DEF TypeOK, ArbiterInv, HolderInv, IndexInv, ProbedInv, Critical, Target, TakeOwn, Probing, ProbesDone, Locks
  <2>6. MutualExclusion'
    <3>1. ASSUME NEW q \in Procs, HoldsOwn(q) PROVE ~Conflict(p, q) /\ ~Conflict(q, p)
      <4>1. holder[OwnLock(q)] = q /\ q # NoProc /\ q # p
        BY <3>1, <1>10, OwnerHolds DEF TakeOwn, ProbesDone, HoldsOwn
      <4>2. ActorOf[p] # ActorOf[q]
        BY <4>1, <1>10 DEF TakeOwn, OwnLock
      <4>3. ~Opposes(ActorOf[p], ActorOf[q])
        <5>1. \A i \in 1..Len(ToProbe(p)) : holder[ToProbe(p)[i]] = NoProc
          BY <1>10, RoleFacts DEF TakeOwn, ProbesDone, ProbedInv, IndexInv
        <5>2. QED
          BY <4>1, <5>1 DEF Opposes, ToProbe, OwnLock
      <4>4. ~Opposes(ActorOf[q], ActorOf[p])
        BY <4>3, OppositionIsMutual
      <4>5. QED
        BY <4>2, <4>3, <4>4 DEF Conflict
    <3>2. ~Conflict(p, p)
      BY RoleFacts DEF Conflict, Opposes, ToProbe, OwnLock
    <3>3. \A q \in Procs : HoldsOwn(q)' => q = p \/ HoldsOwn(q)
      BY <1>10 DEF TakeOwn, HoldsOwn, TypeOK
    <3>4. QED
      BY <3>1, <3>2, <3>3 DEF MutualExclusion, Conflict
  <2>7. FilesInv'
    BY <1>10, RoleFacts DEF TypeOK, FilesInv, TakeOwn, Probing, ProbesDone, Locks
  <2>8. QED
    BY <2>1, <2>2, <2>3, <2>4, <2>5, <2>6, <2>7
<1>11. ASSUME NEW p \in Procs, OwnHeld(p) PROVE IInv'
  <2>1. TypeOK'
    BY <1>11, RoleFacts DEF TypeOK, PCs, Locks, OwnHeld, Probing, ProbesDone, IndexInv
  <2>2. ArbiterInv'
    BY <1>11, RoleFacts DEF TypeOK, ArbiterInv, HolderInv, Critical, OwnHeld, Probing, ProbesDone, Locks
  <2>3. HolderInv'
    BY <1>11, RoleFacts DEF TypeOK, ArbiterInv, HolderInv, IndexInv, Critical, HoldsOwn, Target, OwnHeld, Probing, ProbesDone, Locks
  <2>4. IndexInv'
    BY <1>11, RoleFacts DEF TypeOK, IndexInv, Critical, OwnHeld, Probing, ProbesDone
  <2>5. ProbedInv'
    BY <1>11, RoleFacts DEF TypeOK, ArbiterInv, HolderInv, IndexInv, ProbedInv, Critical, Target, OwnHeld, Probing, ProbesDone, Locks
  <2>6. MutualExclusion'
    BY <1>11, RoleFacts DEF TypeOK, MutualExclusion, Conflict, HoldsOwn, OwnHeld, Probing, ProbesDone
  <2>7. FilesInv'
    BY <1>11, RoleFacts DEF TypeOK, FilesInv, OwnHeld, Probing, ProbesDone, Locks
  <2>8. QED
    BY <2>1, <2>2, <2>3, <2>4, <2>5, <2>6, <2>7
<1>12. ASSUME NEW p \in Procs, ReleaseArbiter(p) PROVE IInv'
  <2>1. TypeOK'
    BY <1>12, RoleFacts DEF TypeOK, PCs, Locks, ReleaseArbiter, Probing, ProbesDone, IndexInv
  <2>2. ArbiterInv'
    BY <1>12, RoleFacts DEF TypeOK, ArbiterInv, HolderInv, Critical, ReleaseArbiter, Probing, ProbesDone, Locks
  <2>3. HolderInv'
    BY <1>12, RoleFacts DEF TypeOK, ArbiterInv, HolderInv, IndexInv, Critical, HoldsOwn, Target, ReleaseArbiter, Probing, ProbesDone, Locks
  <2>4. IndexInv'
    BY <1>12, RoleFacts DEF TypeOK, IndexInv, Critical, ReleaseArbiter, Probing, ProbesDone
  <2>5. ProbedInv'
    BY <1>12, RoleFacts DEF TypeOK, ArbiterInv, HolderInv, IndexInv, ProbedInv, Critical, Target, ReleaseArbiter, Probing, ProbesDone, Locks
  <2>6. MutualExclusion'
    BY <1>12, RoleFacts DEF TypeOK, MutualExclusion, Conflict, HoldsOwn, ReleaseArbiter, Probing, ProbesDone
  <2>7. FilesInv'
    BY <1>12, RoleFacts DEF TypeOK, FilesInv, ReleaseArbiter, Probing, ProbesDone, Locks
  <2>8. QED
    BY <2>1, <2>2, <2>3, <2>4, <2>5, <2>6, <2>7
<1>13. ASSUME NEW p \in Procs, Release(p) PROVE IInv'
  <2>1. TypeOK'
    BY <1>13, RoleFacts DEF TypeOK, PCs, Locks, Release, Probing, ProbesDone, IndexInv
  <2>2. ArbiterInv'
    BY <1>13, RoleFacts DEF TypeOK, ArbiterInv, HolderInv, Critical, Release, Probing, ProbesDone, Locks
  <2>3. HolderInv'
    BY <1>13, RoleFacts DEF TypeOK, ArbiterInv, HolderInv, IndexInv, Critical, HoldsOwn, Target, Release, Probing, ProbesDone, Locks
  <2>4. IndexInv'
    BY <1>13, RoleFacts DEF TypeOK, IndexInv, Critical, Release, Probing, ProbesDone
  <2>5. ProbedInv'
    BY <1>13, RoleFacts DEF TypeOK, ArbiterInv, HolderInv, IndexInv, ProbedInv, Critical, Target, Release, Probing, ProbesDone, Locks
  <2>6. MutualExclusion'
    BY <1>13, RoleFacts DEF TypeOK, MutualExclusion, Conflict, HoldsOwn, Release, Probing, ProbesDone
  <2>7. FilesInv'
    BY <1>13, RoleFacts DEF TypeOK, FilesInv, Release, Probing, ProbesDone, Locks
  <2>8. QED
    BY <2>1, <2>2, <2>3, <2>4, <2>5, <2>6, <2>7
<1>14. ASSUME NEW p \in Procs, Crash(p) PROVE IInv'
  <2>1. TypeOK'
    BY <1>14, RoleFacts DEF TypeOK, PCs, Locks, Crash, Probing, ProbesDone, IndexInv
  <2>2. ArbiterInv'
    BY <1>14, RoleFacts DEF TypeOK, ArbiterInv, HolderInv, Critical, Crash, Probing, ProbesDone, Locks
  <2>3. HolderInv'
    BY <1>14, RoleFacts DEF TypeOK, ArbiterInv, HolderInv, IndexInv, Critical, HoldsOwn, Target, Crash, Probing, ProbesDone, Locks
  <2>4. IndexInv'
    BY <1>14, RoleFacts DEF TypeOK, IndexInv, Critical, Crash, Probing, ProbesDone
  <2>5. ProbedInv'
    BY <1>14, RoleFacts DEF TypeOK, ArbiterInv, HolderInv, IndexInv, ProbedInv, Critical, Target, Crash, Probing, ProbesDone, Locks
  <2>6. MutualExclusion'
    BY <1>14, RoleFacts DEF TypeOK, MutualExclusion, Conflict, HoldsOwn, Crash, Probing, ProbesDone
  <2>7. FilesInv'
    BY <1>14, RoleFacts DEF TypeOK, FilesInv, Crash, Probing, ProbesDone, Locks
  <2>8. QED
    BY <2>1, <2>2, <2>3, <2>4, <2>5, <2>6, <2>7
<1>15. CASE UNCHANGED vars
  BY <1>15 DEF vars, TypeOK, ArbiterInv, HolderInv, IndexInv, ProbedInv, FilesInv, MutualExclusion, Critical,
     HoldsOwn, Target
<1>16. QED
  BY <1>1, <1>2, <1>3, <1>4, <1>5, <1>6, <1>7, <1>8, <1>9, <1>10, <1>11, <1>12, <1>13, <1>14, <1>15 DEF Next, Acquire

-----------------------------------------------------------------------------
(* The invariant holds of every behaviour, for any processes.              *)
THEOREM InductiveInvariant == Spec => []IInv
<1>1. Init => IInv
  BY InitIInv
<1>2. IInv /\ [Next]_vars => IInv'
  BY NextIInv
<1>3. QED
  BY <1>1, <1>2, PTL DEF Spec

(* Every variable keeps its type.                                          *)
THEOREM TypeCorrect == Spec => []TypeOK
<1>1. IInv => TypeOK
  BY DEF IInv
<1>2. QED
  BY <1>1, InductiveInvariant, PTL

(* p426_locks.py, line 6: of opposing starters at most one runs, and never *)
(* two of one role, whatever processes start, hang or die.                 *)
THEOREM Exclusive == Spec => []MutualExclusion
<1>1. IInv => MutualExclusion
  BY DEF IInv
<1>2. QED
  BY <1>1, InductiveInvariant, PTL

(* A lock that is found held is held by a process that has it as its own   *)
(* lock: probers hold the arbiter, and the starter has it now.             *)
LEMMA FoundHeld ==
  ASSUME IInv, NEW p \in Procs, ProbeHeld(p) \/ OwnHeld(p)
  PROVE  \E q \in Procs \ {p} : holder[why'[p]] = q /\ HoldsOwn(q) /\ OwnLock(q) = why'[p]
<1> USE DEF IInv
<1>1. \/ ProbeHeld(p) /\ why'[p] = Target(p)
      \/ OwnHeld(p) /\ why'[p] = OwnLock(p)
  BY DEF ProbeHeld, OwnHeld, TypeOK
<1>2. pc[p] = "probe" /\ Critical(p)
  BY DEF ProbeHeld, OwnHeld, Probing, ProbesDone, Critical
<1>3. why'[p] \in Locks \ {"ARBITER"}
  BY <1>1, RoleFacts DEF ProbeHeld, Probing, IndexInv, Target
<1>4. PICK q \in Procs : holder[why'[p]] = q
  BY <1>1, <1>3 DEF ProbeHeld, OwnHeld, TypeOK
<1>5. pc[q] # "probed"
  BY <1>2, OneCritical DEF Critical
<1>6. HoldsOwn(q) /\ OwnLock(q) = why'[p]
  BY <1>3, <1>4, <1>5 DEF HolderInv
<1>7. q # p
  BY <1>2, <1>6 DEF HoldsOwn
<1>8. QED
  BY <1>4, <1>6, <1>7

(* Only those two steps name a lock as the reason of a refusal.            *)
LEMMA RefusalStep ==
  ASSUME IInv, [Next]_vars, NEW p \in Procs, why'[p] # why[p], why'[p] \in Locks
  PROVE  \E q \in Procs \ {p} : holder[why'[p]] = q /\ HoldsOwn(q) /\ OwnLock(q) = why'[p]
<1>1. ~(UNCHANGED vars)
  BY DEF vars
<1>2. PICK r \in Procs : Start(r) \/ Deadline(r) \/ Acquire(r) \/ Release(r) \/ Crash(r)
  BY <1>1 DEF Next
<1>3. ProbeHeld(p) \/ OwnHeld(p)
  BY <1>2 DEF Start, Deadline, Acquire, Release, Crash, TakeArbiter, ArbiterTimeout, ProbeMissing,
     ProbeFree, Unprobe, ProbeHeld, ProbeUnreadable, TakeOwn, OwnHeld, ReleaseArbiter, IInv, TypeOK, Locks
<1>4. QED
  BY <1>3, FoundHeld

(* Nobody is refused by another starter trying a lock in passing.          *)
THEOREM RefusalsJustified == Spec => RefusedByAHolder
<1>1. IInv /\ [Next]_vars =>
        [\A p \in Procs :
           why'[p] # why[p] /\ why'[p] \in Locks
             => \E q \in Procs \ {p} : /\ holder[why'[p]] = q
                                       /\ HoldsOwn(q)
                                       /\ OwnLock(q) = why'[p]]_vars
  BY RefusalStep
<1>2. QED
  BY <1>1, InductiveInvariant, PTL DEF Spec, RefusedByAHolder

-----------------------------------------------------------------------------
(* The lock protocol implements Exclusion.                                 *)
LEMMA InitImplements == Init => Abstract!Init
BY DEF Init, Abstract!Init, Insiders, LockedOut, HoldsOwn

LEMMA StepImplements ==
  ASSUME IInv, IInv', [Next]_vars
  PROVE  [Abstract!Next]_(Abstract!vars)
<1> USE DEF Insiders, LockedOut, HoldsOwn, IInv, TypeOK
<1>1. ASSUME NEW p \in Procs, TakeOwn(p) PROVE Abstract!Enter(p)
  <2>1. Insiders' = Insiders \cup {p} /\ p \notin Insiders /\ LockedOut' = LockedOut
    BY <1>1 DEF TakeOwn, ProbesDone
  <2>2. \A q \in Insiders : ~Conflict(p, q)
    BY <2>1 DEF MutualExclusion
  <2>3. QED
    BY <2>1, <2>2 DEF Abstract!Enter
<1>2. ASSUME NEW p \in Procs, ProbeHeld(p) \/ OwnHeld(p) PROVE Abstract!TurnAway(p)
  <2>1. Insiders' = Insiders /\ p \notin Insiders
    BY <1>2 DEF ProbeHeld, OwnHeld, Probing, ProbesDone
  <2>2. why'[p] \in Locks
    BY <1>2, RoleFacts DEF ProbeHeld, OwnHeld, Probing, Target, IndexInv
  <2>3. LockedOut' = LockedOut \cup {p}
    BY <1>2, <2>2 DEF ProbeHeld, OwnHeld, Probing, ProbesDone
  <2>4. PICK q \in Procs \ {p} : HoldsOwn(q) /\ OwnLock(q) = why'[p]
    BY <1>2, FoundHeld
  <2>5. Conflict(p, q)
    <3>1. CASE ProbeHeld(p)
      <4>1. OwnLock(q) = ToProbe(p)[at[p]] /\ at[p] \in 1..Len(ToProbe(p))
        BY <3>1, <2>4 DEF ProbeHeld, Probing, Target, IndexInv
      <4>2. QED
        BY <4>1 DEF Conflict, Opposes, OwnLock, ToProbe
    <3>2. CASE OwnHeld(p)
      <4>1. OwnLock(q) = OwnLock(p)
        BY <3>2, <2>4 DEF OwnHeld
      <4>2. ActorOf[p] = ActorOf[q]
        BY <4>1, ProcsAssumption DEF OwnLock, Own, Actors
      <4>3. QED
        BY <4>2 DEF Conflict
    <3>3. QED
      BY <1>2, <3>1, <3>2
  <2>6. QED
    BY <2>1, <2>3, <2>4, <2>5 DEF Abstract!TurnAway
<1>3. ASSUME NEW p \in Procs, Release(p) PROVE Abstract!Leave(p)
  BY <1>3 DEF Release, Abstract!Leave
<1>4. ASSUME NEW p \in Procs, Start(p) PROVE Abstract!TryAgain(p) \/ UNCHANGED Abstract!vars
  <2>1. Insiders' = Insiders /\ LockedOut' = LockedOut \ {p}
    BY <1>4 DEF Start, Locks
  <2>2. QED
    BY <2>1 DEF Abstract!TryAgain, Abstract!vars
<1>5. ASSUME NEW p \in Procs, Crash(p)
      PROVE  Abstract!Leave(p) \/ Abstract!TryAgain(p) \/ UNCHANGED Abstract!vars
  <2>1. Insiders' = Insiders \ {p} /\ LockedOut' = LockedOut \ {p}
    BY <1>5 DEF Crash, Locks
  <2>2. ~(p \in Insiders /\ p \in LockedOut)
    OBVIOUS
  <2>3. QED
    BY <2>1, <2>2 DEF Abstract!Leave, Abstract!TryAgain, Abstract!vars
<1>6. ASSUME NEW p \in Procs,
             \/ Deadline(p) \/ TakeArbiter(p) \/ ArbiterTimeout(p) \/ ProbeMissing(p) \/ ProbeFree(p)
             \/ Unprobe(p) \/ ProbeUnreadable(p) \/ ReleaseArbiter(p)
      PROVE  UNCHANGED Abstract!vars
  <2>1. Insiders' = Insiders
    BY <1>6 DEF Deadline, TakeArbiter, ArbiterTimeout, ProbeMissing, ProbeFree, Unprobe, ProbeUnreadable,
       ReleaseArbiter, Probing
  <2>2. LockedOut' = LockedOut
    BY <1>6 DEF Deadline, TakeArbiter, ArbiterTimeout, ProbeMissing, ProbeFree, Unprobe, ProbeUnreadable,
       ReleaseArbiter, Probing, Locks
  <2>3. QED
    BY <2>1, <2>2 DEF Abstract!vars
<1>7. CASE UNCHANGED vars
  BY <1>7 DEF vars, Abstract!vars
<1>8. QED
  BY <1>1, <1>2, <1>3, <1>4, <1>5, <1>6, <1>7 DEF Next, Acquire, Abstract!Next

(* Processes enter one at a time, only when nobody they exclude is inside, *)
(* and are turned away by a lock only because such a one is inside.        *)
THEOREM Implements == Spec => ImplementsExclusion
<1>1. Init => Abstract!Init
  BY InitImplements
<1>2. IInv /\ IInv' /\ [Next]_vars => [Abstract!Next]_(Abstract!vars)
  BY StepImplements
<1>3. QED
  BY <1>1, <1>2, InductiveInvariant, PTL DEF Spec, ImplementsExclusion, Abstract!Spec
=============================================================================
