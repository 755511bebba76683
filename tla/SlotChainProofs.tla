-------------------------- MODULE SlotChainProofs --------------------------
(* Proofs about the incident-retry leg, for any number of items, re-runs,  *)
(* incidents, faults and restarts: its types; that no barrier file is      *)
(* ahead of the record that a resume needs and the probe runs no item past *)
(* a stop; what the dnf rows and the re-runs are; that a rejected row is   *)
(* never scored and what is scored stays; when the inventory always loads; *)
(* and that the leg implements the ledger of its slots.                    *)
EXTENDS SlotChain, FiniteSetTheorems, TLAPS

Live == probe.state \notin {"none", "exited"}

(* Where the chain is says whether its last invocation is running; a live  *)
(* probe belongs to a running invocation, watched by the chain or orphaned.*)
ChainInv ==
  /\ chain.pc \in {"spawn", "watch", "judge", "signal", "accept", "incomplete",
                   "archive_stopped", "archive"} => Running(doc)
  /\ chain.pc \in {"leg", "settle", "sidecar", "launch", "recover", "sync", "done", "stopped"} =>
       ~Running(doc)
  /\ chain.pc = "after" => Cur > 0 /\ Inv.status \in Counted
  /\ Live => Running(doc) /\ chain.pc \in {"watch", "judge", "signal", "down", "aborted"}
  /\ chain.pc = "spawn" => Inv.expect # {} /\ probe.state = "none" /\ files = NoFiles

Below(s) == {t \in Inv.expect : t < s}

(* The barrier files of an item appear in order, and an item is announced  *)
(* only when every item before it was let pass.                            *)
BarrierInv ==
  /\ files.ready # {} => Cur > 0 /\ files.ready \subseteq Inv.expect
  /\ files.cont \subseteq files.done /\ files.done \subseteq files.rows
  /\ files.rows \subseteq files.go /\ files.go \subseteq files.ready
  /\ \A s \in files.ready : Below(s) \subseteq files.cont

(* A stop concerns an item that waits at the barrier ...                   *)
StopFact(hook) ==
  /\ hook # NoHook
  /\ hook.kind = "before" => hook.slot \in files.ready \ files.go
  /\ hook.kind = "after" => hook.slot \in files.done \ files.cont

(* ... and so does a decision that is recorded but not signalled.          *)
Recorded(hook) ==
  /\ hook.kind = "before" => [inv |-> Cur, slot |-> hook.slot] \in doc.pre
  /\ hook.kind = "after" =>
       \E a \in doc.att : a.inv = Cur /\ a.slot = hook.slot /\ a.disp = hook.disp

StopInv ==
  /\ files.stop # NoHook => StopFact(files.stop)
  /\ chain.pc = "signal" => files.stop = NoHook /\ StopFact(chain.hook) /\ Recorded(chain.hook)
  /\ chain.pc = "judge" => files.stop = NoHook /\ Inv.expect # files.cont /\ Item \in files.done

(* What the probe has reached in its item is what its files say.           *)
ProbeInv ==
  /\ probe.state \in {"top", "wait_go", "item", "row", "wait_cont"} =>
       /\ probe.item \in Inv.expect /\ Below(probe.item) \subseteq files.cont
       /\ \A s \in files.ready : s <= probe.item
  /\ probe.state = "top" => probe.item \notin files.ready
  /\ probe.state = "wait_go" => probe.item \in files.ready \ files.rows
  /\ probe.state = "item" => probe.item \in files.go \ files.rows
  /\ probe.state = "row" => probe.item \in files.rows \ files.done
  /\ probe.state = "wait_cont" => probe.item \in files.done

IInv ==
  TypeOK /\ ChainInv /\ BarrierInv /\ StopInv /\ DispositionBeforeSignal /\ ProbeInv

-----------------------------------------------------------------------------
(* Least and Largest of a finite set of naturals, from the least element   *)
(* of a family of finite sets under inclusion.                             *)
UpTo(S, x) == {z \in S : z <= x}
From(S, x) == {z \in S : x <= z}

LEMMA Minimal ==
  ASSUME NEW F, F # {}, \A S \in F : IsFiniteSet(S)
  PROVE  \E S \in F : \A T \in F : T \subseteq S => T = S
<1> DEFINE U == UNION F
<1>1. F \subseteq FiniteSubsetsOf(U)
  BY DEF FiniteSubsetsOf
<1>2. IsWellFoundedOn(StrictSubsetOrdering(U), FiniteSubsetsOf(U))
  BY FS_StrictSubsetOrderingWellFounded
<1> HIDE DEF U
<1>3. PICK S \in F : \A T \in F : ~(<<T, S>> \in StrictSubsetOrdering(U))
  BY <1>1, <1>2, WFMin
<1>4. S \in SUBSET U /\ \A T \in F : T \in SUBSET U
  BY <1>1 DEF FiniteSubsetsOf
<1> QED
  BY <1>3, <1>4 DEF StrictSubsetOrdering

LEMMA LeastIsLeast ==
  ASSUME NEW S \in SUBSET Nat, S # {}, IsFiniteSet(S)
  PROVE  Least(S) \in S /\ \A y \in S : Least(S) <= y
<1> DEFINE F == {UpTo(S, x) : x \in S}
<1>1. F # {} /\ \A T \in F : IsFiniteSet(T)
  <2>1. \A x \in S : IsFiniteSet(UpTo(S, x))
    BY FS_Subset DEF UpTo
  <2> QED
    BY <2>1
<1>2. PICK T \in F : \A X \in F : X \subseteq T => X = T
  <2> HIDE DEF F
  <2> QED
    BY <1>1, Minimal
<1>3. PICK x \in S : T = UpTo(S, x)
  BY <1>2
<1>4. ASSUME NEW y \in S PROVE x <= y
  <2>1. CASE y < x
    <3>1. UpTo(S, y) \in F
      OBVIOUS
    <3>2. UpTo(S, y) \subseteq UpTo(S, x)
      <4>1. ASSUME NEW z \in S, z <= y PROVE z <= x
        <5>1. x \in Nat /\ y \in Nat /\ z \in Nat
          OBVIOUS
        <5> QED
          BY <2>1, <4>1, <5>1
      <4> QED
        BY <4>1 DEF UpTo
    <3>3. UpTo(S, y) = UpTo(S, x)
      BY <1>2, <1>3, <3>1, <3>2
    <3> QED
      BY <2>1, <3>3 DEF UpTo
  <2> QED
    BY <2>1
<1> QED
  BY <1>4 DEF Least

LEMMA LargestIsLargest ==
  ASSUME NEW S \in SUBSET Nat, S # {}, IsFiniteSet(S)
  PROVE  Largest(S) \in S /\ \A y \in S : y <= Largest(S)
<1> DEFINE F == {From(S, x) : x \in S}
<1>1. F # {} /\ \A T \in F : IsFiniteSet(T)
  <2>1. \A x \in S : IsFiniteSet(From(S, x))
    BY FS_Subset DEF From
  <2> QED
    BY <2>1
<1>2. PICK T \in F : \A X \in F : X \subseteq T => X = T
  <2> HIDE DEF F
  <2> QED
    BY <1>1, Minimal
<1>3. PICK x \in S : T = From(S, x)
  BY <1>2
<1>4. ASSUME NEW y \in S PROVE y <= x
  <2>1. CASE x < y
    <3>1. From(S, y) \in F
      OBVIOUS
    <3>2. From(S, y) \subseteq From(S, x)
      <4>1. ASSUME NEW z \in S, y <= z PROVE x <= z
        <5>1. x \in Nat /\ y \in Nat /\ z \in Nat
          OBVIOUS
        <5> QED
          BY <2>1, <4>1, <5>1
      <4> QED
        BY <4>1 DEF From
    <3>3. From(S, y) = From(S, x)
      BY <1>2, <1>3, <3>1, <3>2
    <3> QED
      BY <2>1, <3>3 DEF From
  <2> QED
    BY <2>1
<1> QED
  BY <1>4 DEF Largest

-----------------------------------------------------------------------------
(* The last invocation, its list and the files that refer to it.           *)
LEMMA Current ==
  ASSUME TypeOK
  PROVE  /\ Cur \in Nat
         /\ Cur > 0 => Inv \in Invocations /\ Cur \in 1..Len(doc.invs)
         /\ Running(doc) <=> Cur > 0 /\ Inv.status = "running"
BY DEF TypeOK, DocOK, Cur, Inv, Running

LEMMA SlotsFinite ==
  ASSUME NEW S \in SUBSET Slots
  PROVE  S \in SUBSET Nat /\ IsFiniteSet(S)
<1>1. IsFiniteSet(Slots)
  <2>1. N \in Int
    BY BoundsAssumption
  <2> QED
    BY <2>1, FS_Interval DEF Slots
<1>2. Slots \subseteq Nat
  BY BoundsAssumption DEF Slots
<1> QED
  BY <1>1, <1>2, FS_Subset

(* The item a chain that is not finished with the barrier looks at.        *)
LEMMA ItemIsNext ==
  ASSUME TypeOK, Cur > 0, BarrierInv, Inv.expect # files.cont
  PROVE  Item \in Inv.expect \ files.cont /\ \A s \in Inv.expect \ files.cont : Item <= s
<1>1. files.cont \subseteq Inv.expect
  BY DEF BarrierInv
<1>2. Inv.expect \ files.cont \in SUBSET Slots
  BY Current DEF Invocations
<1> QED
  BY <1>1, <1>2, SlotsFinite, LeastIsLeast DEF Item

LEMMA SameInvocation ==
  ASSUME doc'.invs = doc.invs
  PROVE  Cur' = Cur /\ Inv' = Inv /\ Running(doc)' = Running(doc)
BY DEF Cur, Inv, Running

(* A step that leaves the files, the probe and the inventory of            *)
(* invocations alone.                                                      *)
LEMMA SameBarrier ==
  ASSUME BarrierInv, ProbeInv, UNCHANGED <<files, probe>>, doc'.invs = doc.invs
  PROVE  /\ BarrierInv' /\ ProbeInv'
         /\ \A h : StopFact(h)' <=> StopFact(h)
BY SameInvocation DEF BarrierInv, ProbeInv, Below, StopFact

LEMMA NewTyped ==
  NoHook \in Hooks /\ NewManifest \in Manifests
<1>1. NoHook \in Hooks
  BY DEF Hooks
<1> QED
  BY <1>1 DEF NewManifest, Manifests

LEMMA InitIInv == Init => IInv
<1> SUFFICES ASSUME Init PROVE IInv
  OBVIOUS
<1>1. TypeOK
  <2>1. DocOK
    BY DEF Init, DocOK
  <2>2. FilesOK /\ ProbeOK
    BY BoundsAssumption, NewTyped DEF Init, FilesOK, ProbeOK, NoFiles
  <2>3. ChainOK
    BY NewTyped DEF Init, ChainOK, Points, Whys
  <2>4. faults \in 0..MaxFaults /\ resumes \in 0..MaxResumes
    BY BoundsAssumption DEF Init
  <2>5. OthersOK
    BY <2>4 DEF Init, OthersOK
  <2> QED
    BY <2>1, <2>2, <2>3, <2>5 DEF TypeOK
<1>2. Cur = 0 /\ ~Running(doc)
  BY DEF Init, Cur, Running
<1>3. ChainInv /\ StopInv /\ ProbeInv
  BY <1>2 DEF Init, ChainInv, StopInv, ProbeInv, Live, NoFiles
<1>4. BarrierInv /\ DispositionBeforeSignal
  BY <1>2 DEF Init, BarrierInv, DispositionBeforeSignal, NoFiles
<1> QED
  BY <1>1, <1>3, <1>4 DEF IInv

-----------------------------------------------------------------------------
(* The steps of the chain that touch neither the barrier nor the inventory *)
(* of invocations.                                                         *)
USE DEF At, GoTo, Abort

LEMMA ChainMoves ==
  ASSUME ChainOK, NEW p \in Points, NEW w \in Whys, NEW h \in Hooks
  PROVE  /\ (chain' = [chain EXCEPT !.pc = p] => ChainOK')
         /\ (chain' = [chain EXCEPT !.pc = p, !.hook = h] => ChainOK')
         /\ (chain' = [chain EXCEPT !.pc = p, !.why = w] => ChainOK')
         /\ (chain' = [pc |-> p, hook |-> h, restarted |-> FALSE, why |-> w] => ChainOK')
<1>1. ASSUME chain' = [chain EXCEPT !.pc = p] PROVE ChainOK'
  BY <1>1 DEF ChainOK
<1>2. ASSUME chain' = [chain EXCEPT !.pc = p, !.hook = h] PROVE ChainOK'
  BY <1>2 DEF ChainOK
<1>3. ASSUME chain' = [chain EXCEPT !.pc = p, !.why = w] PROVE ChainOK'
  BY <1>3 DEF ChainOK
<1>4. ASSUME chain' = [pc |-> p, hook |-> h, restarted |-> FALSE, why |-> w] PROVE ChainOK'
  BY <1>4 DEF ChainOK
<1> QED
  BY <1>1, <1>2, <1>3, <1>4

LEMMA Quiet ==
  ASSUME IInv, TypeOK', ChainInv',
         UNCHANGED <<files, probe>>, doc'.invs = doc.invs,
         Running(doc) => doc.att \subseteq doc'.att /\ doc.pre \subseteq doc'.pre,
         chain'.pc \in {"signal", "judge"} => UNCHANGED <<chain, doc>>
  PROVE  IInv'
<1>1. BarrierInv' /\ ProbeInv' /\ \A h : StopFact(h)' <=> StopFact(h)
  BY SameBarrier DEF IInv
<1>2. StopInv'
  BY <1>1, SameInvocation DEF IInv, StopInv, Item, Recorded
<1>3. DispositionBeforeSignal'
  <2>1. Running(doc)' = Running(doc) /\ Cur' = Cur
    BY SameInvocation
  <2>2. Running(doc) => doc.att \subseteq doc'.att /\ doc.pre \subseteq doc'.pre
    OBVIOUS
  <2> QED
    BY <2>1, <2>2 DEF IInv, DispositionBeforeSignal
<1> QED
  BY <1>1, <1>2, <1>3 DEF IInv

(* The same when chain.json does not change and the chain moves on.        *)
LEMMA QuietMove ==
  ASSUME IInv, UNCHANGED <<doc, files, probe>>, ChainOK', OthersOK', ChainInv',
         chain'.pc \notin {"signal", "judge"}
  PROVE  IInv'
<1>1. TypeOK'
  BY DEF IInv, TypeOK, DocOK, FilesOK, ProbeOK
<1> QED
  BY <1>1, Quiet

(* At most one fault a step, never more than MaxFaults.                    *)
FaultStep ==
  \/ faults' = faults
  \/ faults < MaxFaults /\ faults' = faults + 1

LEMMA NoFault ==
  ASSUME UNCHANGED faults
  PROVE  FaultStep
BY DEF FaultStep

LEMMA FaultBound ==
  ASSUME OthersOK, FaultStep
  PROVE  faults' \in 0..MaxFaults
BY BoundsAssumption DEF OthersOK, FaultStep

LEMMA OthersSame ==
  ASSUME OthersOK, UNCHANGED <<sidecar, judged, cancel, stopFile, resumes>>, FaultStep
  PROVE  OthersOK'
BY FaultBound DEF OthersOK

(* A move of the chain to a point where it has no decision pending.        *)
Undecided == Points \ {"signal", "judge"}

LEMMA MovesTo ==
  ASSUME ChainOK, NEW p \in Undecided, chain' = [chain EXCEPT !.pc = p]
  PROVE  ChainOK' /\ chain'.pc = p /\ chain'.pc \notin {"signal", "judge"}
BY DEF ChainOK, Undecided

LEMMA Aborts ==
  ASSUME ChainOK, NEW w \in Whys, Abort(w)
  PROVE  ChainOK' /\ chain'.pc = "aborted" /\ chain'.pc \notin {"signal", "judge"}
BY DEF ChainOK, Points

LEMMA MoveStep ==
  ASSUME IInv, UNCHANGED <<doc, files, probe, sidecar, judged, cancel, stopFile, resumes>>,
         FaultStep, ChainInv', ChainOK', chain'.pc \notin {"signal", "judge"}
  PROVE  IInv'
BY OthersSame, QuietMove DEF IInv, TypeOK

LEMMA LegTopStep == IInv /\ LegTop => IInv'
<1> SUFFICES ASSUME IInv, LegTop PROVE IInv'
  OBVIOUS
<1>1. PICK p \in {"stopped", "settle"} : chain' = [chain EXCEPT !.pc = p]
  BY DEF LegTop
<1>2. p \in Undecided
  BY DEF Undecided, Points
<1>3. ChainOK' /\ chain'.pc = p
  BY <1>1, <1>2, MovesTo DEF IInv, TypeOK
<1>4. ChainInv'
  BY <1>3, SameInvocation DEF LegTop, IInv, ChainInv, Live
<1> QED
  BY <1>3, <1>4, NoFault, MoveStep DEF LegTop

LEMMA NothingDueStep == IInv /\ NothingDue => IInv'
<1> SUFFICES ASSUME IInv, NothingDue PROVE IInv'
  OBVIOUS
<1>1. ChainOK' /\ chain'.pc = "launch"
  BY MovesTo DEF NothingDue, IInv, TypeOK, Undecided, Points
<1>2. ChainInv'
  BY <1>1, SameInvocation DEF NothingDue, IInv, ChainInv, Live
<1> QED
  BY <1>1, <1>2, NoFault, MoveStep DEF NothingDue

LEMMA ValidateStep == IInv /\ Validate => IInv'
<1> SUFFICES ASSUME IInv, Validate PROVE IInv'
  OBVIOUS
<1>1. PICK p \in {"accept", "archive_stopped", "incomplete"} : chain' = [chain EXCEPT !.pc = p]
  BY DEF Validate
<1>2. p \in Undecided
  BY DEF Undecided, Points
<1>3. ChainOK' /\ chain'.pc = p
  BY <1>1, <1>2, MovesTo DEF IInv, TypeOK
<1>4. ChainInv'
  BY <1>3, SameInvocation DEF Validate, IInv, ChainInv, Live
<1> QED
  BY <1>3, <1>4, NoFault, MoveStep DEF Validate

LEMMA EscalationRefusedStep == IInv /\ EscalationRefused => IInv'
<1> SUFFICES ASSUME IInv, EscalationRefused PROVE IInv'
  OBVIOUS
<1>1. ChainOK' /\ chain'.pc = "aborted"
  BY Aborts DEF EscalationRefused, IInv, TypeOK, Whys
<1>2. ChainInv'
  BY <1>1, SameInvocation DEF EscalationRefused, IInv, ChainInv, Live
<1> QED
  BY <1>1, <1>2, MoveStep DEF EscalationRefused, FaultStep, May

LEMMA RecoverStep == IInv /\ Recover => IInv'
<1> SUFFICES ASSUME IInv, Recover PROVE IInv'
  OBVIOUS
<1>1. ChainOK' /\ chain'.pc \in {"leg", "aborted"}
  <2>1. CASE GoTo("leg")
    BY <2>1, MovesTo DEF IInv, TypeOK, Undecided, Points
  <2>2. CASE Abort("recovery")
    BY <2>2, Aborts DEF IInv, TypeOK, Whys
  <2> QED
    BY <2>1, <2>2 DEF Recover
<1>2. ChainInv'
  BY <1>1, SameInvocation DEF Recover, IInv, ChainInv, Live
<1>3. FaultStep
  <2>1. UNCHANGED faults \/ (May("recover") /\ faults' = faults + 1)
    BY DEF Recover
  <2> QED
    BY <2>1, NoFault DEF FaultStep, May
<1> QED
  BY <1>1, <1>2, <1>3, MoveStep DEF Recover

LEMMA WriteSidecarStep == IInv /\ WriteSidecar => IInv'
<1> SUFFICES ASSUME IInv, WriteSidecar PROVE IInv'
  OBVIOUS
<1>1. ChainOK' /\ chain'.pc = "settle"
  BY MovesTo DEF WriteSidecar, IInv, TypeOK, Undecided, Points
<1>2. ChainInv'
  BY <1>1, SameInvocation DEF WriteSidecar, IInv, ChainInv, Live
<1>3. OthersOK'
  BY DEF WriteSidecar, IInv, TypeOK, DocOK, OthersOK
<1> QED
  BY <1>1, <1>2, <1>3, QuietMove DEF WriteSidecar

LEMMA SyncSidecarsStep == IInv /\ SyncSidecars => IInv'
<1> SUFFICES ASSUME IInv, SyncSidecars PROVE IInv'
  OBVIOUS
<1>1. ChainOK' /\ chain'.pc = "leg"
  BY MovesTo DEF SyncSidecars, IInv, TypeOK, Undecided, Points
<1>2. ChainInv'
  BY <1>1, SameInvocation DEF SyncSidecars, IInv, ChainInv, Live
<1>3. OthersOK'
  BY DEF SyncSidecars, IInv, TypeOK, DocOK, OthersOK
<1> QED
  BY <1>1, <1>2, <1>3, QuietMove DEF SyncSidecars

(* A cancel, a STOP: the chain stays where it is.                          *)
LEMMA CancelStep == IInv /\ (CancelOnStop \/ CancelIdle \/ OperatorStop) => IInv'
<1> SUFFICES ASSUME IInv, CancelOnStop \/ CancelIdle \/ OperatorStop PROVE IInv'
  OBVIOUS
<1>1. UNCHANGED <<doc, files, probe, chain, sidecar, judged, resumes>> /\ FaultStep
  <2>1. CASE CancelOnStop
    BY <2>1, NoFault DEF CancelOnStop
  <2>2. CASE CancelIdle
    BY <2>2 DEF CancelIdle, FaultStep, May
  <2>3. CASE OperatorStop
    BY <2>3 DEF OperatorStop, FaultStep, May
  <2> QED
    BY <2>1, <2>2, <2>3
<1>2. cancel' \in {"none", "STOP", "idle"} /\ stopFile' \in BOOLEAN
  BY DEF IInv, TypeOK, OthersOK, CancelOnStop, CancelIdle, OperatorStop
<1>3. OthersOK'
  BY <1>1, <1>2, FaultBound DEF OthersOK, IInv, TypeOK
<1>4. TypeOK'
  BY <1>1, <1>3 DEF IInv, TypeOK, DocOK, FilesOK, ProbeOK, ChainOK
<1>5. ChainInv'
  BY <1>1, SameInvocation DEF IInv, ChainInv, Live
<1> QED
  BY <1>1, <1>4, <1>5, Quiet

LEMMA CrashStep == IInv /\ Crash => IInv'
<1> SUFFICES ASSUME IInv, Crash PROVE IInv'
  OBVIOUS
<1>1. ChainOK' /\ chain'.pc = "down"
  BY ChainMoves, NewTyped DEF Crash, IInv, TypeOK, Points, Whys
<1>2. OthersOK'
  BY OthersSame DEF Crash, IInv, TypeOK, FaultStep, May
<1>3. ChainInv'
  BY <1>1, SameInvocation DEF Crash, IInv, ChainInv, Live
<1> QED
  BY <1>1, <1>2, <1>3, QuietMove DEF Crash

LEMMA RestartStep == IInv /\ Restart => IInv'
<1> SUFFICES ASSUME IInv, Restart PROVE IInv'
  OBVIOUS
<1>1. ChainOK' /\ chain'.pc = "resume"
  BY ChainMoves, NewTyped DEF Restart, IInv, TypeOK, Points, Whys
<1>2. resumes' \in 0..MaxResumes
  BY BoundsAssumption DEF Restart, IInv, TypeOK, OthersOK
<1>3. OthersOK'
  BY <1>2 DEF Restart, IInv, TypeOK, OthersOK
<1>4. ChainInv'
  BY <1>1, SameInvocation DEF Restart, IInv, ChainInv, Live
<1> QED
  BY <1>1, <1>3, <1>4, QuietMove DEF Restart

-----------------------------------------------------------------------------
(* The steps of the probe.                                                 *)
USE DEF ProbeOnly

LEMMA ProbeMoves ==
  ASSUME IInv, Live, ProbeOnly, FaultStep, FilesOK', ProbeOK', BarrierInv', ProbeInv',
         files'.stop = files.stop, files'.go = files.go, files'.cont = files.cont,
         files.ready \subseteq files'.ready, files.done \subseteq files'.done
  PROVE  IInv'
<1>1. TypeOK'
  BY OthersSame DEF IInv, TypeOK, DocOK, ChainOK
<1>2. Cur' = Cur /\ Inv' = Inv /\ Running(doc)' = Running(doc)
  BY SameInvocation
<1>3. ChainInv'
  BY <1>2 DEF IInv, ChainInv, Live
<1>4. StopInv'
  <2>1. \A h : StopFact(h) => StopFact(h)'
    BY DEF StopFact
  <2>2. \A h : Recorded(h) => Recorded(h)'
    BY <1>2 DEF Recorded
  <2>3. Item' = Item
    BY <1>2 DEF Item
  <2> QED
    BY <1>2, <2>1, <2>2, <2>3 DEF IInv, StopInv
<1>5. DispositionBeforeSignal'
  BY <1>2 DEF IInv, DispositionBeforeSignal
<1> QED
  BY <1>1, <1>3, <1>4, <1>5 DEF IInv

(* The probe moves on with the files as they are.                          *)
LEMMA ProbeEnds ==
  ASSUME IInv, Live, ProbeOnly, FaultStep, UNCHANGED files, ProbeOK',
         probe'.state \in {"closing", "exited"}
  PROVE  IInv'
<1>1. BarrierInv' /\ FilesOK'
  BY SameInvocation DEF IInv, BarrierInv, Below, TypeOK, FilesOK
<1>2. ProbeInv'
  BY DEF ProbeInv
<1> QED
  BY <1>1, <1>2, ProbeMoves

LEMMA ProbeStopStep == IInv /\ ProbeStop => IInv'
<1> SUFFICES ASSUME IInv, ProbeStop PROVE IInv'
  OBVIOUS
<1>1. files.stop \in Hooks
  BY DEF IInv, TypeOK, FilesOK
<1>2. ProbeOK' /\ probe'.state = "closing" /\ Live
  BY <1>1 DEF ProbeStop, IInv, TypeOK, ProbeOK, Manifests, Live
<1> QED
  BY <1>2, NoFault, ProbeEnds DEF ProbeStop

LEMMA AbortStamped ==
  ASSUME ProbeOK, NEW a \in {"cancelled", "transport", "harness"}, StampAbort(a)
  PROVE  ProbeOK' /\ probe'.state = "closing"
BY DEF StampAbort, ProbeOK, Manifests

LEMMA ProbeAbortStep ==
  IInv /\ (ProbeCancelled \/ ProbeTransport \/ ProbeHarness \/ OrphanTimeout) => IInv'
<1> SUFFICES ASSUME IInv, ProbeCancelled \/ ProbeTransport \/ ProbeHarness \/ OrphanTimeout
             PROVE  IInv'
  OBVIOUS
<1>1. PICK a \in {"cancelled", "transport", "harness"} : StampAbort(a)
  BY DEF ProbeCancelled, ProbeTransport, ProbeHarness, OrphanTimeout
<1>2. ProbeOK' /\ probe'.state = "closing"
  BY <1>1, AbortStamped DEF IInv, TypeOK
<1>3. Live /\ ProbeOnly /\ UNCHANGED files
  BY DEF ProbeCancelled, ProbeTransport, ProbeHarness, OrphanTimeout, Live
<1>4. FaultStep
  BY DEF ProbeCancelled, ProbeTransport, ProbeHarness, OrphanTimeout, FaultStep, May
<1> QED
  BY <1>2, <1>3, <1>4, ProbeEnds

LEMMA ProbeExitStep == IInv /\ ProbeExit => IInv'
<1> SUFFICES ASSUME IInv, ProbeExit PROVE IInv'
  OBVIOUS
<1>1. PICK drift \in BOOLEAN, unclean \in BOOLEAN :
        /\ drift => May("drift")
        /\ unclean => May("unclean")
        /\ probe' = [probe EXCEPT !.state = "exited", !.man.drift = drift, !.man.clean = ~unclean]
        /\ faults' = IF drift \/ unclean THEN faults + 1 ELSE faults
  BY DEF ProbeExit
<1>2. ProbeOK' /\ probe'.state = "exited"
  BY <1>1 DEF IInv, TypeOK, ProbeOK, Manifests
<1>3. FaultStep
  BY <1>1 DEF FaultStep, May
<1> QED
  BY <1>2, <1>3, ProbeEnds DEF ProbeExit, Live

LEMMA ProbeKilledStep == IInv /\ ProbeKilled => IInv'
<1> SUFFICES ASSUME IInv, ProbeKilled PROVE IInv'
  OBVIOUS
<1>1. ProbeOK' /\ probe'.state = "exited"
  BY DEF ProbeKilled, IInv, TypeOK, ProbeOK, Manifests
<1>2. FaultStep
  BY DEF ProbeKilled, FaultStep, May
<1> QED
  BY <1>1, <1>2, ProbeEnds DEF ProbeKilled, Live

LEMMA Becomes ==
  ASSUME ProbeOK, NEW s \in {"wait_go", "item", "row", "wait_cont"}, Become(s)
  PROVE  ProbeOK' /\ probe'.state = s /\ probe'.item = probe.item
BY DEF Become, ProbeOK

(* The probe's item and the list it is from are slots.                     *)
LEMMA ItemTyped ==
  ASSUME IInv, probe.state \in {"top", "wait_go", "item", "row", "wait_cont"}
  PROVE  Inv.expect \subseteq Slots /\ probe.item \in Inv.expect /\ Cur > 0
<1>1. Running(doc)
  BY DEF IInv, ChainInv, Live
<1>2. Cur > 0 /\ Inv \in Invocations
  BY <1>1, Current DEF IInv
<1> QED
  BY <1>2 DEF IInv, ProbeInv, Invocations

LEMMA ProbeReadyStep == IInv /\ ProbeReady => IInv'
<1> SUFFICES ASSUME IInv, ProbeReady PROVE IInv'
  OBVIOUS
<1> USE DEF ProbeReady
<1>1. probe.item \in Inv.expect /\ Inv.expect \subseteq Slots /\ Cur > 0
  BY ItemTyped DEF IInv
<1>2. ProbeOK' /\ probe'.state = "wait_go" /\ probe'.item = probe.item /\ Live
  BY Becomes DEF IInv, TypeOK, Live
<1>3. files' = [files EXCEPT !.ready = @ \cup {probe.item}] /\ FilesOK'
  BY <1>1 DEF IInv, TypeOK, FilesOK
<1>4. files'.ready = files.ready \cup {probe.item} /\ files'.rows = files.rows
      /\ files'.go = files.go /\ files'.done = files.done /\ files'.cont = files.cont
      /\ files'.stop = files.stop
  BY DEF IInv, TypeOK, FilesOK
<1>5. Cur' = Cur /\ Inv' = Inv
  BY SameInvocation
<1>6. BarrierInv'
  BY <1>1, <1>4, <1>5 DEF IInv, BarrierInv, ProbeInv, Below
<1>7. ProbeInv'
  <2>1. probe.item \in Nat
    BY <1>1, BoundsAssumption DEF Slots
  <2>2. probe.item \notin files.rows
    BY DEF IInv, ProbeInv, BarrierInv
  <2> QED
    BY <1>1, <1>2, <1>4, <1>5, <2>1, <2>2 DEF IInv, ProbeInv, Below
<1> QED
  BY <1>2, <1>3, <1>4, <1>6, <1>7, NoFault, ProbeMoves

LEMMA ProbeGoStep == IInv /\ ProbeGo => IInv'
<1> SUFFICES ASSUME IInv, ProbeGo PROVE IInv'
  OBVIOUS
<1> USE DEF ProbeGo
<1>1. ProbeOK' /\ probe'.state = "item" /\ probe'.item = probe.item /\ Live
  BY Becomes DEF IInv, TypeOK, Live
<1>2. Cur' = Cur /\ Inv' = Inv /\ UNCHANGED files
  BY SameInvocation
<1>3. BarrierInv' /\ FilesOK'
  BY <1>2 DEF IInv, BarrierInv, Below, TypeOK, FilesOK
<1>4. ProbeInv'
  BY <1>1, <1>2 DEF IInv, ProbeInv, Below
<1> QED
  BY <1>1, <1>2, <1>3, <1>4, NoFault, ProbeMoves

LEMMA ProbeRowStep == IInv /\ ProbeRow => IInv'
<1> SUFFICES ASSUME IInv, ProbeRow PROVE IInv'
  OBVIOUS
<1> USE DEF ProbeRow
<1>1. probe.item \in Inv.expect /\ Inv.expect \subseteq Slots
  BY ItemTyped DEF IInv
<1>2. ProbeOK' /\ probe'.state = "row" /\ probe'.item = probe.item /\ Live
  BY Becomes DEF IInv, TypeOK, Live
<1>3. FilesOK'
  BY <1>1 DEF IInv, TypeOK, FilesOK
<1>4. files'.rows = files.rows \cup {probe.item} /\ files'.ready = files.ready
      /\ files'.go = files.go /\ files'.done = files.done /\ files'.cont = files.cont
      /\ files'.stop = files.stop
  BY DEF IInv, TypeOK, FilesOK
<1>5. Cur' = Cur /\ Inv' = Inv
  BY SameInvocation
<1>6. BarrierInv'
  BY <1>4, <1>5 DEF IInv, BarrierInv, ProbeInv, Below
<1>7. ProbeInv'
  BY <1>2, <1>4, <1>5 DEF IInv, ProbeInv, BarrierInv, Below
<1> QED
  BY <1>2, <1>3, <1>4, <1>6, <1>7, NoFault, ProbeMoves

LEMMA ProbeDoneStep == IInv /\ ProbeDone => IInv'
<1> SUFFICES ASSUME IInv, ProbeDone PROVE IInv'
  OBVIOUS
<1> USE DEF ProbeDone
<1>1. probe.item \in Inv.expect /\ Inv.expect \subseteq Slots
  BY ItemTyped DEF IInv
<1>2. ProbeOK' /\ probe'.state = "wait_cont" /\ probe'.item = probe.item /\ Live
  BY Becomes DEF IInv, TypeOK, Live
<1>3. FilesOK'
  BY <1>1 DEF IInv, TypeOK, FilesOK
<1>4. files'.done = files.done \cup {probe.item} /\ files'.ready = files.ready
      /\ files'.go = files.go /\ files'.rows = files.rows /\ files'.cont = files.cont
      /\ files'.stop = files.stop
  BY DEF IInv, TypeOK, FilesOK
<1>5. Cur' = Cur /\ Inv' = Inv
  BY SameInvocation
<1>6. BarrierInv'
  BY <1>4, <1>5 DEF IInv, BarrierInv, ProbeInv, Below
<1>7. ProbeInv'
  BY <1>2, <1>4, <1>5 DEF IInv, ProbeInv, Below
<1> QED
  BY <1>2, <1>3, <1>4, <1>6, <1>7, NoFault, ProbeMoves

(* The next item is the first without a row; everything before it has been *)
(* let pass.                                                               *)
LEMMA ProbeContinueStep == IInv /\ ProbeContinue => IInv'
<1> SUFFICES ASSUME IInv, ProbeContinue PROVE IInv'
  OBVIOUS
<1> USE DEF ProbeContinue
<1>1. probe.item \in Inv.expect /\ Inv.expect \subseteq Slots /\ Cur > 0 /\ Live
  BY ItemTyped DEF IInv, Live
<1>2. Cur' = Cur /\ Inv' = Inv /\ UNCHANGED files
  BY SameInvocation
<1>3. BarrierInv' /\ FilesOK'
  BY <1>2 DEF IInv, BarrierInv, Below, TypeOK, FilesOK
<1>4. CASE files.rows = Inv.expect
  <2>1. ProbeOK' /\ probe'.state = "closing"
    BY <1>4 DEF IInv, TypeOK, ProbeOK
  <2> QED
    BY <1>1, <1>2, <2>1, NoFault, ProbeEnds
<1>5. CASE files.rows # Inv.expect
  <2> DEFINE next == Least(Inv.expect \ files.rows)
  <2>1. files.rows \subseteq Inv.expect /\ files.rows \subseteq files.ready
    BY <1>1 DEF IInv, BarrierInv
  <2>2. next \in Inv.expect \ files.rows /\ \A s \in Inv.expect \ files.rows : next <= s
    <3>1. Inv.expect \ files.rows \in SUBSET Slots /\ Inv.expect \ files.rows # {}
      BY <1>1, <1>5, <2>1
    <3> QED
      BY <3>1, SlotsFinite, LeastIsLeast
  <2> HIDE DEF next
  <2>3. probe' = [probe EXCEPT !.state = "top", !.item = next]
    BY <1>5 DEF next
  <2>4. ProbeOK' /\ probe'.state = "top" /\ probe'.item = next
    <3>1. next \in 0..N
      BY <1>1, <2>2, BoundsAssumption DEF Slots
    <3> QED
      BY <2>3, <3>1 DEF IInv, TypeOK, ProbeOK
  <2>5. \A s \in Inv.expect : s \in Nat
    BY <1>1, BoundsAssumption DEF Slots
  <2>6. probe.item \in files.cont /\ probe.item \in files.rows
    BY DEF IInv, ProbeInv, BarrierInv
  <2>7. \A t \in files.rows : t \in files.cont
    BY <2>1, <2>5, <2>6, <1>1 DEF IInv, ProbeInv, Below
  <2>8. Below(next) \subseteq files.cont
    BY <2>2, <2>5, <2>7 DEF Below
  <2>9. probe.item < next
    <3>1. next # probe.item
      BY <2>2, <2>6
    <3>2. next < probe.item => next \in files.cont
      BY <2>2 DEF IInv, ProbeInv, Below
    <3>3. next \notin files.cont
      BY <2>2 DEF IInv, BarrierInv
    <3> QED
      BY <1>1, <2>2, <2>5, <3>1, <3>2, <3>3
  <2>10. \A s \in files.ready : s < next
    BY <1>1, <2>2, <2>5, <2>9 DEF IInv, ProbeInv, BarrierInv
  <2>11. ProbeInv'
    <3>1. next \notin files.ready
      BY <2>2, <2>5, <2>10
    <3>2. \A s \in files.ready : s <= next
      BY <1>1, <2>2, <2>5, <2>10 DEF IInv, BarrierInv
    <3> QED
      BY <1>2, <2>2, <2>4, <2>8, <3>1, <3>2 DEF ProbeInv, Below
  <2> QED
    BY <1>1, <1>2, <1>3, <2>4, <2>11, NoFault, ProbeMoves
<1> QED
  BY <1>4, <1>5

-----------------------------------------------------------------------------
(* The chain at the barrier.                                               *)
LEMMA AtBarrier ==
  ASSUME IInv, chain.pc \in {"watch", "judge", "signal"}
  PROVE  Cur > 0 /\ Cur \in 1..Len(doc.invs) /\ Inv \in Invocations /\ Inv.expect \subseteq Slots
<1>1. Running(doc)
  BY DEF IInv, ChainInv
<1>2. Cur > 0
  BY <1>1, Current DEF IInv
<1> QED
  BY <1>2, Current DEF IInv, Invocations

LEMMA NextItem ==
  ASSUME IInv, chain.pc \in {"watch", "judge"}, Inv.expect # files.cont
  PROVE  /\ Item \in Inv.expect \ files.cont /\ Item \in Slots
         /\ \A s \in Inv.expect \ files.cont : Item <= s
BY AtBarrier, ItemIsNext DEF IInv

LEMMA AnswerGoStep == IInv /\ AnswerGo => IInv'
<1> SUFFICES ASSUME IInv, AnswerGo PROVE IInv'
  OBVIOUS
<1> USE DEF AnswerGo, Pumping
<1>1. Item \in Slots
  BY NextItem
<1>2. Cur' = Cur /\ Inv' = Inv /\ Running(doc)' = Running(doc)
  BY SameInvocation
<1>3. FilesOK'
  BY <1>1 DEF IInv, TypeOK, FilesOK
<1>4. files'.go = files.go \cup {Item} /\ files'.ready = files.ready
      /\ files'.rows = files.rows /\ files'.done = files.done /\ files'.cont = files.cont
      /\ files'.stop = files.stop
  BY DEF IInv, TypeOK, FilesOK
<1>5. TypeOK'
  BY <1>3, NoFault, OthersSame DEF IInv, TypeOK, DocOK, ProbeOK, ChainOK
<1>6. ChainInv'
  BY <1>2 DEF IInv, ChainInv, Live
<1>7. BarrierInv'
  BY <1>2, <1>4 DEF IInv, BarrierInv, Below, IsReady
<1>8. StopInv'
  BY <1>4 DEF IInv, StopInv
<1>9. DispositionBeforeSignal'
  BY <1>2, <1>4 DEF IInv, DispositionBeforeSignal
<1>10. ProbeInv'
  BY <1>2, <1>4 DEF IInv, ProbeInv, Below
<1> QED
  BY <1>5, <1>6, <1>7, <1>8, <1>9, <1>10 DEF IInv

LEMMA ReadDoneStep == IInv /\ ReadDone => IInv'
<1> SUFFICES ASSUME IInv, ReadDone PROVE IInv'
  OBVIOUS
<1> USE DEF ReadDone, Pumping
<1>1. Cur' = Cur /\ Inv' = Inv /\ Running(doc)' = Running(doc)
  BY SameInvocation
<1>2. ChainOK' /\ chain'.pc = "judge"
  BY ChainMoves, NewTyped DEF IInv, TypeOK, ChainOK, Points
<1>3. TypeOK'
  BY <1>2, NoFault, OthersSame DEF IInv, TypeOK, DocOK, FilesOK, ProbeOK
<1>4. ChainInv'
  BY <1>1, <1>2 DEF IInv, ChainInv, Live
<1>5. BarrierInv' /\ ProbeInv' /\ \A h : StopFact(h)' <=> StopFact(h)
  BY SameBarrier DEF IInv
<1>6. StopInv'
  BY <1>1, <1>2, <1>5 DEF IInv, StopInv, Item
<1>7. DispositionBeforeSignal'
  BY <1>1 DEF IInv, DispositionBeforeSignal
<1> QED
  BY <1>3, <1>4, <1>5, <1>6, <1>7 DEF IInv

(* A decision is recorded: what it concerns waits at the barrier.          *)
LEMMA Decides ==
  ASSUME IInv, TypeOK', UNCHANGED <<files, probe>>, doc'.invs = doc.invs,
         doc.att \subseteq doc'.att, doc.pre \subseteq doc'.pre,
         chain.pc \in {"watch", "judge"}, chain'.pc = "signal", files.stop = NoHook,
         StopFact(chain'.hook), Recorded(chain.hook)'
  PROVE  IInv'
<1>1. Cur' = Cur /\ Inv' = Inv /\ Running(doc)' = Running(doc)
  BY SameInvocation
<1>2. ChainInv'
  BY <1>1 DEF IInv, ChainInv, Live
<1>3. BarrierInv' /\ ProbeInv' /\ \A h : StopFact(h)' <=> StopFact(h)
  BY SameBarrier DEF IInv
<1>4. StopInv'
  BY DEF StopInv, StopFact
<1>5. DispositionBeforeSignal'
  BY <1>1 DEF IInv, DispositionBeforeSignal
<1> QED
  BY <1>2, <1>3, <1>4, <1>5 DEF IInv

LEMMA PersistPreSpawnStep == IInv /\ PersistPreSpawn => IInv'
<1> SUFFICES ASSUME IInv, PersistPreSpawn PROVE IInv'
  OBVIOUS
<1> USE DEF PersistPreSpawn, Pumping
<1>1. Item \in Slots /\ Cur \in 1..Len(doc.invs) /\ Item \in files.ready \ files.go
  BY NextItem, AtBarrier DEF IsReady
<1> DEFINE p == [inv |-> Cur, slot |-> Item]
           i == Incident(Cur, Item, TRUE)
<1>2. p \in PreSpawns /\ i \in IncidentRecords /\ p.inv = Cur /\ i.inv = Cur
  BY <1>1 DEF PreSpawns, IncidentRecords, Incident
<1>3. doc' = [doc EXCEPT !.pre = @ \cup {p}, !.inc = @ \cup {i}]
  OBVIOUS
<1> HIDE DEF i
<1>4. /\ doc'.invs = doc.invs /\ doc'.att = doc.att
      /\ doc'.pre = doc.pre \cup {p} /\ doc'.inc = doc.inc \cup {i}
  BY <1>3 DEF IInv, TypeOK, DocOK
<1>5. DocOK'
  BY <1>1, <1>2, <1>3, <1>4 DEF IInv, TypeOK, DocOK
<1>6. Before(Item) \in Hooks /\ Before(Item) # NoHook
  BY <1>1 DEF Hooks, Before, NoHook
<1>7. ChainOK' /\ chain'.pc = "signal" /\ chain'.hook = Before(Item)
  BY <1>6, ChainMoves, NewTyped DEF IInv, TypeOK, ChainOK, Points
<1>8. OthersOK'
  BY OthersSame DEF FaultStep, May, IInv, TypeOK
<1>9. StopFact(chain'.hook)
  BY <1>1, <1>6, <1>7 DEF StopFact, Before
<1>10. Recorded(chain.hook)'
  BY <1>4, <1>7, SameInvocation DEF Recorded, Before
<1>11. TypeOK'
  BY <1>5, <1>7, <1>8 DEF IInv, TypeOK, FilesOK, ProbeOK
<1> QED
  BY <1>4, <1>7, <1>9, <1>10, <1>11, Decides

LEMMA PersistVerdictStep == IInv /\ PersistVerdict => IInv'
<1> SUFFICES ASSUME IInv, PersistVerdict PROVE IInv'
  OBVIOUS
<1>1. Item \in Slots /\ Cur \in 1..Len(doc.invs) /\ Item \in files.done \ files.cont
      /\ files.stop = NoHook /\ Inv \in Invocations /\ chain.pc = "judge"
  BY NextItem, AtBarrier DEF PersistVerdict, IInv, StopInv
<1>2. PICK v \in Verdicts :
        LET a == [inv |-> Cur, slot |-> Item, rindex |-> Inv.rindex, disp |-> Disposition(v)]
        IN /\ doc' = [doc EXCEPT !.att = @ \cup {a}]
           /\ judged' = judged \cup {a}
           /\ chain' = [chain EXCEPT !.pc = "signal", !.hook = After(Item, a.disp)]
           /\ faults' = IF v = "accepted" THEN faults ELSE faults + 1
  BY DEF PersistVerdict
<1> DEFINE d == Disposition(v)
           a == [inv |-> Cur, slot |-> Item, rindex |-> Inv.rindex, disp |-> d]
<1>3. d \in Verdict /\ FaultStep
  BY <1>2 DEF Verdicts, Verdict, Disposition, May, FaultStep
<1> HIDE DEF d
<1>4. a \in Attempts /\ a.inv = Cur /\ a.slot = Item /\ a.disp = d
  BY <1>1, <1>3 DEF Attempts, Invocations
<1>5. /\ doc' = [doc EXCEPT !.att = @ \cup {a}]
      /\ judged' = judged \cup {a}
      /\ chain' = [chain EXCEPT !.pc = "signal", !.hook = After(Item, d)]
  BY <1>2 DEF d
<1> HIDE DEF a
<1>6. doc'.invs = doc.invs /\ doc'.pre = doc.pre /\ doc'.att = doc.att \cup {a}
  BY <1>5 DEF IInv, TypeOK, DocOK
<1>7. DocOK'
  BY <1>1, <1>4, <1>5, <1>6 DEF IInv, TypeOK, DocOK
<1>8. After(Item, d) \in Hooks /\ After(Item, d) # NoHook
  BY <1>1, <1>3 DEF Hooks, After, NoHook
<1>9. ChainOK' /\ chain'.pc = "signal" /\ chain'.hook = After(Item, d)
  BY <1>5, <1>8 DEF IInv, TypeOK, ChainOK, Points
<1>10. OthersOK'
  BY <1>3, <1>4, <1>5, FaultBound DEF PersistVerdict, IInv, TypeOK, OthersOK
<1>11. StopFact(chain'.hook)
  BY <1>1, <1>8, <1>9 DEF StopFact, After
<1>12. Recorded(chain.hook)'
  BY <1>4, <1>6, <1>9, SameInvocation DEF Recorded, After
<1>13. TypeOK' /\ UNCHANGED <<files, probe>>
  BY <1>7, <1>9, <1>10 DEF PersistVerdict, IInv, TypeOK, FilesOK, ProbeOK
<1> QED
  BY <1>1, <1>6, <1>9, <1>11, <1>12, <1>13, Decides

LEMMA SignalStep == IInv /\ Signal => IInv'
<1> SUFFICES ASSUME IInv, Signal PROVE IInv'
  OBVIOUS
<1> USE DEF Signal
<1> DEFINE h == chain.hook
<1>1. /\ files.stop = NoHook /\ StopFact(h) /\ Recorded(h) /\ Running(doc) /\ h \in Hooks
      /\ h \in Hooks => h.kind \in {"before", "after"} /\ h.slot \in Slots
  <2>1. files.stop = NoHook /\ StopFact(h) /\ Recorded(h) /\ Running(doc) /\ h \in Hooks
    BY DEF IInv, StopInv, ChainInv, TypeOK, ChainOK
  <2>2. h.kind \in {"before", "after"} /\ h.slot \in Slots
    BY <2>1 DEF StopFact, Hooks
  <2> QED
    BY <2>1, <2>2
<1>2. Cur' = Cur /\ Inv' = Inv /\ Running(doc)' = Running(doc)
  BY SameInvocation
<1>3. OthersOK' /\ DocOK' /\ ProbeOK'
  BY NoFault, OthersSame DEF IInv, TypeOK, DocOK, ProbeOK
<1>4. CASE h.disp \in {"accepted", "exhausted"}
  <2>1. h.kind = "after" /\ h.slot \in files.done \ files.cont
    BY <1>1, <1>4 DEF Hooks, StopFact
  <2>2. /\ files' = [files EXCEPT !.cont = @ \cup {h.slot}]
        /\ chain' = [chain EXCEPT !.pc = "watch", !.hook = NoHook]
    BY <1>4
  <2>3. ChainOK' /\ chain'.pc = "watch"
    BY <2>2, ChainMoves, NewTyped DEF IInv, TypeOK, ChainOK, Points
  <2>4. FilesOK'
    BY <1>1, <2>2 DEF IInv, TypeOK, FilesOK
  <2>5. files'.cont = files.cont \cup {h.slot} /\ files'.ready = files.ready /\ files'.go = files.go
        /\ files'.rows = files.rows /\ files'.done = files.done /\ files'.stop = files.stop
    BY <2>2 DEF IInv, TypeOK, FilesOK
  <2>6. ChainInv'
    BY <1>1, <1>2, <2>3 DEF IInv, ChainInv, Live
  <2>7. BarrierInv'
    BY <1>2, <2>1, <2>5 DEF IInv, BarrierInv, Below
  <2>8. StopInv'
    BY <1>1, <2>3, <2>5 DEF StopInv
  <2>9. ProbeInv'
    BY <1>2, <2>5 DEF IInv, ProbeInv, Below
  <2>10. DispositionBeforeSignal'
    <3>1. \E a \in doc.att : a.inv = Cur /\ a.slot = h.slot /\ a.disp \in {"accepted", "exhausted"}
      BY <1>1, <1>4, <2>1 DEF Recorded
    <3> HIDE DEF h
    <3> QED
      BY <1>1, <1>2, <2>5, <3>1 DEF IInv, DispositionBeforeSignal
  <2> QED
    BY <1>3, <2>3, <2>4, <2>6, <2>7, <2>8, <2>9, <2>10 DEF IInv, TypeOK
<1>5. CASE h.disp \notin {"accepted", "exhausted"}
  <2>1. files' = [files EXCEPT !.stop = h] /\ chain' = [chain EXCEPT !.pc = "watch"]
    BY <1>5
  <2>2. ChainOK' /\ chain'.pc = "watch"
    BY <2>1, ChainMoves, NewTyped DEF IInv, TypeOK, ChainOK, Points
  <2>3. FilesOK'
    BY <1>1, <2>1 DEF IInv, TypeOK, FilesOK
  <2>4. files'.cont = files.cont /\ files'.ready = files.ready /\ files'.go = files.go
        /\ files'.rows = files.rows /\ files'.done = files.done /\ files'.stop = h
    BY <2>1 DEF IInv, TypeOK, FilesOK
  <2>5. ChainInv'
    BY <1>1, <1>2, <2>2 DEF IInv, ChainInv, Live
  <2>6. BarrierInv'
    BY <1>2, <2>4 DEF IInv, BarrierInv, Below
  <2>7. StopInv'
    BY <1>1, <2>2, <2>4 DEF StopInv, StopFact
  <2>8. ProbeInv'
    BY <1>2, <2>4 DEF IInv, ProbeInv, Below
  <2>9. DispositionBeforeSignal'
    <3> HIDE DEF h
    <3> QED
      BY <1>1, <1>2, <2>4 DEF IInv, DispositionBeforeSignal, Recorded
  <2> QED
    BY <1>3, <2>2, <2>3, <2>5, <2>6, <2>7, <2>8, <2>9 DEF IInv, TypeOK
<1> QED
  BY <1>4, <1>5

-----------------------------------------------------------------------------
(* The steps that change the inventory of invocations.                     *)

(* New or no files.                                                        *)
LEMMA Cleared ==
  ASSUME TypeOK', ChainInv', files' = NoFiles, probe'.state \in {"none", "exited"},
         chain'.pc \notin {"signal", "judge"}
  PROVE  IInv'
<1>1. BarrierInv' /\ StopInv' /\ ProbeInv'
  BY DEF BarrierInv, StopInv, ProbeInv, NoFiles
<1>2. DispositionBeforeSignal'
  BY DEF DispositionBeforeSignal, NoFiles, NoHook
<1> QED
  BY <1>1, <1>2 DEF IInv

(* The invocation ends and its files stay.                                 *)
LEMMA Ended ==
  ASSUME IInv, TypeOK', ChainInv', UNCHANGED <<files, probe>>, ~Live,
         Cur' = Cur, Inv'.expect = Inv.expect, ~Running(doc)',
         chain'.pc \notin {"signal", "judge"}
  PROVE  IInv'
<1>1. BarrierInv'
  BY DEF IInv, BarrierInv, Below
<1>2. StopInv'
  BY DEF IInv, StopInv, StopFact
<1>3. ProbeInv'
  BY DEF ProbeInv, Live
<1>4. DispositionBeforeSignal'
  BY DEF DispositionBeforeSignal
<1> QED
  BY <1>1, <1>2, <1>3, <1>4 DEF IInv

LEMMA Counts ==
  ASSUME IInv, Running(doc), NEW s \in Counted
  PROVE  /\ CountRows(s) \in Seq(Invocations)
         /\ Len(CountRows(s)) = Len(doc.invs)
         /\ CountRows(s)[Cur].status = s /\ CountRows(s)[Cur].expect = Inv.expect
         /\ \A i \in 1..Len(doc.invs) : CountRows(s)[i].status # "running"
<1>1. Cur \in 1..Len(doc.invs) /\ doc.invs \in Seq(Invocations) /\ doc.invs[Cur] \in Invocations
  BY Current DEF IInv, TypeOK, DocOK, Inv
<1>2. files.rows \in SUBSET Slots
  BY DEF IInv, TypeOK, FilesOK
<1> DEFINE r == [doc.invs[Cur] EXCEPT !.status = s, !.accepted = files.rows]
<1>3. r \in Invocations /\ r.status = s /\ r.expect = Inv.expect
  BY <1>1, <1>2 DEF Invocations, Inv
<1>4. CountRows(s) = [doc.invs EXCEPT ![Cur] = r]
  BY <1>1 DEF CountRows, Invocations
<1> HIDE DEF r
<1>5. \A i \in 1..Len(doc.invs) : i # Cur => doc.invs[i].status # "running"
  BY DEF IInv, TypeOK, DocOK, Cur
<1> QED
  BY <1>1, <1>3, <1>4, <1>5 DEF Counted

LEMMA SpawnStep == IInv /\ Spawn => IInv'
<1> SUFFICES ASSUME IInv, Spawn PROVE IInv'
  OBVIOUS
<1> USE DEF Spawn
<1>1. Running(doc) /\ Inv.expect # {} /\ files = NoFiles /\ probe.state = "none"
  BY DEF IInv, ChainInv
<1>2. Inv.expect \in SUBSET Slots /\ Cur > 0
  BY <1>1, Current DEF IInv, Invocations
<1> DEFINE first == Least(Inv.expect)
<1>3. first \in Inv.expect /\ \A s \in Inv.expect : first <= s
  BY <1>1, <1>2, SlotsFinite, LeastIsLeast
<1> HIDE DEF first
<1>4. first \in 0..N /\ \A s \in Inv.expect : s \in Nat
  BY <1>2, <1>3, BoundsAssumption DEF Slots
<1>5. probe' = [probe EXCEPT !.state = "top", !.item = first]
  BY DEF first
<1>6. ProbeOK' /\ probe'.state = "top" /\ probe'.item = first
  BY <1>4, <1>5 DEF IInv, TypeOK, ProbeOK
<1>7. ChainOK' /\ chain'.pc = "watch"
  BY MovesTo DEF IInv, TypeOK, Undecided, Points
<1>8. Cur' = Cur /\ Inv' = Inv /\ Running(doc)' = Running(doc)
  BY SameInvocation
<1>9. TypeOK'
  BY <1>6, <1>7, NoFault, OthersSame DEF IInv, TypeOK, DocOK, FilesOK
<1>10. ChainInv'
  BY <1>1, <1>7, <1>8 DEF ChainInv
<1>11. BarrierInv' /\ StopInv'
  BY <1>1, <1>7 DEF BarrierInv, StopInv, NoFiles
<1>12. DispositionBeforeSignal'
  BY <1>1 DEF DispositionBeforeSignal, NoFiles, NoHook
<1>13. ProbeInv'
  <2>1. Below(first) = {}
    BY <1>3, <1>4 DEF Below
  <2> QED
    BY <1>1, <1>3, <1>6, <1>8, <2>1 DEF ProbeInv, NoFiles, Below
<1> QED
  BY <1>9, <1>10, <1>11, <1>12, <1>13 DEF IInv

LEMMA WriteDnfStep == IInv /\ WriteDnf => IInv'
<1> SUFFICES ASSUME IInv, WriteDnf PROVE IInv'
  OBVIOUS
<1> USE DEF WriteDnf
<1>1. CASE UNCHANGED doc
  <2>1. ChainOK' /\ chain'.pc \in {"aborted", "launch", "sidecar"}
    <3>1. CASE Abort("inventory")
      BY <3>1, Aborts DEF IInv, TypeOK, Whys
    <3>2. CASE GoTo("launch") \/ GoTo("sidecar")
      BY <3>2, MovesTo DEF IInv, TypeOK, Undecided, Points
    <3> QED
      BY <3>1, <3>2
  <2>2. ChainInv'
    BY <1>1, <2>1, SameInvocation DEF IInv, ChainInv, Live
  <2> QED
    BY <1>1, <2>1, <2>2, NoFault, MoveStep
<1>2. CASE ~UNCHANGED doc
  <2> DEFINE first == Least(Unsettled)
  <2>1. doc' = [doc EXCEPT !.dnf = @ \cup {first}] /\ GoTo("sidecar") /\ Unsettled # {}
    BY <1>2
  <2>2. first \in Slots
    <3>1. Unsettled \in SUBSET Slots
      BY DEF Unsettled, Due
    <3> QED
      BY <2>1, <3>1, SlotsFinite, LeastIsLeast
  <2> HIDE DEF first
  <2>3. DocOK' /\ doc'.invs = doc.invs /\ doc'.att = doc.att /\ doc'.pre = doc.pre
    BY <2>1, <2>2 DEF IInv, TypeOK, DocOK
  <2>4. ChainOK' /\ chain'.pc = "sidecar"
    BY <2>1, MovesTo DEF IInv, TypeOK, Undecided, Points
  <2>5. ChainInv'
    BY <2>3, <2>4, SameInvocation DEF IInv, ChainInv, Live
  <2>6. TypeOK'
    BY <2>3, <2>4, NoFault, OthersSame DEF IInv, TypeOK, FilesOK, ProbeOK
  <2> QED
    BY <2>3, <2>4, <2>5, <2>6, Quiet
<1> QED
  BY <1>1, <1>2

(* The rows of the invocation count from here on.                          *)
LEMMA RowsCounted ==
  ASSUME IInv, Running(doc), NEW s \in Counted, NEW inc \in SUBSET IncidentRecords,
         \A r \in inc : r.inv \in 1..Len(doc.invs),
         doc' = [doc EXCEPT !.invs = CountRows(s), !.inc = inc]
  PROVE  DocOK' /\ Cur' = Cur /\ Inv'.expect = Inv.expect /\ Inv'.status = s /\ ~Running(doc)'
<1>1. doc'.invs = CountRows(s) /\ doc'.att = doc.att /\ doc'.pre = doc.pre /\ doc'.inc = inc
  BY DEF IInv, TypeOK, DocOK
<1>2. Cur' = Cur
  BY <1>1, Counts DEF Cur
<1>3. Inv'.expect = Inv.expect /\ Inv'.status = s
  BY <1>1, <1>2, Counts DEF Inv
<1>4. ~Running(doc)'
  BY <1>2, <1>3 DEF Running, Cur, Inv, Counted
<1>5. DocOK'
  <2>1. doc' \in [gen : Nat, invs : Seq(Invocations), att : SUBSET Attempts, pre : SUBSET PreSpawns,
                  inc : SUBSET IncidentRecords, dnf : SUBSET Slots]
    BY Counts DEF IInv, TypeOK, DocOK
  <2>2. Len(doc'.invs) = Len(doc.invs) /\ \A i \in 1..Len(doc'.invs) : doc'.invs[i].status # "running"
    BY <1>1, Counts
  <2> QED
    BY <1>1, <2>1, <2>2 DEF IInv, TypeOK, DocOK
<1> QED
  BY <1>2, <1>3, <1>4, <1>5

LEMMA AcceptStep == IInv /\ Accept => IInv'
<1> SUFFICES ASSUME IInv, Accept PROVE IInv'
  OBVIOUS
<1> USE DEF Accept
<1>1. Running(doc) /\ ~Live /\ Cur > 0
  BY Current DEF IInv, ChainInv
<1>2. PICK s \in Counted : doc' = [doc EXCEPT !.invs = CountRows(s)]
  BY DEF Counted
<1>3. doc' = [doc EXCEPT !.invs = CountRows(s), !.inc = doc.inc]
  BY <1>2 DEF IInv, TypeOK, DocOK
<1>4. doc.inc \in SUBSET IncidentRecords /\ \A r \in doc.inc : r.inv \in 1..Len(doc.invs)
  BY DEF IInv, TypeOK, DocOK
<1>5. DocOK' /\ Cur' = Cur /\ Inv'.expect = Inv.expect /\ Inv'.status = s /\ ~Running(doc)'
  BY <1>1, <1>3, <1>4, RowsCounted
<1>6. ChainOK' /\ chain'.pc = "after"
  BY MovesTo DEF IInv, TypeOK, Undecided, Points
<1>7. TypeOK'
  BY <1>5, <1>6, NoFault, OthersSame DEF IInv, TypeOK, FilesOK, ProbeOK
<1>8. ChainInv'
  BY <1>1, <1>5, <1>6 DEF ChainInv, Live
<1> QED
  BY <1>1, <1>5, <1>6, <1>7, <1>8, Ended

LEMMA HandleIncompleteStep == IInv /\ HandleIncomplete => IInv'
<1> SUFFICES ASSUME IInv, HandleIncomplete PROVE IInv'
  OBVIOUS
<1>1. Running(doc) /\ ~Live /\ Cur > 0 /\ Inv \in Invocations /\ Cur \in 1..Len(doc.invs)
  BY Current DEF HandleIncomplete, IInv, ChainInv
<1>2. UNCHANGED <<sidecar, files, probe, cancel, stopFile, judged, resumes>> /\ FaultStep
  BY DEF HandleIncomplete, FaultStep, May
<1> DEFINE next == Least(Inv.expect \ files.rows)
           inc == doc.inc \cup {Incident(Cur, next, FALSE)}
           Ends == \/ Abort("incident refused") \/ Abort("restart refused")
                   \/ Abort("incomplete twice") \/ GoTo("archive")
           Records == /\ ProperPrefix /\ GoTo("after")
                      /\ doc' = [doc EXCEPT !.invs = CountRows("partial_incident"), !.inc = inc]
<1>3. (Ends /\ UNCHANGED doc) \/ Records
  <2>1. CASE RestartLoad
    BY <2>1 DEF RestartLoad
  <2>2. ASSUME NEW b \in BOOLEAN, RecordIncident(b) PROVE (Ends /\ UNCHANGED doc) \/ Records
    BY <2>2 DEF RecordIncident
  <2>3. RestartLoad \/ RecordIncident(FALSE) \/ RecordIncident(TRUE)
    BY DEF HandleIncomplete
  <2> QED
    BY <2>1, <2>2, <2>3
<1>4. CASE Ends /\ UNCHANGED doc
  <2>1. ChainOK' /\ chain'.pc \in {"aborted", "archive"}
    <3>1. CASE GoTo("archive")
      BY <3>1, MovesTo DEF IInv, TypeOK, Undecided, Points
    <3>2. CASE Abort("incident refused") \/ Abort("restart refused") \/ Abort("incomplete twice")
      BY <3>2, Aborts DEF IInv, TypeOK, Whys
    <3> QED
      BY <1>4, <3>1, <3>2
  <2>2. ChainInv'
    BY <1>1, <1>2, <1>4, <2>1, SameInvocation DEF IInv, ChainInv, Live
  <2> QED
    BY <1>2, <1>4, <2>1, <2>2, MoveStep
<1>5. CASE Records
  <2>1. /\ ProperPrefix /\ GoTo("after")
        /\ doc' = [doc EXCEPT !.invs = CountRows("partial_incident"), !.inc = inc]
    BY <1>5
  <2>2. next \in Slots
    <3>1. files.rows \subseteq Inv.expect /\ Inv.expect \subseteq Slots
      BY <1>1 DEF IInv, BarrierInv, Invocations
    <3>2. Inv.expect \ files.rows \in SUBSET Slots /\ Inv.expect \ files.rows # {}
      BY <2>1, <3>1 DEF ProperPrefix
    <3> QED
      BY <3>2, SlotsFinite, LeastIsLeast
  <2>3. inc \in SUBSET IncidentRecords /\ \A r \in inc : r.inv \in 1..Len(doc.invs)
    <3> HIDE DEF next
    <3>1. Incident(Cur, next, FALSE) \in IncidentRecords /\ Incident(Cur, next, FALSE).inv = Cur
      BY <1>1, <2>2 DEF Incident, IncidentRecords
    <3> QED
      BY <1>1, <3>1 DEF IInv, TypeOK, DocOK
  <2> HIDE DEF inc
  <2>4. DocOK' /\ Cur' = Cur /\ Inv'.expect = Inv.expect /\ Inv'.status = "partial_incident" /\ ~Running(doc)'
    BY <1>1, <2>1, <2>3, RowsCounted DEF Counted
  <2>5. ChainOK' /\ chain'.pc = "after"
    BY <2>1, MovesTo DEF IInv, TypeOK, Undecided, Points
  <2>6. TypeOK'
    BY <1>2, <2>4, <2>5, OthersSame DEF IInv, TypeOK, FilesOK, ProbeOK
  <2>7. ChainInv'
    BY <1>1, <1>2, <2>4, <2>5 DEF ChainInv, Live, Counted
  <2> QED
    BY <1>1, <1>2, <2>4, <2>5, <2>6, <2>7, Ended
<1> QED
  BY <1>3, <1>4, <1>5

(* A counted row without an attempt gets one.                              *)
LEMMA AttemptsAdded ==
  ASSUME IInv, chain.pc = "after", doc' = WithAttempts
  PROVE  /\ DocOK' /\ doc'.invs = doc.invs
         /\ doc.att \subseteq doc'.att /\ doc'.pre = doc.pre
<1>1. Cur > 0 /\ Cur \in 1..Len(doc.invs) /\ Inv.rindex \in 0..MaxReruns /\ files.rows \subseteq Slots
  BY Current DEF IInv, ChainInv, Invocations, TypeOK, FilesOK
<1> DEFINE all == [inv : {Cur}, slot : files.rows, rindex : {Inv.rindex}, disp : {"accepted"}]
<1>2. all \subseteq Attempts /\ \A a \in all : a.inv = Cur
  BY <1>1 DEF Attempts, Verdict
<1> HIDE DEF all
<1>3. PICK new \in SUBSET all : doc' = [doc EXCEPT !.att = @ \cup new]
  BY DEF WithAttempts, all
<1>4. doc'.invs = doc.invs /\ doc'.att = doc.att \cup new /\ doc'.pre = doc.pre /\ doc'.inc = doc.inc
  BY <1>3 DEF IInv, TypeOK, DocOK
<1>5. DocOK'
  BY <1>1, <1>2, <1>3, <1>4 DEF IInv, TypeOK, DocOK
<1> QED
  BY <1>4, <1>5

LEMMA AfterStep == IInv /\ (AfterAccept \/ AfterIncident) => IInv'
<1> SUFFICES ASSUME IInv, AfterAccept \/ AfterIncident PROVE IInv'
  OBVIOUS
<1>1. chain.pc = "after" /\ doc' = WithAttempts
      /\ UNCHANGED <<sidecar, files, probe, cancel, stopFile, judged, faults, resumes>>
  BY DEF AfterAccept, AfterIncident
<1>2. DocOK' /\ doc'.invs = doc.invs /\ doc.att \subseteq doc'.att /\ doc'.pre = doc.pre
  BY <1>1, AttemptsAdded
<1>3. Abort("blocked") \/ Abort("cleanup") \/ GoTo("leg") \/ GoTo("recover")
  BY DEF AfterAccept, AfterIncident
<1>4. ChainOK' /\ chain'.pc \in {"aborted", "leg", "recover"}
  <2>1. CASE Abort("blocked") \/ Abort("cleanup")
    BY <2>1, Aborts DEF IInv, TypeOK, Whys
  <2>2. CASE GoTo("leg") \/ GoTo("recover")
    BY <2>2, MovesTo DEF IInv, TypeOK, Undecided, Points
  <2> QED
    BY <1>3, <2>1, <2>2
<1>5. ~Running(doc) /\ ~Live
  BY <1>1, Current DEF IInv, ChainInv, Counted
<1>6. ChainInv'
  BY <1>1, <1>2, <1>4, <1>5, SameInvocation DEF ChainInv, Live
<1>7. TypeOK'
  BY <1>1, <1>2, <1>4, NoFault, OthersSame DEF IInv, TypeOK, FilesOK, ProbeOK
<1> QED
  BY <1>1, <1>2, <1>4, <1>5, <1>6, <1>7, Quiet

(* The invocation leaves the inventory.                                    *)
LEMMA Removed ==
  ASSUME IInv, Running(doc), doc' = WithoutCurrent
  PROVE  DocOK' /\ ~Running(doc)'
<1> DEFINE gone == [status |-> "gone", rindex |-> 0, expect |-> {}, accepted |-> {}]
<1>1. gone \in Invocations /\ gone.status = "gone"
  BY BoundsAssumption DEF Invocations
<1> HIDE DEF gone
<1>2. Cur \in 1..Len(doc.invs) /\ doc.invs \in Seq(Invocations)
  BY Current DEF IInv, TypeOK, DocOK
<1>3. PICK att \in SUBSET doc.att : doc' = [doc EXCEPT !.invs[Cur] = gone, !.att = att]
  BY DEF WithoutCurrent, gone
<1>4. doc'.invs = [doc.invs EXCEPT ![Cur] = gone] /\ doc'.att = att
      /\ doc'.pre = doc.pre /\ doc'.inc = doc.inc
  BY <1>3 DEF IInv, TypeOK, DocOK
<1>5. doc'.invs \in Seq(Invocations) /\ Len(doc'.invs) = Len(doc.invs) /\ doc'.invs[Cur] = gone
  BY <1>1, <1>2, <1>4
<1>6. \A i \in 1..Len(doc'.invs) : doc'.invs[i].status # "running"
  <2>1. \A i \in 1..Len(doc.invs) : i # Cur => doc.invs[i].status # "running"
    BY DEF IInv, TypeOK, DocOK, Cur
  <2> QED
    BY <1>1, <1>2, <1>4, <1>5, <2>1
<1>7. ~Running(doc)'
  BY <1>2, <1>5, <1>6 DEF Running, Cur
<1>8. DocOK'
  <2>1. doc' \in [gen : Nat, invs : Seq(Invocations), att : SUBSET Attempts, pre : SUBSET PreSpawns,
                  inc : SUBSET IncidentRecords, dnf : SUBSET Slots]
    BY <1>3, <1>4, <1>5 DEF IInv, TypeOK, DocOK
  <2> QED
    BY <1>4, <1>5, <1>6, <2>1 DEF IInv, TypeOK, DocOK
<1> QED
  BY <1>7, <1>8

LEMMA NoFilesOK ==
  ASSUME files' = NoFiles
  PROVE  FilesOK'
BY NewTyped DEF FilesOK, NoFiles

LEMMA ArchiveStoppedStep == IInv /\ ArchiveStopped => IInv'
<1> SUFFICES ASSUME IInv, ArchiveStopped PROVE IInv'
  OBVIOUS
<1> USE DEF ArchiveStopped
<1>1. Running(doc) /\ ~Live
  BY DEF IInv, ChainInv
<1>2. DocOK' /\ ~Running(doc)'
  BY <1>1, Removed
<1>3. ChainOK' /\ chain'.pc = "stopped"
  BY MovesTo DEF IInv, TypeOK, Undecided, Points
<1>4. TypeOK'
  BY <1>2, <1>3, NoFilesOK, NoFault, OthersSame DEF IInv, TypeOK, ProbeOK
<1>5. ChainInv'
  BY <1>1, <1>2, <1>3 DEF ChainInv, Live
<1> QED
  BY <1>1, <1>3, <1>4, <1>5, Cleared DEF Live

LEMMA ArchiveLoadStep == IInv /\ ArchiveLoad => IInv'
<1> SUFFICES ASSUME IInv, ArchiveLoad PROVE IInv'
  OBVIOUS
<1> USE DEF ArchiveLoad
<1>1. ~Live
  BY DEF IInv, ChainInv
<1>2. ~Running(doc)'
  BY DEF Running
<1>3. DocOK'
  <2>1. doc.gen + 1 \in Nat
    BY DEF IInv, TypeOK, DocOK
  <2> QED
    BY <2>1 DEF DocOK
<1>4. ChainOK' /\ chain'.pc = "leg"
  BY DEF IInv, TypeOK, ChainOK, Points
<1>5. OthersOK'
  BY DEF IInv, TypeOK, OthersOK
<1>6. TypeOK'
  BY <1>3, <1>4, <1>5, NoFilesOK DEF IInv, TypeOK, ProbeOK
<1>7. ChainInv'
  BY <1>1, <1>2, <1>4 DEF ChainInv, Live
<1> QED
  BY <1>1, <1>4, <1>6, <1>7, Cleared DEF Live

LEMMA ResumeStep == IInv /\ Resume => IInv'
<1> SUFFICES ASSUME IInv, Resume PROVE IInv'
  OBVIOUS
<1>1. ~Live /\ UNCHANGED <<sidecar, probe, cancel, stopFile, judged, faults, resumes>>
  BY DEF Resume, IInv, ChainInv
<1>2. OthersOK' /\ ProbeOK'
  BY <1>1, NoFault, OthersSame DEF IInv, TypeOK, ProbeOK
<1>3. CASE InventoryBroken(doc)
  <2> Abort("inventory") /\ UNCHANGED <<doc, files>>
    BY <1>3 DEF Resume
  <2>1. ChainOK' /\ chain'.pc = "aborted"
    BY Aborts DEF IInv, TypeOK, Whys
  <2>2. ChainInv'
    BY <1>1, <2>1 DEF ChainInv, Live
  <2> QED
    BY <1>1, <1>2, <2>1, <2>2, QuietMove
<1>4. CASE ~InventoryBroken(doc)
  <2>1. ChainOK' /\ chain'.pc = "sync"
    BY <1>4, MovesTo DEF Resume, IInv, TypeOK, Undecided, Points
  <2>2. ASSUME ~Running(doc)' PROVE ChainInv'
    BY <1>1, <2>1, <2>2 DEF ChainInv, Live
  <2>3. CASE ~Running(doc) /\ UNCHANGED <<doc, files>>
    BY <1>1, <1>2, <2>1, <2>2, <2>3, SameInvocation, QuietMove
  <2>4. CASE Running(doc) /\ doc' = Salvaged /\ UNCHANGED files
    <3>1. PICK s \in Counted : doc' = [doc EXCEPT !.invs = CountRows(s)]
      BY <2>4 DEF Salvaged, Counted
    <3>2. doc' = [doc EXCEPT !.invs = CountRows(s), !.inc = doc.inc]
      BY <3>1 DEF IInv, TypeOK, DocOK
    <3>3. doc.inc \in SUBSET IncidentRecords /\ \A r \in doc.inc : r.inv \in 1..Len(doc.invs)
      BY DEF IInv, TypeOK, DocOK
    <3>4. DocOK' /\ Cur' = Cur /\ Inv'.expect = Inv.expect /\ ~Running(doc)'
      BY <2>4, <3>2, <3>3, RowsCounted
    <3>5. TypeOK'
      BY <1>2, <2>1, <2>4, <3>4 DEF IInv, TypeOK, FilesOK
    <3> QED
      BY <1>1, <2>1, <2>2, <2>4, <3>4, <3>5, Ended
  <2>5. CASE Running(doc) /\ doc' = WithoutCurrent /\ files' = NoFiles
    <3>1. DocOK' /\ ~Running(doc)'
      BY <2>5, Removed
    <3>2. TypeOK'
      BY <1>2, <2>1, <2>5, <3>1, NoFilesOK DEF TypeOK
    <3> QED
      BY <1>1, <2>1, <2>2, <2>5, <3>1, <3>2, Cleared DEF Live
  <2> QED
    BY <1>4, <2>3, <2>4, <2>5 DEF Resume
<1> QED
  BY <1>3, <1>4

(* The re-run indices of a slot are those of its records.                  *)
LEMMA IndicesBounded ==
  ASSUME DocOK, NEW s
  PROVE  RIndices(doc, s) \subseteq 0..MaxReruns
<1>1. \A r \in CountedRows(doc) : r.rindex \in 0..MaxReruns
  <2>1. \A i \in 1..Len(doc.invs) : doc.invs[i] \in Invocations
    BY DEF DocOK
  <2>2. \A i \in 1..Len(doc.invs) : doc.invs[i].rindex \in 0..MaxReruns
    BY <2>1 DEF Invocations
  <2> QED
    BY <2>2 DEF CountedRows
<1>2. \A a \in Decided(doc) : a.rindex \in 0..MaxReruns
  BY DEF DocOK, Decided, Attempts
<1> QED
  BY <1>1, <1>2 DEF RIndices

(* The next invocation expects unscored slots, at a re-run index that the  *)
(* slot table permits.                                                     *)
LEMMA NextInvocationTyped ==
  ASSUME DocOK, ~InventoryBroken(doc), Todo # {}
  PROVE  /\ NextInvocation \in Invocations /\ NextInvocation.expect # {}
         /\ NextInvocation.status = "running"
<1>1. Todo \in SUBSET Slots
  BY DEF Todo
<1> DEFINE first == Least(Todo)
<1>2. first \in Slots
  BY <1>1, SlotsFinite, LeastIsLeast
<1> HIDE DEF first
<1>3. CASE first \in Pending(doc)
  <2> DEFINE I == RIndices(doc, first)
  <2>1. I # {}
    BY <1>3 DEF Pending, Latest
  <2>2. I \subseteq 0..MaxReruns
    BY IndicesBounded
  <2>3. Largest(I) \in I
    <3>1. IsFiniteSet(0..MaxReruns)
      <4>1. 0 \in Int /\ MaxReruns \in Int
        BY BoundsAssumption
      <4> QED
        BY <4>1, FS_Interval
    <3>2. IsFiniteSet(I)
      BY <2>2, <3>1, FS_Subset
    <3>3. I \in SUBSET Nat
      BY <2>2, BoundsAssumption
    <3> HIDE DEF I
    <3> QED
      BY <2>1, <3>2, <3>3, LargestIsLargest
  <2>4. ~(Largest(I) >= MaxReruns)
    BY <1>3 DEF InventoryBroken, CheatAtBound
  <2> HIDE DEF I
  <2>5. Largest(I) + 1 \in 0..MaxReruns
    <3>1. Largest(I) \in 0..MaxReruns /\ MaxReruns \in Nat
      BY <2>2, <2>3, BoundsAssumption
    <3> QED
      BY <2>4, <3>1
  <2>6. NextInvocation = [status |-> "running", rindex |-> Largest(I) + 1,
                          expect |-> {first}, accepted |-> {}]
    BY <1>3 DEF NextInvocation, I, first
  <2> QED
    BY <1>2, <2>5, <2>6 DEF Invocations
<1>4. CASE first \notin Pending(doc)
  <2>1. NextInvocation = [status |-> "running", rindex |-> 0, expect |-> Todo, accepted |-> {}]
    BY <1>4 DEF NextInvocation, first
  <2> QED
    BY <1>1, <2>1, BoundsAssumption DEF Invocations
<1> QED
  BY <1>3, <1>4

LEMMA LaunchStep == IInv /\ Launch => IInv'
<1> SUFFICES ASSUME IInv, Launch PROVE IInv'
  OBVIOUS
<1>1. chain.pc = "launch" /\ UNCHANGED <<sidecar, stopFile, judged, faults, resumes>>
      /\ ~Running(doc) /\ ~Live
  BY DEF Launch, IInv, ChainInv
<1>2. CASE /\ Abort("inventory") \/ Abort("blocked") \/ GoTo("done")
           /\ UNCHANGED <<doc, files, probe, cancel>>
  <2>1. ChainOK' /\ chain'.pc \in {"aborted", "done"}
    <3>1. CASE Abort("inventory") \/ Abort("blocked")
      BY <3>1, Aborts DEF IInv, TypeOK, Whys
    <3>2. CASE GoTo("done")
      BY <3>2, MovesTo DEF IInv, TypeOK, Undecided, Points
    <3> QED
      BY <1>2, <3>1, <3>2
  <2>2. ChainInv'
    BY <1>1, <1>2, <2>1, SameInvocation DEF ChainInv, Live
  <2> QED
    BY <1>1, <1>2, <2>1, <2>2, NoFault, MoveStep
<1>3. CASE /\ ~InventoryBroken(doc) /\ Todo # {}
           /\ doc' = [doc EXCEPT !.invs = Append(@, NextInvocation)]
           /\ files' = NoFiles /\ cancel' = "none"
           /\ probe' = [state |-> "none", item |-> 0, man |-> NewManifest]
           /\ chain' = [chain EXCEPT !.pc = "spawn", !.hook = NoHook]
  <2> DEFINE new == NextInvocation
  <2>1. new \in Invocations /\ new.expect # {} /\ new.status = "running"
    BY <1>3, NextInvocationTyped DEF IInv, TypeOK
  <2> HIDE DEF new
  <2>2. doc' = [doc EXCEPT !.invs = Append(@, new)]
    BY <1>3 DEF new
  <2>3. doc'.invs = Append(doc.invs, new) /\ doc'.att = doc.att /\ doc'.pre = doc.pre /\ doc'.inc = doc.inc
    BY <2>2 DEF IInv, TypeOK, DocOK
  <2>4. /\ Len(doc'.invs) = Len(doc.invs) + 1 /\ doc'.invs \in Seq(Invocations)
        /\ doc'.invs[Len(doc'.invs)] = new /\ Len(doc.invs) \in Nat
        /\ \A i \in 1..Len(doc.invs) : doc'.invs[i] = doc.invs[i]
    BY <2>1, <2>3 DEF IInv, TypeOK, DocOK
  <2>5. \A i \in 1..Len(doc.invs) : doc.invs[i].status # "running"
    BY <1>1 DEF IInv, TypeOK, DocOK, Running
  <2>6. DocOK'
    <3>1. doc' \in [gen : Nat, invs : Seq(Invocations), att : SUBSET Attempts, pre : SUBSET PreSpawns,
                    inc : SUBSET IncidentRecords, dnf : SUBSET Slots]
      BY <2>2, <2>3, <2>4 DEF IInv, TypeOK, DocOK
    <3>2. \A i \in 1..Len(doc'.invs) : doc'.invs[i].status = "running" => i = Len(doc'.invs)
      BY <2>4, <2>5
    <3>3. \A r \in doc'.att \cup doc'.pre \cup doc'.inc : r.inv \in 1..Len(doc'.invs)
      BY <2>3, <2>4 DEF IInv, TypeOK, DocOK
    <3> QED
      BY <3>1, <3>2, <3>3 DEF DocOK
  <2>7. Running(doc)' /\ Inv'.expect # {}
    BY <2>1, <2>4 DEF Running, Inv, Cur
  <2>8. ChainOK' /\ chain'.pc = "spawn"
    BY <1>3, ChainMoves, NewTyped DEF IInv, TypeOK, ChainOK, Points
  <2>9. ProbeOK'
    BY <1>3, NewTyped, BoundsAssumption DEF ProbeOK
  <2>10. OthersOK'
    BY <1>1, <1>3 DEF IInv, TypeOK, OthersOK
  <2>11. TypeOK'
    BY <1>3, <2>6, <2>8, <2>9, <2>10, NoFilesOK DEF TypeOK
  <2>12. ChainInv'
    BY <1>3, <2>7, <2>8 DEF ChainInv, Live, NoFiles
  <2> QED
    BY <1>3, <2>8, <2>11, <2>12, Cleared
<1> QED
  BY <1>2, <1>3 DEF Launch

-----------------------------------------------------------------------------
LEMMA NextIInv == IInv /\ [Next]_vars => IInv'
<1> SUFFICES ASSUME IInv, [Next]_vars PROVE IInv'
  OBVIOUS
<1>1. CASE ChainStep
  <2>1. CASE LegTop \/ WriteDnf \/ WriteSidecar \/ NothingDue \/ Launch \/ Spawn
    BY <2>1, LegTopStep, WriteDnfStep, WriteSidecarStep, NothingDueStep, LaunchStep, SpawnStep
  <2>2. CASE AnswerGo \/ ReadDone \/ PersistVerdict \/ Signal \/ CancelOnStop
    BY <2>2, AnswerGoStep, ReadDoneStep, PersistVerdictStep, SignalStep, CancelStep
  <2>3. CASE \/ Validate \/ Accept \/ AfterAccept \/ ArchiveStopped
             \/ HandleIncomplete \/ AfterIncident
    BY <2>3, ValidateStep, AcceptStep, AfterStep, ArchiveStoppedStep, HandleIncompleteStep
  <2>4. CASE Recover \/ ArchiveLoad \/ Resume \/ SyncSidecars
    BY <2>4, RecoverStep, ArchiveLoadStep, ResumeStep, SyncSidecarsStep
  <2> QED
    BY <1>1, <2>1, <2>2, <2>3, <2>4 DEF ChainStep
<1>2. CASE ChainFault
  BY <1>2, PersistPreSpawnStep, CancelStep, EscalationRefusedStep, CrashStep DEF ChainFault
<1>3. CASE ProbeStep
  <2>1. CASE ProbeReady \/ ProbeGo \/ ProbeStop \/ ProbeRow
    BY <2>1, ProbeReadyStep, ProbeGoStep, ProbeStopStep, ProbeRowStep
  <2>2. CASE ProbeDone \/ ProbeContinue \/ ProbeCancelled \/ OrphanTimeout \/ ProbeExit
    BY <2>2, ProbeDoneStep, ProbeContinueStep, ProbeAbortStep, ProbeExitStep
  <2> QED
    BY <1>3, <2>1, <2>2 DEF ProbeStep
<1>4. CASE ProbeFault
  BY <1>4, ProbeAbortStep, ProbeKilledStep DEF ProbeFault
<1>5. CASE OperatorStop \/ Restart
  BY <1>5, CancelStep, RestartStep
<1>6. CASE UNCHANGED vars
  <2>1. TypeOK'
    BY <1>6 DEF vars, IInv, TypeOK, DocOK, FilesOK, ProbeOK, ChainOK, OthersOK
  <2>2. ChainInv'
    BY <1>6, SameInvocation DEF vars, IInv, ChainInv, Live
  <2> QED
    BY <1>6, <2>1, <2>2, Quiet DEF vars
<1> QED
  BY <1>1, <1>2, <1>3, <1>4, <1>5, <1>6 DEF Next

(* The strengthening of the invariants below that every step preserves.    *)
THEOREM InductiveInvariant == Spec => []IInv
BY InitIInv, NextIInv, PTL DEF Spec

(* The program's state has its types: in particular no re-run has an index *)
(* past MAX_RERUNS, records refer to invocations of the inventory, and     *)
(* only the last invocation is ever running.                               *)
THEOREM TypeCorrect == Spec => []TypeOK
<1>1. IInv => TypeOK
  BY DEF IInv
<1> QED
  BY <1>1, InductiveInvariant, PTL

(* Every disposition is in chain.json before the barrier file that acts on *)
(* it (pump_barrier), whatever dies in between.                            *)
THEOREM DispositionFirst == Spec => []DispositionBeforeSignal
<1>1. IInv => DispositionBeforeSignal
  BY DEF IInv
<1> QED
  BY <1>1, InductiveInvariant, PTL

(* A probe that was stopped at an item has no row of a later one, and none *)
(* of the item itself if it was stopped before it.                         *)
LEMMA StopIsLast == IInv => ProbeNeverPastStop
<1> SUFFICES ASSUME IInv, files.stop # NoHook
             PROVE  files.rows = ImpliedPrefix(files.stop) /\ probe.state # "item"
  BY DEF ProbeNeverPastStop
<1> DEFINE h == files.stop
<1>1. StopFact(h) /\ h.kind \in {"before", "after"} /\ h.slot \in files.ready
  <2>1. StopFact(h) /\ h \in Hooks
    BY DEF IInv, StopInv, TypeOK, FilesOK
  <2>2. h.kind \in {"before", "after"}
    BY <2>1 DEF StopFact, Hooks
  <2> QED
    BY <2>1, <2>2 DEF StopFact, IInv, BarrierInv
<1>2. Cur > 0 /\ files.ready \subseteq Inv.expect /\ Inv.expect \subseteq Slots
  BY <1>1, Current DEF IInv, BarrierInv, Invocations
<1>3. \A s \in Inv.expect : s \in Nat
  BY <1>2, BoundsAssumption DEF Slots
<1>4. h.slot \notin files.cont
  BY <1>1 DEF StopFact, IInv, BarrierInv
<1>5. \A s \in files.ready : s <= h.slot
  BY <1>1, <1>2, <1>3, <1>4 DEF IInv, BarrierInv, Below
<1>6. \A s \in Inv.expect : s < h.slot => s \in files.cont /\ s \in files.rows
  BY <1>1 DEF IInv, BarrierInv, Below
<1>7. \A s \in files.rows : s \in files.ready
  BY DEF IInv, BarrierInv
<1>8. CASE h.kind = "before"
  <2>1. h.slot \notin files.go /\ h.slot \notin files.rows
    BY <1>1, <1>8 DEF StopFact, IInv, BarrierInv
  <2>2. files.rows = {s \in Inv.expect : s < h.slot}
    BY <1>1, <1>2, <1>3, <1>5, <1>6, <1>7, <2>1
  <2>3. ImpliedPrefix(h) = {s \in Inv.expect : s < h.slot}
    BY <1>8 DEF ImpliedPrefix
  <2>4. probe.state # "item"
    BY <1>1, <1>2, <1>3, <1>5, <1>6, <2>1 DEF IInv, ProbeInv, BarrierInv
  <2> QED
    BY <2>2, <2>3, <2>4
<1>9. CASE h.kind = "after"
  <2>1. h.slot \in files.rows
    BY <1>1, <1>9 DEF StopFact, IInv, BarrierInv
  <2>2. files.rows = {s \in Inv.expect : s <= h.slot}
    BY <1>1, <1>2, <1>3, <1>5, <1>6, <1>7, <2>1
  <2>3. ImpliedPrefix(h) = {s \in Inv.expect : s <= h.slot}
    BY <1>9 DEF ImpliedPrefix
  <2>4. probe.state # "item"
    BY <1>1, <1>2, <1>3, <1>5, <1>6, <2>1 DEF IInv, ProbeInv, BarrierInv
  <2> QED
    BY <2>2, <2>3, <2>4
<1> QED
  BY <1>1, <1>8, <1>9

(* A pre-spawn incident stops the probe before it runs the item, and a     *)
(* rejected item is the last one it runs.                                  *)
THEOREM NothingPastStop == Spec => []ProbeNeverPastStop
BY StopIsLast, InductiveInvariant, PTL

-----------------------------------------------------------------------------
(* The dnf rows of the leg: a slot has one only with its last incident     *)
(* recorded, never beside a row that is counted, and a slot whose last     *)
(* incident is recorded is never launched again.                           *)
Of(R, s) == {x \in R : x.slot = s}

(* A dnf row is earned and alone; a launch finds every due slot settled;   *)
(* an invocation that may still add rows or attempts has no slot with a    *)
(* dnf row, and its attempts are of its slots.                             *)
DnfInv ==
  /\ IsFiniteSet(doc.inc)
  /\ \A s \in doc.dnf : Cardinality(Incidents(doc, s)) >= MaxIncidents
  /\ \A s \in doc.dnf : s \notin RowScored(doc)
  /\ chain.pc = "launch" => Unsettled = {}
  /\ chain.pc = "spawn" => \A s \in Inv.expect : Cardinality(Incidents(doc, s)) < MaxIncidents
  /\ Running(doc) \/ chain.pc = "after" =>
       /\ \A s \in doc.dnf : s \notin Inv.expect
       /\ \A a \in doc.att : a.inv = Cur => a.slot \in Inv.expect

-----------------------------------------------------------------------------
(* What a slot is scored depends on its counted rows and its decided       *)
(* attempts alone.                                                         *)
LEMMA LatestSame ==
  ASSUME NEW d, NEW e, NEW s,
         Of(CountedRows(d), s) = Of(CountedRows(e), s), Of(Decided(d), s) = Of(Decided(e), s)
  PROVE  Latest(d, s) = Latest(e, s)
<1> DEFINE Attempted(x, r) == {a \in Decided(x) : a.slot = s /\ a.rindex = r}
           Result(R, A) == IF R = {} THEN "none" ELSE IF A = {} THEN "accepted"
                           ELSE (CHOOSE a \in A : TRUE).disp
<1>1. \A r : Attempted(d, r) = Attempted(e, r)
  <2>1. \A a : a \in Decided(d) /\ a.slot = s <=> a \in Decided(e) /\ a.slot = s
    BY DEF Of
  <2> QED
    BY <2>1
<1>2. RIndices(d, s) = RIndices(e, s)
  <2>1. {x \in CountedRows(d) \cup Decided(d) : x.slot = s} = Of(CountedRows(d), s) \cup Of(Decided(d), s)
    BY DEF Of
  <2>2. {x \in CountedRows(e) \cup Decided(e) : x.slot = s} = Of(CountedRows(e), s) \cup Of(Decided(e), s)
    BY DEF Of
  <2> QED
    BY <2>1, <2>2 DEF RIndices
<1>3. Latest(d, s) = Result(RIndices(d, s), Attempted(d, Largest(RIndices(d, s))))
  BY DEF Latest
<1>4. Latest(e, s) = Result(RIndices(e, s), Attempted(e, Largest(RIndices(e, s))))
  BY DEF Latest
<1> HIDE DEF Attempted, Result
<1> QED
  BY <1>1, <1>2, <1>3, <1>4

LEMMA Primes ==
  /\ \A s : Incidents(doc, s)' = {i \in doc'.inc : i.slot = s}
  /\ RowScored(doc)' = RowScored(doc') /\ Scored(doc)' = Scored(doc')
BY DEF Incidents, RowScored, Scored, Latest, RIndices, CountedRows, Decided, Counted, Largest

USE DEF At, GoTo, Abort, ProbeOnly

LEMMA MoreIncidents ==
  ASSUME IsFiniteSet(doc'.inc), doc.inc \subseteq doc'.inc, NEW s
  PROVE  Cardinality(Incidents(doc, s)) <= Cardinality(Incidents(doc, s)')
         /\ Cardinality(Incidents(doc, s)) \in Nat
<1>1. Incidents(doc, s) \subseteq Incidents(doc, s)' /\ Incidents(doc, s)' \subseteq doc'.inc
  BY Primes DEF Incidents
<1> QED
  BY <1>1, FS_Subset, FS_CardinalityType

(* A step that leaves the rows and attempts of the slots with dnf rows     *)
(* alone.                                                                  *)
LEMMA DnfKept ==
  ASSUME DnfInv, TypeOK, doc.inc \subseteq doc'.inc, IsFiniteSet(doc'.inc), doc'.dnf = doc.dnf,
         \A s \in doc.dnf : /\ Of(CountedRows(doc'), s) = Of(CountedRows(doc), s)
                            /\ Of(Decided(doc'), s) = Of(Decided(doc), s)
  PROVE  /\ \A s \in doc'.dnf : Cardinality(Incidents(doc, s)') >= MaxIncidents
         /\ \A s \in doc'.dnf : s \notin RowScored(doc)'
<1>1. \A s \in doc.dnf : Cardinality(Incidents(doc, s)') >= MaxIncidents
  <2> SUFFICES ASSUME NEW s \in doc.dnf PROVE Cardinality(Incidents(doc, s)') >= MaxIncidents
    OBVIOUS
  <2>1. /\ Cardinality(Incidents(doc, s)) <= Cardinality(Incidents(doc, s)')
        /\ Cardinality(Incidents(doc, s)) \in Nat /\ Cardinality(Incidents(doc, s)') \in Nat
    <3>1. Incidents(doc, s)' \subseteq doc'.inc
      BY Primes
    <3> QED
      BY <3>1, MoreIncidents, FS_Subset, FS_CardinalityType
  <2>2. Cardinality(Incidents(doc, s)) >= MaxIncidents /\ MaxIncidents \in Nat
    BY BoundsAssumption DEF DnfInv
  <2> QED
    BY <2>1, <2>2
<1>2. \A s \in doc.dnf : s \notin RowScored(doc')
  <2>1. \A s \in doc.dnf : Latest(doc', s) = Latest(doc, s)
    BY LatestSame
  <2> QED
    BY <2>1 DEF DnfInv, RowScored
<1> QED
  BY <1>1, <1>2, Primes

(* The inventory of invocations and the attempts are as before.            *)
LEMMA SameRecords ==
  ASSUME doc'.invs = doc.invs, doc'.att = doc.att
  PROVE  CountedRows(doc') = CountedRows(doc) /\ Decided(doc') = Decided(doc)
BY DEF CountedRows, Decided

(* Steps that leave chain.json alone.                                      *)
LEMMA SameDoc ==
  ASSUME DnfInv, UNCHANGED doc,
         chain'.pc = "launch" => Unsettled = {},
         chain'.pc = "spawn" => chain.pc = "spawn",
         chain'.pc = "after" => chain.pc = "after"
  PROVE  DnfInv'
<1>1. Cur' = Cur /\ Inv' = Inv /\ Running(doc)' = Running(doc)
  BY SameInvocation
<1>2. Unsettled' = Unsettled /\ RowScored(doc)' = RowScored(doc)
      /\ \A s : Incidents(doc, s)' = Incidents(doc, s)
  BY Primes DEF Unsettled, Due, Incidents, Scored
<1> QED
  BY <1>1, <1>2 DEF DnfInv

LEMMA DnfInit == Init => DnfInv
<1> SUFFICES ASSUME Init PROVE DnfInv
  OBVIOUS
<1>1. IsFiniteSet(doc.inc)
  BY FS_EmptySet DEF Init
<1>2. ~Running(doc)
  BY DEF Init, Running
<1> QED
  BY <1>1, <1>2 DEF Init, DnfInv

LEMMA ProbeKeepsDnf ==
  IInv /\ DnfInv /\ (ProbeStep \/ ProbeFault \/ OperatorStop \/ CancelOnStop \/ CancelIdle) => DnfInv'
<1> SUFFICES ASSUME IInv, DnfInv,
                    ProbeStep \/ ProbeFault \/ OperatorStop \/ CancelOnStop \/ CancelIdle
             PROVE  DnfInv'
  OBVIOUS
<1>1. UNCHANGED <<doc, chain>>
  <2>1. CASE ProbeStep
    <3>1. CASE ProbeReady \/ ProbeGo \/ ProbeStop \/ ProbeRow \/ ProbeDone
      BY <3>1 DEF ProbeReady, ProbeGo, ProbeStop, ProbeRow, ProbeDone
    <3>2. CASE ProbeContinue \/ ProbeCancelled \/ OrphanTimeout \/ ProbeExit
      BY <3>2 DEF ProbeContinue, ProbeCancelled, OrphanTimeout, ProbeExit
    <3> QED
      BY <2>1, <3>1, <3>2 DEF ProbeStep
  <2>2. CASE ProbeFault
    BY <2>2 DEF ProbeFault, ProbeTransport, ProbeHarness, ProbeKilled
  <2>3. CASE OperatorStop \/ CancelOnStop \/ CancelIdle
    BY <2>3 DEF OperatorStop, CancelOnStop, CancelIdle
  <2> QED
    BY <2>1, <2>2, <2>3
<1> QED
  BY <1>1, SameDoc DEF DnfInv

LEMMA ChainKeepsDnf ==
  IInv /\ DnfInv /\ (\/ LegTop \/ WriteSidecar \/ NothingDue \/ Spawn \/ AnswerGo \/ ReadDone
                     \/ Signal \/ Validate \/ Recover \/ SyncSidecars
                     \/ EscalationRefused \/ Crash \/ Restart) => DnfInv'
<1> SUFFICES ASSUME IInv, DnfInv,
                    \/ LegTop \/ WriteSidecar \/ NothingDue \/ Spawn \/ AnswerGo \/ ReadDone
                    \/ Signal \/ Validate \/ Recover \/ SyncSidecars
                    \/ EscalationRefused \/ Crash \/ Restart
             PROVE  DnfInv'
  OBVIOUS
<1>1. UNCHANGED doc
  BY DEF LegTop, WriteSidecar, NothingDue, Spawn, AnswerGo, ReadDone, Signal, Validate, Recover,
         SyncSidecars, EscalationRefused, Crash, Restart
<1>2. ChainOK
  BY DEF IInv, TypeOK
<1>3. CASE LegTop \/ WriteSidecar \/ Spawn \/ AnswerGo \/ ReadDone
  BY <1>1, <1>2, <1>3, SameDoc DEF LegTop, WriteSidecar, Spawn, AnswerGo, Pumping, ReadDone, ChainOK
<1>4. CASE Signal \/ Validate \/ Recover
  BY <1>1, <1>2, <1>4, SameDoc DEF Signal, Validate, Recover, ChainOK
<1>5. CASE SyncSidecars \/ EscalationRefused
  BY <1>1, <1>2, <1>5, SameDoc DEF SyncSidecars, EscalationRefused, ChainOK
<1>6. CASE Crash \/ Restart
  <2>1. chain'.pc \in {"down", "resume"}
    BY <1>6 DEF Crash, Restart
  <2> QED
    BY <1>1, <2>1, SameDoc
<1>7. CASE NothingDue
  <2>1. Unsettled = {} /\ chain'.pc = "launch"
    BY <1>2, <1>7 DEF NothingDue, Unsettled, ChainOK
  <2> QED
    BY <1>1, <2>1, SameDoc
<1> QED
  BY <1>3, <1>4, <1>5, <1>6, <1>7

-----------------------------------------------------------------------------
(* Steps that change chain.json.                                           *)
LEMMA WriteDnfKeeps == IInv /\ DnfInv /\ WriteDnf => DnfInv'
<1> SUFFICES ASSUME IInv, DnfInv, WriteDnf PROVE DnfInv'
  OBVIOUS
<1>1. ChainOK /\ DocOK
  BY DEF IInv, TypeOK
<1>2. CASE Unsettled = {} \/ InventoryBroken(doc)
  <2>1. UNCHANGED doc /\ (chain'.pc = "aborted" \/ (chain'.pc = "launch" /\ Unsettled = {}))
    BY <1>1, <1>2 DEF WriteDnf, ChainOK
  <2> QED
    BY <2>1, SameDoc
<1>3. CASE Unsettled # {} /\ ~InventoryBroken(doc)
  <2> DEFINE first == Least(Unsettled)
  <2>1. first \in Unsettled
    <3>1. Unsettled \in SUBSET Slots
      BY DEF Unsettled, Due
    <3> QED
      BY <1>3, <3>1, SlotsFinite, LeastIsLeast
  <2>2. doc' = [doc EXCEPT !.dnf = @ \cup {first}] /\ GoTo("sidecar")
    BY <1>3 DEF WriteDnf
  <2> HIDE DEF first
  <2>3. /\ doc'.invs = doc.invs /\ doc'.att = doc.att /\ doc'.inc = doc.inc
        /\ doc'.dnf = doc.dnf \cup {first} /\ chain'.pc = "sidecar"
    BY <1>1, <2>2 DEF DocOK, ChainOK
  <2>4. ~Running(doc)'
    BY <2>3, SameInvocation DEF WriteDnf, IInv, ChainInv
  <2>5. \A s : Incidents(doc, s)' = Incidents(doc, s)
    BY <2>3, Primes DEF Incidents
  <2>6. RowScored(doc)' = RowScored(doc)
    <3>1. \A s : Latest(doc', s) = Latest(doc, s)
      BY <2>3, SameRecords, LatestSame
    <3> QED
      BY <3>1, Primes DEF RowScored
  <2>7. Cardinality(Incidents(doc, first)) >= MaxIncidents /\ first \notin RowScored(doc)
    BY <2>1 DEF Unsettled, Due, Scored
  <2> QED
    BY <2>3, <2>4, <2>5, <2>6, <2>7 DEF DnfInv
<1> QED
  BY <1>2, <1>3

LEMMA LaunchKeeps == IInv /\ DnfInv /\ Launch => DnfInv'
<1> SUFFICES ASSUME IInv, DnfInv, Launch PROVE DnfInv'
  OBVIOUS
<1>1. ChainOK /\ DocOK
  BY DEF IInv, TypeOK
<1>2. CASE UNCHANGED doc /\ chain'.pc \in {"aborted", "done"}
  BY <1>2, SameDoc
<1>3. CASE /\ ~InventoryBroken(doc) /\ Todo # {}
           /\ doc' = [doc EXCEPT !.invs = Append(@, NextInvocation)]
           /\ chain'.pc = "spawn"
  <2> DEFINE new == NextInvocation
  <2>1. new \in Invocations /\ new.status = "running"
    BY <1>1, <1>3, NextInvocationTyped
  <2>2. new.expect \subseteq Todo /\ new.accepted = {}
    <3>1. Todo \in SUBSET Slots
      BY DEF Todo
    <3>2. Least(Todo) \in Todo
      BY <1>3, <3>1, SlotsFinite, LeastIsLeast
    <3> QED
      BY <3>2 DEF NextInvocation
  <2>3. doc' = [doc EXCEPT !.invs = Append(@, new)]
    BY <1>3
  <2> HIDE DEF new
  <2>4. doc'.invs = Append(doc.invs, new) /\ doc'.att = doc.att /\ doc'.inc = doc.inc /\ doc'.dnf = doc.dnf
    BY <1>1, <2>3 DEF DocOK
  <2>5. /\ Len(doc.invs) \in Nat /\ Len(doc'.invs) = Len(doc.invs) + 1
        /\ doc'.invs[Len(doc'.invs)] = new
        /\ \A i \in 1..Len(doc.invs) : doc'.invs[i] = doc.invs[i]
    BY <1>1, <2>1, <2>4 DEF DocOK
  <2>6. Cur' = Len(doc.invs) + 1 /\ Inv' = new
    BY <2>5 DEF Cur, Inv
  <2>7. CountedRows(doc') = CountedRows(doc)
    <3>1. {j \in 1..Len(doc'.invs) : doc'.invs[j].status \in Counted}
            = {j \in 1..Len(doc.invs) : doc.invs[j].status \in Counted}
      BY <2>1, <2>5 DEF Counted
    <3> QED
      BY <2>5, <3>1 DEF CountedRows
  <2>8. Decided(doc') = Decided(doc)
    <3>1. \A a \in doc.att : doc'.invs[a.inv] = doc.invs[a.inv]
      BY <1>1, <2>5 DEF DocOK
    <3> QED
      BY <2>4, <3>1 DEF Decided
  <2>9. /\ \A s \in doc'.dnf : Cardinality(Incidents(doc, s)') >= MaxIncidents
        /\ \A s \in doc'.dnf : s \notin RowScored(doc)'
    BY <2>4, <2>7, <2>8, DnfKept DEF IInv, DnfInv
  <2>10. \A s \in new.expect : s \notin doc.dnf /\ Cardinality(Incidents(doc, s)) < MaxIncidents
    <3> SUFFICES ASSUME NEW s \in new.expect
                 PROVE  s \notin doc.dnf /\ Cardinality(Incidents(doc, s)) < MaxIncidents
      OBVIOUS
    <3>1. s \in Slots /\ s \notin Scored(doc) /\ s \notin doc.dnf
      BY <2>2 DEF Todo, Scored
    <3>2. ~(Cardinality(Incidents(doc, s)) >= MaxIncidents)
      BY <3>1 DEF Launch, DnfInv, Unsettled, Due
    <3>3. Cardinality(Incidents(doc, s)) \in Nat
      <4>1. Incidents(doc, s) \subseteq doc.inc
        BY DEF Incidents
      <4> QED
        BY <4>1, FS_Subset, FS_CardinalityType DEF DnfInv
    <3> QED
      BY <3>1, <3>2, <3>3, BoundsAssumption
  <2>11. \A s : Incidents(doc, s)' = Incidents(doc, s)
    BY <2>4, Primes DEF Incidents
  <2>12. \A a \in doc'.att : a.inv # Cur'
    BY <1>1, <2>4, <2>5, <2>6 DEF DocOK
  <2>13. IsFiniteSet(doc'.inc)
    BY <2>4 DEF DnfInv
  <2> QED
    BY <1>3, <2>4, <2>6, <2>9, <2>10, <2>11, <2>12, <2>13 DEF DnfInv
<1> QED
  BY <1>1, <1>2, <1>3 DEF Launch, ChainOK

LEMMA DecisionKeeps == IInv /\ DnfInv /\ (PersistPreSpawn \/ PersistVerdict) => DnfInv'
<1> SUFFICES ASSUME IInv, DnfInv, PersistPreSpawn \/ PersistVerdict PROVE DnfInv'
  OBVIOUS
<1>1. ChainOK /\ DocOK /\ TypeOK
  BY DEF IInv, TypeOK
<1>2. Running(doc) /\ Cur \in 1..Len(doc.invs) /\ Item \in Inv.expect
  BY AtBarrier, NextItem DEF PersistPreSpawn, Pumping, PersistVerdict, IInv, StopInv, ChainInv
<1>3. PICK more \in SUBSET [inv : {Cur}, slot : {Item}, rindex : {Inv.rindex}, disp : Verdict] :
        doc'.att = doc.att \cup more
  <2>1. CASE PersistPreSpawn
    <3>1. doc'.att = doc.att \cup {}
      BY <1>1, <2>1 DEF PersistPreSpawn, DocOK
    <3> QED
      BY <3>1
  <2>2. CASE PersistVerdict
    <3>1. PICK v \in Verdicts :
            doc' = [doc EXCEPT !.att = @ \cup
                     {[inv |-> Cur, slot |-> Item, rindex |-> Inv.rindex, disp |-> Disposition(v)]}]
      BY <2>2 DEF PersistVerdict
    <3>2. Disposition(v) \in Verdict
      BY DEF Verdicts, Verdict, Disposition
    <3>3. [inv |-> Cur, slot |-> Item, rindex |-> Inv.rindex, disp |-> Disposition(v)]
            \in [inv : {Cur}, slot : {Item}, rindex : {Inv.rindex}, disp : Verdict]
      BY <3>2
    <3>4. doc'.att = doc.att \cup
                     {[inv |-> Cur, slot |-> Item, rindex |-> Inv.rindex, disp |-> Disposition(v)]}
      BY <1>1, <3>1 DEF DocOK
    <3> QED
      BY <3>3, <3>4
  <2> QED
    BY <2>1, <2>2
<1>4. \A a \in more : a.inv = Cur /\ a.slot = Item
  OBVIOUS
<1>5. doc'.invs = doc.invs /\ doc'.dnf = doc.dnf /\ chain'.pc = "signal"
  <2>1. CASE PersistPreSpawn
    BY <1>1, <2>1 DEF PersistPreSpawn, DocOK, ChainOK
  <2>2. CASE PersistVerdict
    BY <1>1, <2>2 DEF PersistVerdict, DocOK, ChainOK
  <2> QED
    BY <2>1, <2>2
<1>6. doc.inc \subseteq doc'.inc /\ IsFiniteSet(doc'.inc)
  <2>1. CASE PersistPreSpawn
    <3>1. doc'.inc = doc.inc \cup {Incident(Cur, Item, TRUE)}
      BY <1>1, <2>1 DEF PersistPreSpawn, DocOK
    <3>2. IsFiniteSet(doc.inc \cup {Incident(Cur, Item, TRUE)})
      BY FS_AddElement DEF DnfInv
    <3> QED
      BY <3>1, <3>2
  <2>2. CASE PersistVerdict
    BY <1>1, <2>2 DEF PersistVerdict, DocOK, DnfInv
  <2> QED
    BY <2>1, <2>2
<1>7. \A s \in doc.dnf : s # Item
  BY <1>2 DEF DnfInv
<1>8. CountedRows(doc') = CountedRows(doc)
  BY <1>5 DEF CountedRows
<1>9. \A s \in doc.dnf : Of(Decided(doc'), s) = Of(Decided(doc), s)
  BY <1>3, <1>4, <1>5, <1>7 DEF Of, Decided
<1>10. /\ \A s \in doc'.dnf : Cardinality(Incidents(doc, s)') >= MaxIncidents
       /\ \A s \in doc'.dnf : s \notin RowScored(doc)'
  BY <1>1, <1>5, <1>6, <1>8, <1>9, DnfKept
<1>11. Cur' = Cur /\ Inv' = Inv /\ Running(doc)' = Running(doc)
  BY <1>5, SameInvocation
<1> QED
  BY <1>2, <1>3, <1>4, <1>5, <1>6, <1>10, <1>11 DEF DnfInv

(* The rows of the running invocation count, or it leaves the inventory:   *)
(* only its own slots are concerned.                                       *)
LEMMA EndKeeps ==
  ASSUME IInv, DnfInv, Running(doc), DocOK', doc'.dnf = doc.dnf,
         doc.inc \subseteq doc'.inc, IsFiniteSet(doc'.inc),
         Cur' = Cur, ~Running(doc)', doc'.att \subseteq doc.att,
         \A a \in doc.att : a.inv # Cur => a \in doc'.att,
         \A i \in 1..Len(doc.invs) : i # Cur => doc'.invs[i] = doc.invs[i],
         doc'.invs[Cur].accepted \subseteq Inv.expect,
         chain'.pc \notin {"launch", "spawn"}, chain'.pc = "after" => Inv'.expect = Inv.expect
  PROVE  DnfInv'
<1>1. Len(doc'.invs) = Len(doc.invs) /\ Cur = Len(doc.invs) /\ Cur \in 1..Len(doc.invs)
      /\ doc.invs[Cur].status = "running"
  BY Current DEF Cur, Inv, IInv
<1>2. \A s \in doc.dnf : s \notin Inv.expect /\ s \notin doc'.invs[Cur].accepted
  BY DEF DnfInv
<1>3. \A s \in doc.dnf : Of(CountedRows(doc'), s) = Of(CountedRows(doc), s)
  <2> SUFFICES ASSUME NEW s \in doc.dnf, NEW r
               PROVE  r \in CountedRows(doc') /\ r.slot = s <=> r \in CountedRows(doc) /\ r.slot = s
    BY DEF Of
  <2>1. ASSUME r \in CountedRows(doc'), r.slot = s PROVE r \in CountedRows(doc)
    <3>1. PICK i \in 1..Len(doc'.invs) : /\ doc'.invs[i].status \in Counted
                                         /\ r \in {[inv |-> i, slot |-> t, rindex |-> doc'.invs[i].rindex] :
                                                     t \in doc'.invs[i].accepted}
      BY <2>1 DEF CountedRows
    <3>2. i # Cur
      BY <1>2, <2>1, <3>1
    <3>3. i \in 1..Len(doc.invs) /\ doc'.invs[i] = doc.invs[i]
      BY <1>1, <3>2
    <3> QED
      BY <3>1, <3>3 DEF CountedRows
  <2>2. ASSUME r \in CountedRows(doc), r.slot = s PROVE r \in CountedRows(doc')
    <3>1. PICK i \in 1..Len(doc.invs) : /\ doc.invs[i].status \in Counted
                                        /\ r \in {[inv |-> i, slot |-> t, rindex |-> doc.invs[i].rindex] :
                                                    t \in doc.invs[i].accepted}
      BY <2>2 DEF CountedRows
    <3>2. i # Cur
      BY <1>1, <3>1 DEF Counted
    <3>3. i \in 1..Len(doc'.invs) /\ doc'.invs[i] = doc.invs[i]
      BY <1>1, <3>2
    <3> QED
      BY <3>1, <3>3 DEF CountedRows
  <2> QED
    BY <2>1, <2>2
<1>4. \A s \in doc.dnf : Of(Decided(doc'), s) = Of(Decided(doc), s)
  <2> SUFFICES ASSUME NEW s \in doc.dnf, NEW a \in doc.att, a.slot = s
               PROVE  a \in Decided(doc') <=> a \in Decided(doc)
    BY DEF Of, Decided
  <2>1. a.inv # Cur
    BY <1>2 DEF DnfInv
  <2>2. a \in doc'.att /\ doc'.invs[a.inv] = doc.invs[a.inv]
    BY <2>1 DEF IInv, TypeOK, DocOK
  <2> QED
    BY <2>2 DEF Decided
<1>5. /\ \A s \in doc'.dnf : Cardinality(Incidents(doc, s)') >= MaxIncidents
      /\ \A s \in doc'.dnf : s \notin RowScored(doc)'
  BY <1>3, <1>4, DnfKept DEF IInv
<1> QED
  BY <1>5 DEF DnfInv

LEMMA CountingKeeps ==
  ASSUME IInv, DnfInv, Running(doc), NEW s \in Counted, NEW inc \in SUBSET IncidentRecords,
         \A r \in inc : r.inv \in 1..Len(doc.invs), doc.inc \subseteq inc, IsFiniteSet(inc),
         doc' = [doc EXCEPT !.invs = CountRows(s), !.inc = inc],
         chain'.pc \in {"after", "sync"}
  PROVE  DnfInv'
<1>1. DocOK' /\ Cur' = Cur /\ Inv'.expect = Inv.expect /\ ~Running(doc)'
  BY RowsCounted
<1>2. doc'.invs = CountRows(s) /\ doc'.att = doc.att /\ doc'.inc = inc /\ doc'.dnf = doc.dnf
  BY DEF IInv, TypeOK, DocOK
<1>3. Cur \in 1..Len(doc.invs) /\ doc.invs \in Seq(Invocations) /\ doc.invs[Cur] \in Invocations
  BY Current DEF IInv, TypeOK, DocOK, Inv
<1>4. doc'.invs[Cur].accepted = files.rows
      /\ \A i \in 1..Len(doc.invs) : i # Cur => doc'.invs[i] = doc.invs[i]
  <2> DEFINE r == [doc.invs[Cur] EXCEPT !.status = s, !.accepted = files.rows]
  <2>1. r.accepted = files.rows
    BY <1>3 DEF Invocations
  <2>2. CountRows(s) = [doc.invs EXCEPT ![Cur] = r]
    BY <1>3 DEF CountRows, Invocations
  <2> HIDE DEF r
  <2> QED
    BY <1>2, <1>3, <2>1, <2>2
<1>5. files.rows \subseteq Inv.expect
  BY DEF IInv, BarrierInv
<1> QED
  BY <1>1, <1>2, <1>4, <1>5, EndKeeps

LEMMA SameInc ==
  ASSUME IInv, DnfInv
  PROVE  /\ doc.inc \in SUBSET IncidentRecords /\ \A r \in doc.inc : r.inv \in 1..Len(doc.invs)
         /\ IsFiniteSet(doc.inc)
BY DEF IInv, TypeOK, DocOK, DnfInv

LEMMA AcceptKeeps == IInv /\ DnfInv /\ Accept => DnfInv'
<1> SUFFICES ASSUME IInv, DnfInv, Accept PROVE DnfInv'
  OBVIOUS
<1>1. Running(doc) /\ chain'.pc = "after"
  BY DEF Accept, IInv, ChainInv, TypeOK, ChainOK
<1>2. PICK s \in Counted : doc' = [doc EXCEPT !.invs = CountRows(s)]
  BY DEF Accept, Counted
<1>3. doc' = [doc EXCEPT !.invs = CountRows(s), !.inc = doc.inc]
  BY <1>2 DEF IInv, TypeOK, DocOK
<1> QED
  BY <1>1, <1>3, SameInc, CountingKeeps

LEMMA IncompleteKeeps == IInv /\ DnfInv /\ HandleIncomplete => DnfInv'
<1> SUFFICES ASSUME IInv, DnfInv, HandleIncomplete PROVE DnfInv'
  OBVIOUS
<1>1. ChainOK /\ Running(doc) /\ Cur \in 1..Len(doc.invs) /\ Inv \in Invocations
  BY Current DEF HandleIncomplete, IInv, ChainInv, TypeOK
<1> DEFINE next == Least(Inv.expect \ files.rows)
           new == Incident(Cur, next, FALSE)
           Records == /\ ProperPrefix /\ GoTo("after")
                      /\ doc' = [doc EXCEPT !.invs = CountRows("partial_incident"), !.inc = @ \cup {new}]
<1>2. (UNCHANGED doc /\ chain'.pc \in {"aborted", "archive"}) \/ Records
  <2>1. CASE RestartLoad
    BY <1>1, <2>1 DEF RestartLoad, ChainOK
  <2>2. ASSUME NEW b \in BOOLEAN, RecordIncident(b)
        PROVE  (UNCHANGED doc /\ chain'.pc \in {"aborted", "archive"}) \/ Records
    BY <1>1, <2>2 DEF RecordIncident, ChainOK
  <2>3. RestartLoad \/ RecordIncident(FALSE) \/ RecordIncident(TRUE)
    BY DEF HandleIncomplete
  <2> QED
    BY <2>1, <2>2, <2>3
<1>3. CASE UNCHANGED doc /\ chain'.pc \in {"aborted", "archive"}
  BY <1>3, SameDoc
<1>4. CASE Records
  <2>1. next \in Slots
    <3>1. files.rows \subseteq Inv.expect /\ Inv.expect \subseteq Slots
      BY <1>1 DEF IInv, BarrierInv, Invocations
    <3>2. Inv.expect \ files.rows \in SUBSET Slots /\ Inv.expect \ files.rows # {}
      BY <1>4, <3>1 DEF ProperPrefix
    <3> QED
      BY <3>2, SlotsFinite, LeastIsLeast
  <2> HIDE DEF next
  <2>2. new \in IncidentRecords /\ new.inv = Cur
    BY <1>1, <2>1 DEF Incident, IncidentRecords
  <2> DEFINE inc == doc.inc \cup {new}
  <2>3. doc' = [doc EXCEPT !.invs = CountRows("partial_incident"), !.inc = inc] /\ chain'.pc = "after"
    BY <1>1, <1>4 DEF ChainOK
  <2> HIDE DEF new
  <2>4. inc \in SUBSET IncidentRecords /\ \A r \in inc : r.inv \in 1..Len(doc.invs)
    BY <1>1, <2>2, SameInc
  <2>5. IsFiniteSet(inc)
    BY SameInc, FS_AddElement
  <2> QED
    BY <1>1, <2>3, <2>4, <2>5, CountingKeeps DEF Counted
<1> QED
  BY <1>2, <1>3, <1>4

LEMMA RemovalKeeps ==
  ASSUME IInv, DnfInv, Running(doc), doc' = WithoutCurrent, chain'.pc \in {"stopped", "sync"}
  PROVE  DnfInv'
<1>1. DocOK' /\ ~Running(doc)'
  BY Removed
<1> DEFINE gone == [status |-> "gone", rindex |-> 0, expect |-> {}, accepted |-> {}]
           att == {a \in doc.att : ~(a.inv = Cur /\ a.disp \in {"accepted", "exhausted"})}
<1>2. doc' = [doc EXCEPT !.invs[Cur] = gone, !.att = att]
  BY DEF WithoutCurrent
<1>3. gone.accepted = {}
  OBVIOUS
<1> HIDE DEF gone
<1>4. doc'.invs = [doc.invs EXCEPT ![Cur] = gone] /\ doc'.att = att
      /\ doc'.inc = doc.inc /\ doc'.dnf = doc.dnf
  BY <1>2 DEF IInv, TypeOK, DocOK
<1>5. Cur \in 1..Len(doc.invs) /\ doc.invs \in Seq(Invocations)
  BY Current DEF IInv, TypeOK, DocOK
<1>6. Cur' = Cur /\ doc'.invs[Cur].accepted = {}
      /\ \A i \in 1..Len(doc.invs) : i # Cur => doc'.invs[i] = doc.invs[i]
  BY <1>3, <1>4, <1>5 DEF Cur
<1>7. att \subseteq doc.att /\ \A a \in doc.att : a.inv # Cur => a \in att
  OBVIOUS
<1> HIDE DEF att
<1> QED
  BY <1>1, <1>4, <1>6, <1>7, SameInc, EndKeeps

LEMMA ResumeKeeps == IInv /\ DnfInv /\ (Resume \/ ArchiveStopped) => DnfInv'
<1> SUFFICES ASSUME IInv, DnfInv, Resume \/ ArchiveStopped PROVE DnfInv'
  OBVIOUS
<1>1. ChainOK
  BY DEF IInv, TypeOK
<1>2. CASE ArchiveStopped
  <2>1. Running(doc) /\ chain'.pc = "stopped" /\ doc' = WithoutCurrent
    BY <1>1, <1>2 DEF ArchiveStopped, IInv, ChainInv, ChainOK
  <2> QED
    BY <2>1, RemovalKeeps
<1>3. CASE Resume
  <2>1. chain'.pc \in {"aborted", "sync"}
    BY <1>1, <1>3 DEF Resume, ChainOK
  <2>2. CASE UNCHANGED doc
    BY <2>1, <2>2, SameDoc
  <2>3. CASE Running(doc) /\ doc' = WithoutCurrent /\ chain'.pc = "sync"
    BY <2>3, RemovalKeeps
  <2>4. CASE Running(doc) /\ doc' = Salvaged /\ chain'.pc = "sync"
    <3>1. PICK s \in Counted : doc' = [doc EXCEPT !.invs = CountRows(s)]
      BY <2>4 DEF Salvaged, Counted
    <3>2. doc' = [doc EXCEPT !.invs = CountRows(s), !.inc = doc.inc]
      BY <3>1 DEF IInv, TypeOK, DocOK
    <3> QED
      BY <2>4, <3>2, SameInc, CountingKeeps
  <2> QED
    BY <1>1, <1>3, <2>2, <2>3, <2>4 DEF Resume, ChainOK
<1> QED
  BY <1>2, <1>3

LEMMA AfterKeeps == IInv /\ DnfInv /\ (AfterAccept \/ AfterIncident) => DnfInv'
<1> SUFFICES ASSUME IInv, DnfInv, AfterAccept \/ AfterIncident PROVE DnfInv'
  OBVIOUS
<1>1. ChainOK /\ DocOK /\ TypeOK
  BY DEF IInv, TypeOK
<1>2. chain.pc = "after" /\ doc' = WithAttempts
  BY DEF AfterAccept, AfterIncident
<1>3. chain'.pc \in {"aborted", "leg", "recover"}
  BY <1>1 DEF AfterAccept, AfterIncident, ChainOK
<1> DEFINE all == [inv : {Cur}, slot : files.rows, rindex : {Inv.rindex}, disp : {"accepted"}]
<1>4. PICK new \in SUBSET all : doc' = [doc EXCEPT !.att = @ \cup new]
  BY <1>2 DEF WithAttempts
<1>5. \A a \in new : a.slot \in Inv.expect
  BY DEF IInv, BarrierInv
<1> HIDE DEF all
<1>6. /\ doc'.invs = doc.invs /\ doc'.att = doc.att \cup new
      /\ doc'.inc = doc.inc /\ doc'.dnf = doc.dnf
  BY <1>1, <1>4 DEF DocOK
<1>7. CountedRows(doc') = CountedRows(doc)
  BY <1>6 DEF CountedRows
<1>8. \A s \in doc.dnf : s \notin Inv.expect
  BY <1>2 DEF DnfInv
<1>9. \A s \in doc.dnf : Of(Decided(doc'), s) = Of(Decided(doc), s)
  BY <1>5, <1>6, <1>8 DEF Of, Decided
<1>10. /\ \A s \in doc'.dnf : Cardinality(Incidents(doc, s)') >= MaxIncidents
       /\ \A s \in doc'.dnf : s \notin RowScored(doc)'
  BY <1>1, <1>6, <1>7, <1>9, SameInc, DnfKept
<1>11. ~Running(doc)'
  BY <1>1, <1>2, <1>6, SameInvocation, Current DEF IInv, ChainInv, Counted
<1> QED
  BY <1>3, <1>6, <1>10, <1>11, SameInc DEF DnfInv

LEMMA ArchiveLoadKeeps == IInv /\ DnfInv /\ ArchiveLoad => DnfInv'
<1> SUFFICES ASSUME IInv, DnfInv, ArchiveLoad PROVE DnfInv'
  OBVIOUS
<1>1. doc'.dnf = {} /\ doc'.inc = {} /\ chain'.pc = "leg"
  BY DEF ArchiveLoad, IInv, TypeOK, ChainOK
<1>2. ~Running(doc)'
  BY DEF ArchiveLoad, Running
<1> QED
  BY <1>1, <1>2, FS_EmptySet DEF DnfInv

-----------------------------------------------------------------------------
LEMMA DnfNext == IInv /\ DnfInv /\ [Next]_vars => DnfInv'
<1> SUFFICES ASSUME IInv, DnfInv, [Next]_vars PROVE DnfInv'
  OBVIOUS
<1>1. CASE ChainStep \/ ChainFault
  <2>1. CASE \/ LegTop \/ WriteSidecar \/ NothingDue \/ Spawn \/ AnswerGo \/ ReadDone
             \/ Signal \/ Validate \/ Recover \/ SyncSidecars \/ EscalationRefused \/ Crash
    BY <2>1, ChainKeepsDnf
  <2>2. CASE \/ WriteDnf \/ Launch \/ PersistPreSpawn \/ PersistVerdict
             \/ CancelOnStop \/ CancelIdle
    BY <2>2, WriteDnfKeeps, LaunchKeeps, DecisionKeeps, ProbeKeepsDnf
  <2>3. CASE \/ Accept \/ AfterAccept \/ AfterIncident \/ ArchiveStopped
             \/ HandleIncomplete \/ ArchiveLoad \/ Resume
    BY <2>3, AcceptKeeps, AfterKeeps, ResumeKeeps, IncompleteKeeps, ArchiveLoadKeeps
  <2> QED
    BY <1>1, <2>1, <2>2, <2>3 DEF ChainStep, ChainFault
<1>2. CASE ProbeStep \/ ProbeFault \/ OperatorStop
  BY <1>2, ProbeKeepsDnf
<1>3. CASE Restart
  BY <1>3, ChainKeepsDnf
<1>4. CASE UNCHANGED vars
  BY <1>4, SameDoc DEF vars, DnfInv
<1> QED
  BY <1>1, <1>2, <1>3, <1>4 DEF Next

(* A slot has a dnf row only with its last incident recorded and never     *)
(* beside a counted row, and a launch never retries a slot whose last      *)
(* incident is recorded (spec 8.3, settle_dnf and load_slots), whatever    *)
(* goes wrong and whenever the chain dies and resumes.                     *)
THEOREM DnfRowsExact == Spec => []DnfExact
<1>1. DnfInv => DnfExact
  BY DEF DnfInv, DnfExact
<1> QED
  BY <1>1, DnfInit, DnfNext, InductiveInvariant, PTL DEF Spec

-----------------------------------------------------------------------------
(* What a step may do to the records the slot table is derived from: the   *)
(* invocations, the attempts and the dnf rows.                             *)
Gone == [status |-> "gone", rindex |-> 0, expect |-> {}, accepted |-> {}]

(* Nothing (a pre-spawn record and an incident are not among them); only   *)
(* a signal lets an item pass or stops the probe ...                       *)
Barrier == {"spawn", "watch", "judge"}

BarrierKept ==
  /\ files'.cont = files.cont /\ files.done \subseteq files'.done /\ files'.stop = files.stop
  /\ chain'.pc \in Barrier => chain.pc \in Barrier
  /\ chain'.pc = "signal" => UNCHANGED chain

RecordsKept ==
  /\ doc'.gen = doc.gen /\ doc'.invs = doc.invs /\ doc'.att = doc.att /\ doc'.dnf = doc.dnf
  /\ judged' = judged
  /\ chain'.pc = "after" => UNCHANGED <<chain, files>>
  /\ Signal \/ PersistPreSpawn \/ BarrierKept

(* ... a dnf row for a slot that is due and not scored ...                 *)
RowSettled ==
  /\ ~Running(doc)
  /\ doc'.gen = doc.gen /\ doc'.invs = doc.invs /\ doc'.att = doc.att
  /\ \E s \in Unsettled : doc'.dnf = doc.dnf \cup {s}
  /\ judged' = judged /\ chain'.pc # "after"

(* ... the invocation the slot table calls for ...                         *)
InvocationAdded ==
  /\ ~Running(doc) /\ ~InventoryBroken(doc) /\ Blocked(doc) = {} /\ Todo # {}
  /\ doc'.gen = doc.gen /\ doc'.invs = Append(doc.invs, NextInvocation)
  /\ doc'.att = doc.att /\ doc'.dnf = doc.dnf
  /\ judged' = judged /\ chain'.pc = "spawn" /\ files' = NoFiles

(* ... a verdict on an item of the running invocation ...                  *)
VerdictAdded ==
  /\ Running(doc) /\ chain.pc = "judge" /\ files.stop = NoHook
  /\ doc'.gen = doc.gen /\ doc'.invs = doc.invs /\ doc'.dnf = doc.dnf
  /\ \E a \in Attempts :
       /\ a.inv = Cur /\ a.slot \in Inv.expect /\ a.rindex = Inv.rindex
       /\ a.slot \in files.done \ files.cont
       /\ a.disp \in {"cheat", "exhausted"} => "cheat" \in FaultKinds
       /\ a.disp = "cheat" => a.rindex < MaxReruns
       /\ doc'.att = doc.att \cup {a} /\ judged' = judged \cup {a}
       /\ chain'.hook = After(a.slot, a.disp)
  /\ chain'.pc = "signal" /\ UNCHANGED files

(* ... the rows of the running invocation count ...                        *)
InvocationCounted ==
  /\ Running(doc)
  /\ doc'.gen = doc.gen /\ \E s \in Counted : doc'.invs = CountRows(s)
  /\ doc'.att = doc.att /\ doc'.dnf = doc.dnf
  /\ judged' = judged /\ UNCHANGED files

(* ... or it leaves the inventory with its accepting decisions ...         *)
InvocationRemoved ==
  /\ Running(doc)
  /\ doc'.gen = doc.gen /\ doc'.invs = [doc.invs EXCEPT ![Cur] = Gone]
  /\ doc'.att = {a \in doc.att : ~(a.inv = Cur /\ a.disp \in {"accepted", "exhausted"})}
  /\ doc'.dnf = doc.dnf
  /\ ~Salvageable \/ chain.pc = "archive_stopped"
  /\ judged' = judged /\ chain'.pc # "after"

(* ... attempts for the counted rows that have none, or a fresh start.     *)
AttemptsFilled ==
  /\ chain.pc = "after" /\ doc' = WithAttempts
  /\ judged' = judged /\ chain'.pc # "after"

LoadRestarted ==
  /\ doc'.gen = doc.gen + 1 /\ doc'.invs = <<>> /\ doc'.att = {} /\ doc'.dnf = {}
  /\ judged' = {} /\ chain'.pc # "after"

RecordsStep ==
  \/ RecordsKept \/ RowSettled \/ InvocationAdded \/ VerdictAdded
  \/ InvocationCounted \/ InvocationRemoved \/ AttemptsFilled \/ LoadRestarted

LEMMA ProbeKeepsRecords == IInv /\ (ProbeStep \/ ProbeFault) => RecordsKept
<1> SUFFICES ASSUME IInv, ProbeStep \/ ProbeFault PROVE RecordsKept
  OBVIOUS
<1>1. FilesOK
  BY DEF IInv, TypeOK
<1>2. ASSUME UNCHANGED <<doc, chain, judged, files>>, Live PROVE RecordsKept
  BY <1>2 DEF RecordsKept, BarrierKept
<1>3. CASE ProbeReady \/ ProbeRow \/ ProbeDone
  <2>1. UNCHANGED <<doc, chain, judged>> /\ Live
    BY <1>3 DEF ProbeReady, ProbeRow, ProbeDone, Live
  <2>2. files'.cont = files.cont /\ files.done \subseteq files'.done /\ files'.stop = files.stop
    BY <1>1, <1>3 DEF ProbeReady, ProbeRow, ProbeDone, FilesOK
  <2>3. chain.pc # "after"
    BY <2>1 DEF IInv, ChainInv
  <2> QED
    BY <2>1, <2>2, <2>3 DEF RecordsKept, BarrierKept
<1>4. CASE ProbeGo \/ ProbeStop \/ ProbeContinue \/ ProbeCancelled \/ OrphanTimeout \/ ProbeExit
  <2>1. UNCHANGED <<doc, chain, judged, files>>
    BY <1>4 DEF ProbeGo, ProbeStop, ProbeContinue, ProbeCancelled, OrphanTimeout, ProbeExit
  <2>2. Live
    BY <1>4 DEF ProbeGo, ProbeStop, ProbeContinue, ProbeCancelled, OrphanTimeout, ProbeExit, Live
  <2> QED
    BY <1>2, <2>1, <2>2
<1>5. CASE ProbeFault
  BY <1>2, <1>5 DEF ProbeFault, ProbeTransport, ProbeHarness, ProbeKilled, Live
<1> QED
  BY <1>3, <1>4, <1>5 DEF ProbeStep

LEMMA KeptRecords ==
  IInv /\ (\/ ProbeStep \/ ProbeFault \/ OperatorStop \/ CancelOnStop \/ CancelIdle
           \/ LegTop \/ WriteSidecar \/ NothingDue \/ Spawn \/ AnswerGo \/ ReadDone
           \/ Signal \/ Validate \/ Recover \/ SyncSidecars
           \/ EscalationRefused \/ Crash \/ Restart \/ UNCHANGED vars) => RecordsKept
<1> SUFFICES ASSUME IInv,
           \/ OperatorStop \/ CancelOnStop \/ CancelIdle
           \/ LegTop \/ WriteSidecar \/ NothingDue \/ Spawn \/ AnswerGo \/ ReadDone
           \/ Signal \/ Validate \/ Recover \/ SyncSidecars
           \/ EscalationRefused \/ Crash \/ Restart \/ UNCHANGED vars
    PROVE RecordsKept
  BY ProbeKeepsRecords
<1>1. ChainOK /\ FilesOK
  BY DEF IInv, TypeOK
<1>2. UNCHANGED <<doc, judged>>
  <2>1. CASE \/ LegTop \/ WriteSidecar \/ NothingDue \/ Spawn \/ AnswerGo \/ ReadDone
             \/ Signal \/ Validate \/ Recover \/ SyncSidecars
    BY <2>1 DEF LegTop, WriteSidecar, NothingDue, Spawn, AnswerGo, ReadDone, Signal, Validate,
                Recover, SyncSidecars
  <2>2. CASE \/ OperatorStop \/ CancelOnStop \/ CancelIdle
             \/ EscalationRefused \/ Crash \/ Restart \/ UNCHANGED vars
    BY <2>2 DEF OperatorStop, CancelOnStop, CancelIdle, EscalationRefused, Crash, Restart, vars
  <2> QED
    BY <2>1, <2>2
<1>3. ASSUME UNCHANGED files,
             UNCHANGED chain \/ chain'.pc \notin {"spawn", "watch", "judge", "signal", "after"}
      PROVE  RecordsKept
  <2>1. BarrierKept
    BY <1>3 DEF BarrierKept, Barrier
  <2> QED
    BY <1>2, <1>3, <2>1 DEF RecordsKept
<1>4. CASE OperatorStop \/ CancelOnStop \/ CancelIdle \/ UNCHANGED vars
  BY <1>3, <1>4 DEF OperatorStop, CancelOnStop, CancelIdle, vars
<1>5. CASE LegTop \/ WriteSidecar \/ NothingDue \/ Validate
  BY <1>1, <1>3, <1>5 DEF LegTop, WriteSidecar, NothingDue, Validate, ChainOK
<1>6. CASE Recover \/ SyncSidecars \/ EscalationRefused
  BY <1>1, <1>3, <1>6 DEF Recover, SyncSidecars, EscalationRefused, ChainOK
<1>7. CASE Crash \/ Restart
  BY <1>3, <1>7 DEF Crash, Restart
<1>8. CASE Spawn \/ ReadDone
  <2>1. UNCHANGED files /\ chain'.pc \in {"watch", "judge"} /\ chain.pc \in {"spawn", "watch"}
    BY <1>1, <1>8 DEF Spawn, ReadDone, Pumping, ChainOK
  <2>2. BarrierKept
    BY <2>1 DEF BarrierKept, Barrier
  <2> QED
    BY <1>2, <2>1, <2>2 DEF RecordsKept
<1>9. CASE AnswerGo
  <2>1. files'.cont = files.cont /\ files'.done = files.done /\ files'.stop = files.stop
    BY <1>1, <1>9 DEF AnswerGo, FilesOK
  <2>2. UNCHANGED chain /\ chain.pc = "watch"
    BY <1>9 DEF AnswerGo, Pumping
  <2> QED
    BY <1>2, <2>1, <2>2 DEF RecordsKept, BarrierKept
<1>10. CASE Signal
  <2>1. chain'.pc = "watch"
    BY <1>1, <1>10 DEF Signal, ChainOK
  <2> QED
    BY <1>2, <1>10, <2>1 DEF RecordsKept
<1> QED
  BY <1>4, <1>5, <1>6, <1>7, <1>8, <1>9, <1>10

LEMMA DecidedRecords ==
  IInv /\ (WriteDnf \/ Launch \/ PersistPreSpawn \/ PersistVerdict) => RecordsStep
<1> SUFFICES ASSUME IInv, WriteDnf \/ Launch \/ PersistPreSpawn \/ PersistVerdict
             PROVE  RecordsStep
  OBVIOUS
<1>1. ChainOK /\ DocOK /\ TypeOK
  BY DEF IInv, TypeOK
<1>2. CASE WriteDnf
  <2>1. ~Running(doc) /\ judged' = judged
    BY <1>2 DEF WriteDnf, IInv, ChainInv
  <2>2. chain'.pc \in {"aborted", "launch", "sidecar"} /\ UNCHANGED files
    BY <1>1, <1>2 DEF WriteDnf, ChainOK
  <2>3. CASE UNCHANGED doc
    BY <2>1, <2>2, <2>3 DEF RecordsKept, BarrierKept, Barrier, RecordsStep
  <2>4. CASE Unsettled # {} /\ doc' = [doc EXCEPT !.dnf = @ \cup {Least(Unsettled)}]
    <3>1. Least(Unsettled) \in Unsettled
      <4>1. Unsettled \in SUBSET Slots
        BY DEF Unsettled, Due
      <4> QED
        BY <2>4, <4>1, SlotsFinite, LeastIsLeast
    <3>2. /\ doc'.gen = doc.gen /\ doc'.invs = doc.invs /\ doc'.att = doc.att
          /\ doc'.dnf = doc.dnf \cup {Least(Unsettled)}
      BY <1>1, <2>4 DEF DocOK
    <3> QED
      BY <2>1, <2>2, <3>1, <3>2 DEF RowSettled, RecordsStep
  <2> QED
    BY <1>2, <2>3, <2>4 DEF WriteDnf
<1>3. CASE Launch
  <2>1. ~Running(doc) /\ judged' = judged
    BY <1>3 DEF Launch, IInv, ChainInv
  <2>2. CASE UNCHANGED <<doc, files>> /\ chain'.pc \in {"aborted", "done"}
    BY <2>1, <2>2 DEF RecordsKept, BarrierKept, Barrier, RecordsStep
  <2>3. CASE /\ ~InventoryBroken(doc) /\ Blocked(doc) = {} /\ Todo # {}
             /\ doc' = [doc EXCEPT !.invs = Append(@, NextInvocation)]
             /\ files' = NoFiles /\ chain'.pc = "spawn"
    <3>1. /\ doc'.gen = doc.gen /\ doc'.invs = Append(doc.invs, NextInvocation)
          /\ doc'.att = doc.att /\ doc'.dnf = doc.dnf
      BY <1>1, <2>3 DEF DocOK
    <3> QED
      BY <2>1, <2>3, <3>1 DEF InvocationAdded, RecordsStep
  <2> QED
    BY <1>1, <1>3, <2>2, <2>3 DEF Launch, ChainOK
<1>4. CASE PersistPreSpawn
  <2>1. chain'.pc = "signal" /\ judged' = judged
    BY <1>1, <1>4 DEF PersistPreSpawn, ChainOK
  <2>2. /\ doc'.gen = doc.gen /\ doc'.invs = doc.invs /\ doc'.att = doc.att /\ doc'.dnf = doc.dnf
    BY <1>1, <1>4 DEF PersistPreSpawn, DocOK
  <2> QED
    BY <1>4, <2>1, <2>2 DEF RecordsKept, RecordsStep
<1>5. CASE PersistVerdict
  <2>1. Running(doc) /\ Item \in Inv.expect /\ Item \in Slots /\ Cur \in 1..Len(doc.invs)
        /\ Inv \in Invocations /\ chain.pc = "judge" /\ files.stop = NoHook
        /\ Item \in files.done \ files.cont /\ UNCHANGED files
    BY <1>5, NextItem, AtBarrier DEF PersistVerdict, IInv, StopInv, ChainInv
  <2>2. PICK v \in Verdicts :
          LET a == [inv |-> Cur, slot |-> Item, rindex |-> Inv.rindex, disp |-> Disposition(v)]
          IN /\ doc' = [doc EXCEPT !.att = @ \cup {a}]
             /\ judged' = judged \cup {a}
             /\ chain' = [chain EXCEPT !.pc = "signal", !.hook = After(Item, a.disp)]
    BY <1>5 DEF PersistVerdict
  <2> DEFINE d == Disposition(v)
             a == [inv |-> Cur, slot |-> Item, rindex |-> Inv.rindex, disp |-> d]
  <2>3. /\ d \in Verdict
        /\ d \in {"cheat", "exhausted"} => "cheat" \in FaultKinds
        /\ d = "cheat" => Inv.rindex < MaxReruns
    <3>1. d \in Verdict /\ (d \in {"cheat", "exhausted"} => v = "cheat")
      BY DEF Verdicts, Verdict, Disposition
    <3>2. v = "cheat" => "cheat" \in FaultKinds
      BY DEF Verdicts, May
    <3>3. Inv.rindex \in Nat /\ MaxReruns \in Nat
      BY <2>1, BoundsAssumption DEF Invocations
    <3> QED
      BY <3>1, <3>2, <3>3 DEF Disposition
  <2>4. chain'.pc = "signal" /\ chain'.hook = After(Item, d)
    BY <1>1, <2>2 DEF ChainOK
  <2>5. doc' = [doc EXCEPT !.att = @ \cup {a}] /\ judged' = judged \cup {a}
    BY <2>2
  <2> HIDE DEF d
  <2>6. a \in Attempts /\ a.inv = Cur /\ a.slot = Item /\ a.rindex = Inv.rindex /\ a.disp = d
    BY <2>1, <2>3 DEF Attempts, Invocations
  <2> HIDE DEF a
  <2>7. /\ doc'.gen = doc.gen /\ doc'.invs = doc.invs /\ doc'.att = doc.att \cup {a}
        /\ doc'.dnf = doc.dnf
    BY <1>1, <2>5 DEF DocOK
  <2> QED
    BY <2>1, <2>3, <2>4, <2>5, <2>6, <2>7 DEF VerdictAdded, RecordsStep
<1> QED
  BY <1>2, <1>3, <1>4, <1>5

LEMMA CountedRecords ==
  ASSUME IInv, Running(doc), UNCHANGED <<judged, files>>, NEW s \in Counted, NEW inc,
         doc' = [doc EXCEPT !.invs = CountRows(s), !.inc = inc]
  PROVE  RecordsStep
<1>1. /\ doc'.gen = doc.gen /\ doc'.invs = CountRows(s) /\ doc'.att = doc.att
      /\ doc'.dnf = doc.dnf
  BY DEF IInv, TypeOK, DocOK
<1> QED
  BY <1>1 DEF InvocationCounted, RecordsStep

LEMMA RemovedRecords ==
  ASSUME IInv, Running(doc), UNCHANGED judged, doc' = WithoutCurrent, chain'.pc # "after",
         ~Salvageable \/ chain.pc = "archive_stopped"
  PROVE  RecordsStep
<1>1. doc' = [doc EXCEPT !.invs[Cur] = Gone,
                         !.att = {a \in @ : ~(a.inv = Cur /\ a.disp \in {"accepted", "exhausted"})}]
  BY DEF WithoutCurrent, Gone
<1>2. /\ doc'.gen = doc.gen /\ doc'.invs = [doc.invs EXCEPT ![Cur] = Gone]
      /\ doc'.att = {a \in doc.att : ~(a.inv = Cur /\ a.disp \in {"accepted", "exhausted"})}
      /\ doc'.dnf = doc.dnf
  BY <1>1 DEF IInv, TypeOK, DocOK
<1> QED
  BY <1>2 DEF InvocationRemoved, RecordsStep

LEMMA EndedRecords ==
  IInv /\ (\/ Accept \/ HandleIncomplete \/ Resume \/ ArchiveStopped
           \/ AfterAccept \/ AfterIncident \/ ArchiveLoad) => RecordsStep
<1> SUFFICES ASSUME IInv, \/ Accept \/ HandleIncomplete \/ Resume \/ ArchiveStopped
                          \/ AfterAccept \/ AfterIncident \/ ArchiveLoad
             PROVE  RecordsStep
  OBVIOUS
<1>1. ChainOK /\ DocOK /\ TypeOK
  BY DEF IInv, TypeOK
<1>2. ASSUME NEW s \in Counted, doc' = [doc EXCEPT !.invs = CountRows(s)],
             Running(doc), UNCHANGED <<judged, files>>
      PROVE  RecordsStep
  <2>1. doc' = [doc EXCEPT !.invs = CountRows(s), !.inc = doc.inc]
    BY <1>1, <1>2 DEF DocOK
  <2> QED
    BY <1>2, <2>1, CountedRecords
<1>3. CASE Accept
  <2>1. Running(doc) /\ UNCHANGED <<judged, files>>
    BY <1>3 DEF Accept, IInv, ChainInv
  <2>2. PICK s \in Counted : doc' = [doc EXCEPT !.invs = CountRows(s)]
    BY <1>3 DEF Accept, Counted
  <2> QED
    BY <1>2, <2>1, <2>2
<1>4. CASE HandleIncomplete
  <2>1. Running(doc) /\ UNCHANGED <<judged, files>>
    BY <1>4 DEF HandleIncomplete, IInv, ChainInv
  <2>2. CASE RestartLoad
    <3>1. UNCHANGED doc /\ chain'.pc \in {"aborted", "archive"}
      BY <1>1, <2>2 DEF RestartLoad, ChainOK
    <3> QED
      BY <2>1, <3>1 DEF RecordsKept, BarrierKept, Barrier, RecordsStep
  <2>3. ASSUME NEW b \in BOOLEAN, RecordIncident(b) PROVE RecordsStep
    <3>1. CASE UNCHANGED doc /\ chain'.pc = "aborted"
      BY <2>1, <3>1 DEF RecordsKept, BarrierKept, Barrier, RecordsStep
    <3>2. ASSUME NEW i, doc' = [doc EXCEPT !.invs = CountRows("partial_incident"), !.inc = @ \cup {i}]
          PROVE  RecordsStep
      <4>1. doc' = [doc EXCEPT !.invs = CountRows("partial_incident"), !.inc = doc.inc \cup {i}]
        BY <3>2
      <4> QED
        BY <2>1, <4>1, CountedRecords DEF Counted
    <3> QED
      BY <1>1, <2>3, <3>1, <3>2 DEF RecordIncident, ChainOK
  <2> QED
    BY <1>4, <2>2, <2>3 DEF HandleIncomplete
<1>5. CASE Resume
  <2>1. judged' = judged /\ chain'.pc \in {"aborted", "sync"}
    BY <1>1, <1>5 DEF Resume, ChainOK
  <2>2. CASE UNCHANGED <<doc, files>>
    BY <2>1, <2>2 DEF RecordsKept, BarrierKept, Barrier, RecordsStep
  <2>3. CASE Running(doc) /\ ~Salvageable /\ doc' = WithoutCurrent
    BY <2>1, <2>3, RemovedRecords
  <2>4. CASE Running(doc) /\ doc' = Salvaged /\ UNCHANGED files
    <3>1. PICK s \in Counted : doc' = [doc EXCEPT !.invs = CountRows(s)]
      BY <2>4 DEF Salvaged, Counted
    <3> QED
      BY <1>2, <2>1, <2>4, <3>1
  <2> QED
    BY <1>5, <2>2, <2>3, <2>4 DEF Resume
<1>6. CASE ArchiveStopped
  <2>1. /\ Running(doc) /\ doc' = WithoutCurrent /\ judged' = judged /\ chain'.pc # "after"
        /\ chain.pc = "archive_stopped"
    BY <1>1, <1>6 DEF ArchiveStopped, IInv, ChainInv, ChainOK
  <2> QED
    BY <2>1, RemovedRecords
<1>7. CASE AfterAccept \/ AfterIncident
  <2>1. chain.pc = "after" /\ doc' = WithAttempts /\ judged' = judged
    BY <1>7 DEF AfterAccept, AfterIncident
  <2>2. chain'.pc # "after"
    BY <1>1, <1>7 DEF AfterAccept, AfterIncident, ChainOK
  <2> QED
    BY <2>1, <2>2 DEF AttemptsFilled, RecordsStep
<1>8. CASE ArchiveLoad
  <2>1. judged' = {} /\ chain'.pc # "after"
    BY <1>1, <1>8 DEF ArchiveLoad, ChainOK
  <2>2. doc'.gen = doc.gen + 1 /\ doc'.invs = <<>> /\ doc'.att = {} /\ doc'.dnf = {}
    BY <1>8 DEF ArchiveLoad
  <2> QED
    BY <2>1, <2>2 DEF LoadRestarted, RecordsStep
<1> QED
  BY <1>3, <1>4, <1>5, <1>6, <1>7, <1>8

LEMMA Records == IInv /\ [Next]_vars => RecordsStep
<1> SUFFICES ASSUME IInv, [Next]_vars PROVE RecordsStep
  OBVIOUS
<1>1. CASE ChainStep \/ ChainFault
  <2>1. CASE \/ LegTop \/ WriteSidecar \/ NothingDue \/ Spawn \/ AnswerGo \/ ReadDone
             \/ Signal \/ Validate \/ Recover \/ SyncSidecars \/ EscalationRefused \/ Crash
             \/ CancelOnStop \/ CancelIdle
    BY <2>1, KeptRecords DEF RecordsStep
  <2>2. CASE WriteDnf \/ Launch \/ PersistPreSpawn \/ PersistVerdict
    BY <2>2, DecidedRecords
  <2>3. CASE \/ Accept \/ AfterAccept \/ AfterIncident \/ ArchiveStopped
             \/ HandleIncomplete \/ ArchiveLoad \/ Resume
    BY <2>3, EndedRecords
  <2> QED
    BY <1>1, <2>1, <2>2, <2>3 DEF ChainStep, ChainFault
<1>2. CASE ProbeStep \/ ProbeFault \/ OperatorStop \/ Restart \/ UNCHANGED vars
  BY <1>2, KeptRecords DEF RecordsStep
<1> QED
  BY <1>1, <1>2 DEF Next
-----------------------------------------------------------------------------
(* The verdicts of a load generation.                                      *)
Rejecting == {"cheat", "unclear"}

(* Every re-run index below r has a cheat of slot s.                       *)
EarnedBy(s, r, J) == \A q \in 0..(r - 1) : \E e \in J : e.slot = s /\ e.rindex = q /\ e.disp = "cheat"

(* A rejecting verdict is never dropped from chain.json, a cheat in        *)
(* chain.json was a verdict, and a running invocation has an earned index. *)
VerdictInv ==
  /\ \A j \in judged : j.inv \in 1..Len(doc.invs)
  /\ \A j \in judged : j.disp \in Rejecting => j \in doc.att
  /\ \A a \in doc.att : a.disp = "cheat" => a \in judged
  /\ \A j \in judged : EarnedBy(j.slot, j.rindex, judged)
  /\ Running(doc) => \A s \in Inv.expect : EarnedBy(s, Inv.rindex, judged)

LEMMA VerdictInit == Init => VerdictInv
BY DEF Init, VerdictInv, Running

(* The running invocation is over after its rows count or it is removed.   *)
LEMMA Over ==
  ASSUME IInv
  PROVE  /\ InvocationCounted => Len(doc'.invs) = Len(doc.invs) /\ ~Running(doc')
         /\ InvocationRemoved => Len(doc'.invs) = Len(doc.invs) /\ ~Running(doc')
         /\ chain.pc = "after" => ~Running(doc)
<1>1. ASSUME InvocationCounted PROVE Len(doc'.invs) = Len(doc.invs) /\ ~Running(doc')
  <2>1. PICK s \in Counted : doc'.invs = CountRows(s)
    BY <1>1 DEF InvocationCounted
  <2>2. Running(doc)
    BY <1>1 DEF InvocationCounted
  <2> QED
    BY <2>1, <2>2, Counts DEF Running
<1>2. ASSUME InvocationRemoved PROVE Len(doc'.invs) = Len(doc.invs) /\ ~Running(doc')
  <2>1. Cur \in 1..Len(doc.invs) /\ doc.invs \in Seq(Invocations)
    BY <1>2, Current DEF InvocationRemoved, IInv, TypeOK, DocOK
  <2>2. doc'.invs = [doc.invs EXCEPT ![Cur] = Gone]
    BY <1>2 DEF InvocationRemoved
  <2>3. Gone.status = "gone"
    BY DEF Gone
  <2>4. Len(doc'.invs) = Len(doc.invs) /\ doc'.invs[Cur] = Gone
    BY <2>1, <2>2
  <2> QED
    BY <2>1, <2>3, <2>4 DEF Running, Cur
<1>3. ASSUME chain.pc = "after" PROVE ~Running(doc)
  BY <1>3, Current DEF IInv, ChainInv, Counted
<1> QED
  BY <1>1, <1>2, <1>3

LEMMA FilledAttempts ==
  ASSUME IInv, AttemptsFilled
  PROVE  /\ doc'.gen = doc.gen /\ doc'.invs = doc.invs /\ doc'.dnf = doc.dnf
         /\ \E new \in SUBSET [inv : {Cur}, slot : files.rows, rindex : {Inv.rindex}, disp : {"accepted"}] :
               /\ doc'.att = doc.att \cup new
               /\ \A n \in new, a \in doc.att : ~SameKey(n, a)
<1> DEFINE all == [inv : {Cur}, slot : files.rows, rindex : {Inv.rindex}, disp : {"accepted"}]
           known == {<<a.slot, a.rindex>> : a \in doc.att}
           new == {a \in all : <<a.slot, a.rindex>> \notin known}
<1>1. doc' = [doc EXCEPT !.att = @ \cup new]
  BY DEF AttemptsFilled, WithAttempts
<1>2. \A n \in new, a \in doc.att : ~SameKey(n, a)
  BY DEF SameKey
<1>3. new \in SUBSET all
  OBVIOUS
<1> HIDE DEF new
<1>4. doc'.gen = doc.gen /\ doc'.invs = doc.invs /\ doc'.dnf = doc.dnf /\ doc'.att = doc.att \cup new
  BY <1>1 DEF IInv, TypeOK, DocOK
<1> QED
  BY <1>2, <1>3, <1>4

LEMMA AddedInvocation ==
  ASSUME IInv, InvocationAdded
  PROVE  /\ NextInvocation \in Invocations /\ NextInvocation.status = "running"
         /\ Len(doc'.invs) = Len(doc.invs) + 1 /\ Len(doc.invs) \in Nat
         /\ doc'.invs[Len(doc'.invs)] = NextInvocation
         /\ \A i \in 1..Len(doc.invs) : doc'.invs[i] = doc.invs[i]
<1> DEFINE new == NextInvocation
<1>1. DocOK
  BY DEF IInv, TypeOK
<1>2. new \in Invocations /\ new.status = "running"
  BY <1>1, NextInvocationTyped DEF InvocationAdded
<1>3. doc'.invs = Append(doc.invs, new) /\ doc.invs \in Seq(Invocations)
  BY <1>1 DEF InvocationAdded, DocOK
<1> HIDE DEF new
<1>4. /\ Len(doc'.invs) = Len(doc.invs) + 1 /\ Len(doc.invs) \in Nat
      /\ doc'.invs[Len(doc'.invs)] = new
      /\ \A i \in 1..Len(doc.invs) : doc'.invs[i] = doc.invs[i]
  BY <1>2, <1>3
<1> QED
  BY <1>2, <1>4 DEF new

(* A re-run follows a recorded cheat at the index before its own.          *)
LEMMA RerunFollowsCheat ==
  ASSUME IInv, VerdictInv, ~InventoryBroken(doc), Todo # {}
  PROVE  \A s \in NextInvocation.expect : EarnedBy(s, NextInvocation.rindex, judged)
<1> DEFINE first == Least(Todo)
<1>1. DocOK
  BY DEF IInv, TypeOK
<1>2. CASE first \notin Pending(doc)
  <2>1. NextInvocation.rindex = 0
    BY <1>2 DEF NextInvocation
  <2> QED
    BY <2>1 DEF EarnedBy
<1>3. CASE first \in Pending(doc)
  <2> DEFINE I == RIndices(doc, first)
             recorded == {a \in Decided(doc) : a.slot = first /\ a.rindex = Largest(I)}
  <2>1. Latest(doc, first) = "cheat"
    BY <1>3 DEF Pending
  <2> HIDE DEF first
  <2>2. I # {} /\ recorded # {} /\ (CHOOSE a \in recorded : TRUE).disp = "cheat"
    BY <2>1 DEF Latest
  <2>3. PICK a \in recorded : a.disp = "cheat"
    BY <2>2
  <2>4. a \in doc.att /\ a.slot = first /\ a.rindex = Largest(I)
    BY <2>3 DEF Decided
  <2>5. a \in judged /\ EarnedBy(first, a.rindex, judged)
    BY <2>3, <2>4 DEF VerdictInv
  <2>6. a.rindex \in Nat
    BY <1>1, <2>4 DEF DocOK, Attempts
  <2>7. NextInvocation.rindex = a.rindex + 1 /\ NextInvocation.expect = {first}
    <3>1. Least(Todo) \in Pending(doc)
      BY <1>3 DEF first
    <3> QED
      BY <2>4, <3>1 DEF NextInvocation, first
  <2>8. ASSUME NEW q \in 0..((a.rindex + 1) - 1)
        PROVE  \E e \in judged : e.slot = first /\ e.rindex = q /\ e.disp = "cheat"
    <3>1. CASE q = a.rindex
      BY <2>3, <2>4, <2>5, <3>1
    <3>2. CASE q # a.rindex
      <4>1. q \in 0..(a.rindex - 1)
        BY <2>6, <2>8, <3>2
      <4> QED
        BY <2>5, <4>1 DEF EarnedBy
    <3> QED
      BY <3>1, <3>2
  <2>9. EarnedBy(first, a.rindex + 1, judged)
    BY <2>8 DEF EarnedBy
  <2> QED
    BY <2>7, <2>9
<1> QED
  BY <1>2, <1>3

LEMMA VerdictNext == IInv /\ VerdictInv /\ [Next]_vars => VerdictInv'
<1> SUFFICES ASSUME IInv, VerdictInv, RecordsStep PROVE VerdictInv'
  BY Records
<1>1. DocOK
  BY DEF IInv, TypeOK
<1>2. CASE RecordsKept \/ RowSettled
  <2>1. doc'.invs = doc.invs /\ doc'.att = doc.att /\ judged' = judged
    BY <1>2 DEF RecordsKept, RowSettled
  <2> QED
    BY <2>1 DEF VerdictInv, Running, Inv, Cur, EarnedBy
<1>3. CASE InvocationAdded
  <2>1. doc'.att = doc.att /\ judged' = judged
    BY <1>3 DEF InvocationAdded
  <2>2. Inv' = NextInvocation /\ Len(doc'.invs) = Len(doc.invs) + 1 /\ Len(doc.invs) \in Nat
    BY <1>3, AddedInvocation DEF Inv, Cur
  <2>3. \A s \in Inv'.expect : EarnedBy(s, Inv'.rindex, judged')
    BY <1>3, <2>1, <2>2, RerunFollowsCheat DEF InvocationAdded
  <2>4. \A j \in judged' : j.inv \in 1..Len(doc'.invs)
    BY <2>1, <2>2 DEF VerdictInv
  <2> QED
    BY <2>1, <2>3, <2>4 DEF VerdictInv
<1>4. CASE VerdictAdded
  <2>1. PICK a \in Attempts : /\ a.inv = Cur /\ a.slot \in Inv.expect /\ a.rindex = Inv.rindex
                              /\ doc'.att = doc.att \cup {a} /\ judged' = judged \cup {a}
    BY <1>4 DEF VerdictAdded
  <2>2. Inv' = Inv /\ Running(doc) /\ Len(doc'.invs) = Len(doc.invs) /\ Cur \in 1..Len(doc.invs)
    BY <1>4, Current DEF VerdictAdded, Inv, Cur, IInv
  <2>3. \A s, r : EarnedBy(s, r, judged) => EarnedBy(s, r, judged')
    BY <2>1 DEF EarnedBy
  <2>4. EarnedBy(a.slot, a.rindex, judged')
    BY <2>1, <2>2, <2>3 DEF VerdictInv
  <2> QED
    BY <2>1, <2>2, <2>3, <2>4 DEF VerdictInv
<1>5. CASE InvocationCounted
  <2>1. doc'.att = doc.att /\ judged' = judged /\ Len(doc'.invs) = Len(doc.invs) /\ ~Running(doc')
    BY <1>5, Over DEF InvocationCounted
  <2> QED
    BY <2>1 DEF VerdictInv, Running
<1>6. CASE InvocationRemoved
  <2>1. doc'.att \subseteq doc.att /\ judged' = judged /\ Len(doc'.invs) = Len(doc.invs) /\ ~Running(doc')
    BY <1>6, Over DEF InvocationRemoved
  <2>2. \A a \in doc.att : a.disp \in Rejecting => a \in doc'.att
    BY <1>6 DEF InvocationRemoved, Rejecting
  <2> QED
    BY <2>1, <2>2 DEF VerdictInv, Running
<1>7. CASE AttemptsFilled
  <2>1. judged' = judged /\ doc'.invs = doc.invs /\ ~Running(doc)
    BY <1>7, FilledAttempts, Over DEF AttemptsFilled
  <2>2. doc.att \subseteq doc'.att /\ \A a \in doc'.att : a \in doc.att \/ a.disp = "accepted"
    BY <1>7, FilledAttempts
  <2> QED
    BY <2>1, <2>2 DEF VerdictInv, Running
<1>8. CASE LoadRestarted
  BY <1>8 DEF LoadRestarted, VerdictInv, Running
<1> QED
  BY <1>2, <1>3, <1>4, <1>5, <1>6, <1>7, <1>8 DEF RecordsStep

(* P201 / P202: a re-run is launched only after a cheat verdict on the     *)
(* attempt before it, so a slot's attempt at re-run index r follows r      *)
(* rejected ones and a strict fail took every permitted re-run.            *)
THEOREM RerunsAreEarned == Spec => []RerunsEarned
<1>1. VerdictInv => RerunsEarned
  BY DEF VerdictInv, RerunsEarned, EarnedBy
<1> QED
  BY <1>1, VerdictInit, VerdictNext, InductiveInvariant, PTL DEF Spec

LEMMA NeverScored == IInv /\ VerdictInv => RejectedNeverScored
<1> SUFFICES ASSUME IInv, VerdictInv, NEW j \in judged, j.disp \in Rejecting,
                    j.slot \in Scored(doc), ~InventoryBroken(doc),
                    Source(doc, j.slot) = [inv |-> j.inv, rindex |-> j.rindex]
             PROVE  FALSE
  BY DEF RejectedNeverScored, Rejecting
<1> DEFINE s == j.slot
           r == Largest(RIndices(doc, s))
           recorded == {a \in Decided(doc) : a.slot = s /\ a.rindex = r}
           row == CHOOSE x \in CountedRows(doc) : x.slot = s /\ x.rindex = r
<1>1. j \in doc.att /\ j.inv \in 1..Len(doc.invs) /\ j.inv # 0
  BY DEF VerdictInv, Rejecting
<1>2. s \notin doc.dnf
  BY <1>1 DEF Source
<1>3. s \in RowScored(doc)
  BY <1>2 DEF Scored
<1>4. \E x \in CountedRows(doc) : x.slot = s /\ x.rindex = r
  BY <1>3 DEF InventoryBroken, MissingRow
<1>5. row.rindex = r
  BY <1>4
<1>6. Source(doc, s) = [inv |-> row.inv, rindex |-> row.rindex]
  BY <1>2 DEF Source
<1> HIDE DEF row
<1>7. j.rindex = r
  BY <1>5, <1>6
<1>8. j \in recorded
  BY <1>1, <1>7 DEF Decided, Rejecting
<1>9. \A a \in recorded : a = j
  BY <1>8 DEF InventoryBroken, DuplicateAttempt, SameKey
<1>10. (CHOOSE a \in recorded : TRUE) = j
  BY <1>8, <1>9
<1>11. Latest(doc, s) \in {"none", j.disp}
  BY <1>8, <1>10 DEF Latest
<1> QED
  BY <1>3, <1>11 DEF RowScored, Rejecting

(* P201: a row the hooks rejected is never the row a slot is scored from,  *)
(* whatever goes wrong and whenever the chain dies and resumes.            *)
THEOREM RejectedIsNeverScored == Spec => []RejectedNeverScored
BY NeverScored, VerdictInit, VerdictNext, InductiveInvariant, PTL DEF Spec

-----------------------------------------------------------------------------
(* What a slot is scored from.                                             *)
LastOf(d, s) == {a \in Decided(d) : a.slot = s /\ a.rindex = Largest(RIndices(d, s))}

(* A slot without records, or whose last records are all rejecting: it is  *)
(* not scored, whichever of them its reader takes.                         *)
Unscored(d, s) ==
  RIndices(d, s) # {} => LastOf(d, s) # {} /\ \A a \in LastOf(d, s) : a.disp \in Rejecting

LEMMA LatestIs ==
  ASSUME NEW d, NEW s
  PROVE  Latest(d, s) = IF RIndices(d, s) = {} THEN "none" ELSE IF LastOf(d, s) = {} THEN "accepted"
                        ELSE (CHOOSE a \in LastOf(d, s) : TRUE).disp
BY DEF Latest, LastOf

LEMMA UnscoredIsNotScored ==
  ASSUME NEW d, NEW s, Unscored(d, s)
  PROVE  s \notin RowScored(d)
<1>1. CASE RIndices(d, s) = {}
  BY <1>1 DEF RowScored, Latest
<1>2. CASE RIndices(d, s) # {}
  <2>1. Latest(d, s) = (CHOOSE a \in LastOf(d, s) : TRUE).disp
    BY <1>2 DEF Latest, Unscored, LastOf
  <2>2. (CHOOSE a \in LastOf(d, s) : TRUE) \in LastOf(d, s)
    BY <1>2 DEF Unscored
  <2> QED
    BY <1>2, <2>1, <2>2 DEF Unscored, RowScored, Rejecting
<1> QED
  BY <1>1, <1>2

(* The slot is scored as before, from the same row.                        *)
SameScore(s) ==
  s \in Scored(doc) => s \in Scored(doc') /\ Source(doc', s) = Source(doc, s)

(* The row of a slot at its largest index depends on its records alone.    *)
LEMMA SourceSame ==
  ASSUME NEW d, NEW e, NEW s,
         Of(CountedRows(d), s) = Of(CountedRows(e), s), RIndices(d, s) = RIndices(e, s),
         s \in d.dnf <=> s \in e.dnf
  PROVE  Source(d, s) = Source(e, s)
<1> DEFINE r == Largest(RIndices(d, s))
           Row(x) == CHOOSE y \in CountedRows(x) : y.slot = s /\ y.rindex = r
<1>1. \A x : x \in CountedRows(d) /\ x.slot = s <=> x \in CountedRows(e) /\ x.slot = s
  BY DEF Of
<1>2. Source(d, s) = IF s \in d.dnf THEN [inv |-> 0, rindex |-> 0]
                     ELSE [inv |-> Row(d).inv, rindex |-> Row(d).rindex]
  BY DEF Source
<1>3. Source(e, s) = IF s \in e.dnf THEN [inv |-> 0, rindex |-> 0]
                     ELSE [inv |-> Row(e).inv, rindex |-> Row(e).rindex]
  BY DEF Source
<1>4. Row(d) = Row(e)
  <2> HIDE DEF r
  <2>1. (CHOOSE y : y \in CountedRows(d) /\ (y.slot = s /\ y.rindex = r))
          = (CHOOSE y : y \in CountedRows(e) /\ (y.slot = s /\ y.rindex = r))
    BY <1>1, Zenon
  <2> QED
    BY <2>1
<1> HIDE DEF Row
<1> QED
  BY <1>2, <1>3, <1>4

LEMMA IndicesSame ==
  ASSUME NEW d, NEW e, NEW s,
         Of(CountedRows(d), s) = Of(CountedRows(e), s), Of(Decided(d), s) = Of(Decided(e), s)
  PROVE  RIndices(d, s) = RIndices(e, s) /\ LastOf(d, s) = LastOf(e, s)
<1>1. \A x : x \in CountedRows(d) /\ x.slot = s <=> x \in CountedRows(e) /\ x.slot = s
  BY DEF Of
<1>2. \A x : x \in Decided(d) /\ x.slot = s <=> x \in Decided(e) /\ x.slot = s
  BY DEF Of
<1>3. {x \in CountedRows(d) \cup Decided(d) : x.slot = s} = {x \in CountedRows(e) \cup Decided(e) : x.slot = s}
  BY <1>1, <1>2
<1>4. RIndices(d, s) = RIndices(e, s)
  BY <1>3 DEF RIndices
<1> QED
  BY <1>2, <1>4 DEF LastOf

LEMMA ScoreSame ==
  ASSUME NEW s,
         Of(CountedRows(doc'), s) = Of(CountedRows(doc), s), Of(Decided(doc'), s) = Of(Decided(doc), s),
         s \in doc'.dnf <=> s \in doc.dnf
  PROVE  SameScore(s) /\ (Unscored(doc, s) => Unscored(doc', s))
<1>1. RIndices(doc', s) = RIndices(doc, s) /\ LastOf(doc', s) = LastOf(doc, s)
  BY IndicesSame
<1>2. Latest(doc', s) = Latest(doc, s)
  BY LatestSame
<1>3. Source(doc', s) = Source(doc, s)
  BY <1>1, SourceSame
<1> QED
  BY <1>1, <1>2, <1>3 DEF SameScore, Scored, RowScored, Unscored

LEMMA EquallyRecorded ==
  ASSUME CountedRows(doc') = CountedRows(doc), Decided(doc') = Decided(doc), NEW s,
         s \in doc'.dnf <=> s \in doc.dnf
  PROVE  SameScore(s) /\ (Unscored(doc, s) => Unscored(doc', s))
BY ScoreSame DEF Of

(* A new invocation changes no record.                                     *)
LEMMA AddedRecords ==
  ASSUME IInv, InvocationAdded
  PROVE  CountedRows(doc') = CountedRows(doc) /\ Decided(doc') = Decided(doc)
<1>1. /\ Len(doc'.invs) = Len(doc.invs) + 1 /\ Len(doc.invs) \in Nat
      /\ doc'.invs[Len(doc'.invs)].status = "running"
      /\ \A i \in 1..Len(doc.invs) : doc'.invs[i] = doc.invs[i]
  BY AddedInvocation
<1>2. {j \in 1..Len(doc'.invs) : doc'.invs[j].status \in Counted}
        = {j \in 1..Len(doc.invs) : doc.invs[j].status \in Counted}
  BY <1>1 DEF Counted
<1>3. CountedRows(doc') = CountedRows(doc)
  BY <1>1, <1>2 DEF CountedRows
<1>4. \A a \in doc.att : doc'.invs[a.inv] = doc.invs[a.inv]
  BY <1>1 DEF IInv, TypeOK, DocOK
<1>5. Decided(doc') = Decided(doc)
  BY <1>4 DEF InvocationAdded, Decided
<1> QED
  BY <1>3, <1>5

(* A slot that is to be launched has nothing but rejections behind it.     *)
LEMMA TodoUnscored ==
  ASSUME IInv, ~InventoryBroken(doc), NEW s \in Todo
  PROVE  Unscored(doc, s)
<1> SUFFICES ASSUME RIndices(doc, s) # {}
             PROVE  LastOf(doc, s) # {} /\ \A a \in LastOf(doc, s) : a.disp \in Rejecting
  BY DEF Unscored
<1>1. Latest(doc, s) \notin {"accepted", "exhausted"}
  BY DEF Todo, Scored, RowScored
<1>2. LastOf(doc, s) # {} /\ Latest(doc, s) = (CHOOSE a \in LastOf(doc, s) : TRUE).disp
  BY <1>1 DEF Latest, LastOf
<1>3. PICK c \in LastOf(doc, s) : Latest(doc, s) = c.disp
  BY <1>2
<1>4. c \in Decided(doc) /\ c.disp \in Verdict
  BY <1>3 DEF LastOf, Decided, IInv, TypeOK, DocOK, Attempts
<1>5. c.disp \in Rejecting
  BY <1>1, <1>3, <1>4 DEF Verdict, Rejecting
<1>6. \A a \in LastOf(doc, s) : a = c
  BY <1>3 DEF LastOf, InventoryBroken, DuplicateAttempt, SameKey
<1> QED
  BY <1>2, <1>5, <1>6

(* The verdict of an item is a decision only when it rejects.              *)
LEMMA VerdictDecided ==
  ASSUME IInv, Running(doc), doc'.invs = doc.invs, NEW a \in Attempts, a.inv = Cur,
         doc'.att = doc.att \cup {a}
  PROVE  /\ CountedRows(doc') = CountedRows(doc)
         /\ Decided(doc') = Decided(doc) \cup (IF a.disp \in Rejecting THEN {a} ELSE {})
<1>1. doc.invs[a.inv].status = "running"
  BY Current DEF Inv, IInv
<1>2. a.disp \in Rejecting <=> a.disp \notin {"accepted", "exhausted"}
  BY DEF Attempts, Verdict, Rejecting
<1> QED
  BY <1>1, <1>2 DEF CountedRows, Decided

LEMMA RejectionKeepsUnscored ==
  ASSUME IInv, NEW a \in Attempts, a.disp \in Rejecting, Unscored(doc, a.slot),
         CountedRows(doc') = CountedRows(doc), Decided(doc') = Decided(doc) \cup {a}
  PROVE  Unscored(doc', a.slot)
<1> DEFINE s == a.slot
           I == RIndices(doc, s)
           J == RIndices(doc', s)
<1>1. I \in SUBSET Nat /\ IsFiniteSet(I) /\ a.rindex \in Nat
  <2>1. I \subseteq 0..MaxReruns
    BY IndicesBounded DEF IInv, TypeOK
  <2>2. IsFiniteSet(0..MaxReruns)
    BY BoundsAssumption, FS_Interval
  <2> QED
    BY <2>1, <2>2, FS_Subset, BoundsAssumption DEF Attempts
<1>2. J = I \cup {a.rindex}
  <2>1. {x \in CountedRows(doc') \cup Decided(doc') : x.slot = s}
          = {x \in CountedRows(doc) \cup Decided(doc) : x.slot = s} \cup {a}
    OBVIOUS
  <2> QED
    BY <2>1 DEF RIndices
<1>3. \A b \in Decided(doc) : b.slot = s => b.rindex \in I
  BY DEF RIndices
<1>4. J \in SUBSET Nat /\ IsFiniteSet(J) /\ J # {}
  BY <1>1, <1>2, FS_AddElement
<1> DEFINE last == {b \in Decided(doc') : b.slot = s /\ b.rindex = Largest(J)}
<1>5. LastOf(doc', s) = last
  BY DEF LastOf
<1>6. \A b \in Decided(doc) : b.slot = s /\ b.rindex = Largest(I) => b.disp \in Rejecting
  <2>1. ASSUME NEW b \in Decided(doc), b.slot = s, b.rindex = Largest(I) PROVE b.disp \in Rejecting
    <3>1. I # {} /\ b \in LastOf(doc, s)
      BY <1>3, <2>1 DEF LastOf
    <3> QED
      BY <3>1 DEF Unscored
  <2> QED
    BY <2>1
<1>7. Largest(J) \in J /\ \A y \in J : y <= Largest(J)
  BY <1>4, LargestIsLargest
<1>8. I # {} => Largest(I) \in I /\ (\A y \in I : y <= Largest(I))
                /\ \E b \in Decided(doc) : b.slot = s /\ b.rindex = Largest(I)
  BY <1>1, LargestIsLargest DEF Unscored, LastOf
<1>9. s = a.slot
  OBVIOUS
<1> HIDE DEF I, J, s
<1>10. last # {} /\ \A b \in last : b.disp \in Rejecting
  <2> DEFINE K == Largest(I)
             L == Largest(J)
  <2>1. L \in J /\ L \in Nat /\ \A y \in J : y <= L
    BY <1>4, <1>7
  <2> HIDE DEF K, L
  <2>2. CASE L \in I
    <3>1. K = L
      <4>1. K \in I /\ \A y \in I : y <= K
        BY <1>8, <2>2 DEF K
      <4>2. K \in J /\ K \in Nat
        BY <1>1, <1>2, <4>1
      <4>3. L <= K /\ K <= L
        BY <2>1, <2>2, <4>1, <4>2
      <4> QED
        BY <2>1, <4>2, <4>3
    <3>2. \E b \in Decided(doc) : b.slot = s /\ b.rindex = L
      BY <1>8, <2>2, <3>1 DEF K
    <3> QED
      BY <1>6, <3>1, <3>2 DEF K, L
  <2>3. CASE L \notin I
    <3>1. L = a.rindex
      BY <1>2, <2>1, <2>3
    <3>2. \A b \in Decided(doc) : b.slot = s => b.rindex # L
      BY <1>3, <2>3
    <3> QED
      BY <1>9, <3>1, <3>2 DEF L
  <2> QED
    BY <2>2, <2>3
<1> QED
  BY <1>5, <1>10 DEF Unscored, s

LEMMA CountedInvocation ==
  ASSUME IInv, InvocationCounted
  PROVE  /\ Cur \in 1..Len(doc.invs) /\ doc.invs[Cur].status = "running"
         /\ Len(doc'.invs) = Len(doc.invs)
         /\ \A i \in 1..Len(doc.invs) : i # Cur => doc'.invs[i] = doc.invs[i]
         /\ doc'.invs[Cur].status \in Counted /\ doc'.invs[Cur].accepted = files.rows
         /\ doc'.invs[Cur].rindex = Inv.rindex /\ doc'.invs[Cur].expect = Inv.expect
<1>1. Cur \in 1..Len(doc.invs) /\ doc.invs \in Seq(Invocations) /\ doc.invs[Cur] \in Invocations
      /\ doc.invs[Cur].status = "running"
  BY Current DEF InvocationCounted, IInv, TypeOK, DocOK, Inv
<1>2. PICK s \in Counted : doc'.invs = CountRows(s)
  BY DEF InvocationCounted
<1> DEFINE r == [doc.invs[Cur] EXCEPT !.status = s, !.accepted = files.rows]
<1>3. r.status = s /\ r.accepted = files.rows /\ r.rindex = Inv.rindex /\ r.expect = Inv.expect
  BY <1>1 DEF Invocations, Inv
<1>4. doc'.invs = [doc.invs EXCEPT ![Cur] = r]
  BY <1>1, <1>2 DEF CountRows, Invocations
<1> HIDE DEF r
<1> QED
  BY <1>1, <1>3, <1>4

LEMMA RemovedInvocation ==
  ASSUME IInv, InvocationRemoved
  PROVE  /\ Cur \in 1..Len(doc.invs) /\ doc.invs[Cur].status = "running"
         /\ Len(doc'.invs) = Len(doc.invs)
         /\ \A i \in 1..Len(doc.invs) : i # Cur => doc'.invs[i] = doc.invs[i]
         /\ doc'.invs[Cur].status = "gone" /\ doc'.invs[Cur].accepted = {}
<1>1. Cur \in 1..Len(doc.invs) /\ doc.invs \in Seq(Invocations) /\ doc.invs[Cur].status = "running"
  BY Current DEF InvocationRemoved, IInv, TypeOK, DocOK, Inv
<1>2. doc'.invs = [doc.invs EXCEPT ![Cur] = Gone]
  BY DEF InvocationRemoved
<1>3. Gone.status = "gone" /\ Gone.accepted = {}
  BY DEF Gone
<1> QED
  BY <1>1, <1>2, <1>3

(* The end of an invocation concerns the slots of its list.                *)
LEMMA EndKeepsOthers ==
  ASSUME IInv, DnfInv, InvocationCounted \/ InvocationRemoved, NEW s, s \notin Inv.expect
  PROVE  SameScore(s) /\ Of(CountedRows(doc'), s) = Of(CountedRows(doc), s)
         /\ Of(Decided(doc'), s) = Of(Decided(doc), s)
<1>1. /\ Cur \in 1..Len(doc.invs) /\ doc.invs[Cur].status = "running"
      /\ Len(doc'.invs) = Len(doc.invs)
      /\ \A i \in 1..Len(doc.invs) : i # Cur => doc'.invs[i] = doc.invs[i]
      /\ doc'.invs[Cur].accepted \subseteq Inv.expect
  <2>1. files.rows \subseteq Inv.expect
    BY DEF IInv, BarrierInv
  <2> QED
    BY <2>1, CountedInvocation, RemovedInvocation
<1>2. /\ doc'.att \subseteq doc.att /\ \A a \in doc.att : a.inv # Cur => a \in doc'.att
      /\ doc'.dnf = doc.dnf
  BY DEF InvocationCounted, InvocationRemoved
<1>3. Of(CountedRows(doc'), s) = Of(CountedRows(doc), s)
  <2> SUFFICES ASSUME NEW r
               PROVE  r \in CountedRows(doc') /\ r.slot = s <=> r \in CountedRows(doc) /\ r.slot = s
    BY DEF Of
  <2>1. ASSUME r \in CountedRows(doc'), r.slot = s PROVE r \in CountedRows(doc)
    <3>1. PICK i \in 1..Len(doc'.invs) : /\ doc'.invs[i].status \in Counted
                                         /\ r \in {[inv |-> i, slot |-> t, rindex |-> doc'.invs[i].rindex] :
                                                     t \in doc'.invs[i].accepted}
      BY <2>1 DEF CountedRows
    <3>2. i # Cur
      BY <1>1, <2>1, <3>1
    <3>3. i \in 1..Len(doc.invs) /\ doc'.invs[i] = doc.invs[i]
      BY <1>1, <3>2
    <3> QED
      BY <3>1, <3>3 DEF CountedRows
  <2>2. ASSUME r \in CountedRows(doc), r.slot = s PROVE r \in CountedRows(doc')
    <3>1. PICK i \in 1..Len(doc.invs) : /\ doc.invs[i].status \in Counted
                                        /\ r \in {[inv |-> i, slot |-> t, rindex |-> doc.invs[i].rindex] :
                                                    t \in doc.invs[i].accepted}
      BY <2>2 DEF CountedRows
    <3>2. i # Cur
      BY <1>1, <3>1 DEF Counted
    <3>3. i \in 1..Len(doc'.invs) /\ doc'.invs[i] = doc.invs[i]
      BY <1>1, <3>2
    <3> QED
      BY <3>1, <3>3 DEF CountedRows
  <2> QED
    BY <2>1, <2>2
<1>4. Of(Decided(doc'), s) = Of(Decided(doc), s)
  <2> SUFFICES ASSUME NEW a \in doc.att, a.slot = s
               PROVE  a \in Decided(doc') <=> a \in Decided(doc)
    BY <1>2 DEF Of, Decided
  <2>1. a.inv # Cur
    BY DEF DnfInv, InvocationCounted, InvocationRemoved
  <2>2. a \in doc'.att /\ doc'.invs[a.inv] = doc.invs[a.inv]
    BY <1>1, <1>2, <2>1 DEF IInv, TypeOK, DocOK
  <2> QED
    BY <2>2 DEF Decided
<1> QED
  BY <1>2, <1>3, <1>4, ScoreSame

-----------------------------------------------------------------------------
(* A running invocation has no scored slot, not even one whose latest      *)
(* record is only a matter of choice; the rows of an invocation that has   *)
(* just ended are the ones that count.                                     *)
StableInv ==
  /\ Running(doc) => \A s \in Inv.expect : Unscored(doc, s)
  /\ chain.pc = "after" => Inv.accepted = files.rows

(* An attempt is filled in for a row that counts and has none.             *)
LEMMA FilledRows ==
  ASSUME IInv, StableInv, AttemptsFilled
  PROVE  /\ CountedRows(doc') = CountedRows(doc)
         /\ \E new \in SUBSET [inv : {Cur}, slot : files.rows, rindex : {Inv.rindex}, disp : {"accepted"}] :
              /\ doc'.att = doc.att \cup new /\ Decided(doc') = Decided(doc) \cup new
              /\ \A n \in new, a \in doc.att : ~SameKey(n, a)
              /\ \A n \in new : \E r \in CountedRows(doc) : SameKey(r, n)
<1>1. doc'.invs = doc.invs
  BY FilledAttempts
<1>2. PICK new \in SUBSET [inv : {Cur}, slot : files.rows, rindex : {Inv.rindex}, disp : {"accepted"}] :
         /\ doc'.att = doc.att \cup new
         /\ \A n \in new, a \in doc.att : ~SameKey(n, a)
  BY FilledAttempts
<1>3. chain.pc = "after" /\ Cur \in 1..Len(doc.invs) /\ Inv.status \in Counted /\ Inv.accepted = files.rows
  BY Current DEF AttemptsFilled, StableInv, IInv, ChainInv
<1>4. CountedRows(doc') = CountedRows(doc)
  BY <1>1 DEF CountedRows
<1>5. Decided(doc') = Decided(doc) \cup new
  <2>1. \A n \in new : doc.invs[n.inv].status # "running"
    BY <1>3 DEF Inv, Counted
  <2> QED
    BY <1>1, <1>2, <2>1 DEF Decided
<1>6. \A n \in new : \E r \in CountedRows(doc) : SameKey(r, n)
  <2> SUFFICES ASSUME NEW n \in new
               PROVE  [inv |-> Cur, slot |-> n.slot, rindex |-> n.rindex] \in CountedRows(doc)
    BY DEF SameKey
  <2>1. n.slot \in doc.invs[Cur].accepted /\ n.rindex = doc.invs[Cur].rindex
    BY <1>3 DEF Inv
  <2> QED
    BY <1>3, <2>1 DEF CountedRows, Inv
<1> QED
  BY <1>2, <1>4, <1>5, <1>6

(* It adds no re-run index and changes no disposition.                     *)
LEMMA FillKeepsScore ==
  ASSUME IInv, StableInv, AttemptsFilled, NEW s
  PROVE  SameScore(s) /\ Latest(doc', s) = Latest(doc, s)
<1>1. doc'.dnf = doc.dnf /\ CountedRows(doc') = CountedRows(doc)
  BY FilledAttempts, FilledRows
<1>2. PICK new \in SUBSET [inv : {Cur}, slot : files.rows, rindex : {Inv.rindex}, disp : {"accepted"}] :
         /\ Decided(doc') = Decided(doc) \cup new
         /\ \A n \in new, a \in doc.att : ~SameKey(n, a)
         /\ \A n \in new : \E r \in CountedRows(doc) : SameKey(r, n)
  BY FilledRows
<1>3. RIndices(doc', s) = RIndices(doc, s)
  BY <1>1, <1>2 DEF RIndices, SameKey
<1> DEFINE r == Largest(RIndices(doc, s))
<1>4. Source(doc', s) = Source(doc, s)
  BY <1>1, <1>3, SourceSame
<1>5. Latest(doc', s) = Latest(doc, s)
  <2>1. CASE LastOf(doc', s) = LastOf(doc, s)
    <3>1. Latest(doc', s) = IF RIndices(doc', s) = {} THEN "none" ELSE IF LastOf(doc', s) = {} THEN "accepted"
                            ELSE (CHOOSE a \in LastOf(doc', s) : TRUE).disp
      BY LatestIs
    <3>2. Latest(doc, s) = IF RIndices(doc, s) = {} THEN "none" ELSE IF LastOf(doc, s) = {} THEN "accepted"
                           ELSE (CHOOSE a \in LastOf(doc, s) : TRUE).disp
      BY LatestIs
    <3> QED
      BY <1>3, <2>1, <3>1, <3>2
  <2>2. CASE LastOf(doc', s) # LastOf(doc, s)
    <3>1. LastOf(doc', s) = LastOf(doc, s) \cup {n \in new : n.slot = s /\ n.rindex = r}
      BY <1>2, <1>3 DEF LastOf
    <3>2. PICK n \in new : n.slot = s /\ n.rindex = r
      BY <2>2, <3>1
    <3>3. LastOf(doc, s) = {}
      BY <1>2, <3>2 DEF LastOf, SameKey, Decided
    <3>4. LastOf(doc', s) # {} /\ \A a \in LastOf(doc', s) : a.disp = "accepted"
      BY <3>1, <3>2, <3>3
    <3>5. RIndices(doc, s) # {}
      BY <1>2, <3>2 DEF RIndices, SameKey
    <3>6. Latest(doc, s) = "accepted"
      BY <3>3, <3>5, LatestIs
    <3>7. Latest(doc', s) = (CHOOSE a \in LastOf(doc', s) : TRUE).disp
      BY <1>3, <3>4, <3>5, LatestIs
    <3> QED
      BY <3>4, <3>6, <3>7
  <2> QED
    BY <2>1, <2>2
<1> QED
  BY <1>1, <1>4, <1>5 DEF SameScore, Scored, RowScored

(* No step but a restart of the load changes what a slot is scored from.   *)
LEMMA ScoreKept ==
  ASSUME IInv, DnfInv, StableInv, RecordsStep, doc'.gen = doc.gen
  PROVE  \A s : SameScore(s)
<1> TAKE s
<1>1. CASE RecordsKept
  <2>1. doc'.invs = doc.invs /\ doc'.att = doc.att /\ doc'.dnf = doc.dnf
    BY <1>1 DEF RecordsKept
  <2> QED
    BY <2>1, SameRecords, EquallyRecorded
<1>2. CASE RowSettled
  <2>1. doc'.invs = doc.invs /\ doc'.att = doc.att
    BY <1>2 DEF RowSettled
  <2>2. PICK t \in Unsettled : doc'.dnf = doc.dnf \cup {t}
    BY <1>2 DEF RowSettled
  <2>3. s \in Scored(doc) => (s \in doc'.dnf <=> s \in doc.dnf)
    BY <2>2 DEF Unsettled
  <2> QED
    BY <2>1, <2>3, SameRecords, EquallyRecorded DEF SameScore
<1>3. CASE InvocationAdded
  BY <1>3, AddedRecords, EquallyRecorded DEF InvocationAdded
<1>4. CASE VerdictAdded
  <2>1. PICK a \in Attempts : a.inv = Cur /\ a.slot \in Inv.expect /\ doc'.att = doc.att \cup {a}
    BY <1>4 DEF VerdictAdded
  <2>2. Running(doc) /\ doc'.invs = doc.invs /\ doc'.dnf = doc.dnf
    BY <1>4 DEF VerdictAdded
  <2>3. /\ CountedRows(doc') = CountedRows(doc)
        /\ Decided(doc') = Decided(doc) \cup (IF a.disp \in Rejecting THEN {a} ELSE {})
    BY <2>1, <2>2, VerdictDecided
  <2>4. CASE s # a.slot
    BY <2>2, <2>3, <2>4, ScoreSame DEF Of
  <2>5. CASE s = a.slot
    <3>1. s \notin Scored(doc)
      BY <2>1, <2>2, <2>5, UnscoredIsNotScored DEF StableInv, Scored, DnfInv
    <3> QED
      BY <3>1 DEF SameScore
  <2> QED
    BY <2>4, <2>5
<1>5. CASE InvocationCounted \/ InvocationRemoved
  <2>1. CASE s \notin Inv.expect
    BY <1>5, <2>1, EndKeepsOthers
  <2>2. CASE s \in Inv.expect
    <3>1. Running(doc)
      BY <1>5 DEF InvocationCounted, InvocationRemoved
    <3>2. s \notin Scored(doc)
      BY <2>2, <3>1, UnscoredIsNotScored DEF StableInv, Scored, DnfInv
    <3> QED
      BY <3>2 DEF SameScore
  <2> QED
    BY <2>1, <2>2
<1>6. CASE AttemptsFilled
  BY <1>6, FillKeepsScore
<1>7. CASE LoadRestarted
  <2>1. doc.gen \in Nat /\ doc'.gen = doc.gen + 1
    BY <1>7 DEF LoadRestarted, IInv, TypeOK, DocOK
  <2> QED
    BY <2>1
<1> QED
  BY <1>1, <1>2, <1>3, <1>4, <1>5, <1>6, <1>7 DEF RecordsStep

LEMMA StableInit == Init => StableInv
BY DEF Init, StableInv, Running

LEMMA StableNext == IInv /\ DnfInv /\ StableInv /\ [Next]_vars => StableInv'
<1> SUFFICES ASSUME IInv, DnfInv, StableInv, RecordsStep PROVE StableInv'
  BY Records
<1>1. StableInv' <=> /\ Running(doc') => \A s \in Inv'.expect : Unscored(doc', s)
                     /\ chain'.pc = "after" => Inv'.accepted = files'.rows
  BY DEF StableInv, Running, Unscored, LastOf, RIndices, CountedRows, Decided, Counted, Largest
<1>2. CASE RecordsKept \/ RowSettled
  <2>1. doc'.invs = doc.invs /\ doc'.att = doc.att
    BY <1>2 DEF RecordsKept, RowSettled
  <2>2. CountedRows(doc') = CountedRows(doc) /\ Decided(doc') = Decided(doc)
    BY <2>1, SameRecords
  <2>3. \A s : Unscored(doc, s) => Unscored(doc', s)
    BY <2>2 DEF Unscored, LastOf, RIndices
  <2>4. chain'.pc = "after" => chain.pc = "after" /\ UNCHANGED files
    BY <1>2 DEF RecordsKept, RowSettled
  <2> QED
    BY <1>1, <2>1, <2>3, <2>4 DEF StableInv, Running, Inv, Cur
<1>3. CASE InvocationAdded
  <2>1. Inv' = NextInvocation /\ chain'.pc # "after"
    BY <1>3, AddedInvocation DEF Inv, Cur, InvocationAdded
  <2>2. NextInvocation.expect \subseteq Todo
    <3>1. Todo \in SUBSET Slots
      BY DEF Todo
    <3>2. Least(Todo) \in Todo
      BY <1>3, <3>1, SlotsFinite, LeastIsLeast DEF InvocationAdded
    <3> QED
      BY <3>2 DEF NextInvocation
  <2>3. \A s \in Todo : Unscored(doc, s)
    BY <1>3, TodoUnscored DEF InvocationAdded
  <2>4. \A s : Unscored(doc, s) => Unscored(doc', s)
    BY <1>3, AddedRecords DEF Unscored, LastOf, RIndices
  <2> QED
    BY <1>1, <2>1, <2>2, <2>3, <2>4
<1>4. CASE VerdictAdded
  <2>1. PICK a \in Attempts : a.inv = Cur /\ a.slot \in Inv.expect /\ doc'.att = doc.att \cup {a}
    BY <1>4 DEF VerdictAdded
  <2>2. Running(doc) /\ doc'.invs = doc.invs /\ Inv' = Inv /\ chain'.pc # "after"
    BY <1>4 DEF VerdictAdded, Inv, Cur
  <2>3. /\ CountedRows(doc') = CountedRows(doc)
        /\ Decided(doc') = Decided(doc) \cup (IF a.disp \in Rejecting THEN {a} ELSE {})
    BY <2>1, <2>2, VerdictDecided
  <2>4. ASSUME NEW s \in Inv.expect PROVE Unscored(doc', s)
    <3>1. Unscored(doc, s)
      BY <2>2 DEF StableInv
    <3>2. CASE a.disp \notin Rejecting
      BY <2>3, <3>1, <3>2 DEF Unscored, LastOf, RIndices
    <3>3. CASE s # a.slot
      <4>1. Of(CountedRows(doc'), s) = Of(CountedRows(doc), s) /\ Of(Decided(doc'), s) = Of(Decided(doc), s)
        BY <2>3, <3>3 DEF Of
      <4>2. RIndices(doc', s) = RIndices(doc, s) /\ LastOf(doc', s) = LastOf(doc, s)
        BY <4>1, IndicesSame
      <4> QED
        BY <3>1, <4>2 DEF Unscored
    <3>4. CASE s = a.slot /\ a.disp \in Rejecting
      BY <2>3, <3>1, <3>4, RejectionKeepsUnscored
    <3> QED
      BY <3>2, <3>3, <3>4
  <2> QED
    BY <1>1, <2>2, <2>4
<1>5. CASE InvocationCounted
  <2>1. ~Running(doc') /\ Inv'.accepted = files'.rows
    BY <1>5, Over, CountedInvocation DEF InvocationCounted, Inv, Cur
  <2> QED
    BY <1>1, <2>1
<1>6. CASE InvocationRemoved
  BY <1>1, <1>6, Over DEF InvocationRemoved
<1>7. CASE AttemptsFilled
  <2>1. ~Running(doc') /\ chain'.pc # "after"
    BY <1>7, FilledAttempts, Over DEF AttemptsFilled, Running
  <2> QED
    BY <1>1, <2>1
<1>8. CASE LoadRestarted
  BY <1>1, <1>8 DEF LoadRestarted, Running
<1> QED
  BY <1>2, <1>3, <1>4, <1>5, <1>6, <1>7, <1>8 DEF RecordsStep

(* What is scored stays scored, from the same row, through incidents,      *)
(* re-runs, STOPs, crashes and resumes: the rows of an invocation count    *)
(* only for slots that were not scored when it was launched, and only a    *)
(* restarted load starts over (P201, R17).                                 *)
THEOREM ScoresAreStable == Spec => ScoredIsStable
<1>1. IInv /\ DnfInv /\ StableInv /\ [Next]_vars =>
        (doc'.gen = doc.gen =>
           \A s \in Scored(doc) :
             ~InventoryBroken(doc) => s \in Scored(doc') /\ Source(doc', s) = Source(doc, s))
  BY Records, ScoreKept DEF SameScore
<1> QED
  BY <1>1, StableInit, StableNext, DnfInit, DnfNext, InductiveInvariant, PTL DEF Spec, ScoredIsStable

-----------------------------------------------------------------------------
(* Faults that the model leaves out do not happen.                         *)
FaultsInv ==
  /\ "stop" \notin FaultKinds => ~stopFile /\ cancel # "STOP" /\ chain.pc # "archive_stopped"
  /\ "drift" \notin FaultKinds => ~probe.man.drift
  /\ "sidecar_crash" \notin FaultKinds => (chain.pc # "sidecar" => sidecar = doc.dnf)

LEMMA FaultsInit == Init => FaultsInv
BY DEF Init, FaultsInv, NewManifest

LEMMA DriftKept ==
  ASSUME ProbeOK, NEW s, NEW x
  PROVE  /\ probe' = [probe EXCEPT !.state = s, !.man.abort = x] => probe'.man.drift = probe.man.drift
         /\ probe' = [probe EXCEPT !.state = s, !.man.hook = x] => probe'.man.drift = probe.man.drift
         /\ probe' = [probe EXCEPT !.state = s, !.man.abort = x, !.man.clean = FALSE] =>
              probe'.man.drift = probe.man.drift
<1>1. ASSUME probe' = [probe EXCEPT !.state = s, !.man.abort = x]
      PROVE  probe'.man.drift = probe.man.drift
  BY <1>1 DEF ProbeOK, Manifests
<1>2. ASSUME probe' = [probe EXCEPT !.state = s, !.man.hook = x]
      PROVE  probe'.man.drift = probe.man.drift
  BY <1>2 DEF ProbeOK, Manifests
<1>3. ASSUME probe' = [probe EXCEPT !.state = s, !.man.abort = x, !.man.clean = FALSE]
      PROVE  probe'.man.drift = probe.man.drift
  BY <1>3 DEF ProbeOK, Manifests
<1> QED
  BY <1>1, <1>2, <1>3

LEMMA ProbeKeepsFaults == IInv /\ FaultsInv /\ (ProbeStep \/ ProbeFault) => FaultsInv'
<1> SUFFICES ASSUME IInv, FaultsInv, ProbeStep \/ ProbeFault PROVE FaultsInv'
  OBVIOUS
<1>1. ProbeOK
  BY DEF IInv, TypeOK
<1>2. UNCHANGED <<doc, sidecar, cancel, chain, stopFile>>
  <2>1. CASE ProbeReady \/ ProbeGo \/ ProbeStop \/ ProbeRow \/ ProbeDone
    BY <2>1 DEF ProbeReady, ProbeGo, ProbeStop, ProbeRow, ProbeDone
  <2>2. CASE ProbeContinue \/ ProbeCancelled \/ OrphanTimeout \/ ProbeExit
    BY <2>2 DEF ProbeContinue, ProbeCancelled, OrphanTimeout, ProbeExit
  <2>3. CASE ProbeFault
    BY <2>3 DEF ProbeFault, ProbeTransport, ProbeHarness, ProbeKilled
  <2> QED
    BY <2>1, <2>2, <2>3 DEF ProbeStep
<1>3. "drift" \notin FaultKinds => probe'.man.drift = probe.man.drift \/ ~probe'.man.drift
  <2>1. CASE ProbeReady \/ ProbeGo \/ ProbeRow \/ ProbeDone \/ ProbeContinue
    BY <1>1, <2>1 DEF ProbeReady, ProbeGo, ProbeRow, ProbeDone, ProbeContinue, Become, ProbeOK
  <2>2. CASE ProbeCancelled \/ OrphanTimeout \/ ProbeTransport \/ ProbeHarness
    BY <1>1, <2>2, DriftKept DEF ProbeCancelled, OrphanTimeout, ProbeTransport, ProbeHarness, StampAbort
  <2>3. CASE ProbeStop \/ ProbeKilled
    BY <1>1, <2>3, DriftKept DEF ProbeStop, ProbeKilled
  <2>4. CASE ProbeExit
    <3>1. PICK drift \in BOOLEAN, unclean \in BOOLEAN :
            /\ drift => May("drift")
            /\ probe' = [probe EXCEPT !.state = "exited", !.man.drift = drift, !.man.clean = ~unclean]
      BY <2>4 DEF ProbeExit
    <3>2. probe'.man.drift = drift
      BY <1>1, <3>1 DEF ProbeOK, Manifests
    <3> QED
      BY <3>1, <3>2 DEF May
  <2> QED
    BY <2>1, <2>2, <2>3, <2>4 DEF ProbeStep, ProbeFault
<1> QED
  BY <1>2, <1>3 DEF FaultsInv

(* A step that leaves the probe's manifest, the CANCEL and the STOP file   *)
(* and the dnf rows alone.                                                 *)
LEMMA FaultsSame ==
  ASSUME FaultsInv, probe'.man.drift => probe.man.drift, UNCHANGED <<stopFile, sidecar>>,
         cancel' = cancel \/ cancel' \in {"none", "idle"}, doc'.dnf = doc.dnf,
         chain'.pc = "archive_stopped" => chain.pc = "archive_stopped" \/ cancel = "STOP",
         chain.pc = "sidecar" => chain'.pc = "sidecar"
  PROVE  FaultsInv'
<1>1. "stop" \notin FaultKinds => ~stopFile' /\ cancel' # "STOP" /\ chain'.pc # "archive_stopped"
  BY DEF FaultsInv
<1>2. "drift" \notin FaultKinds => ~probe'.man.drift
  BY DEF FaultsInv
<1>3. "sidecar_crash" \notin FaultKinds => (chain'.pc # "sidecar" => sidecar' = doc'.dnf)
  BY DEF FaultsInv
<1> QED
  BY <1>1, <1>2, <1>3 DEF FaultsInv

LEMMA FaultsNext == IInv /\ FaultsInv /\ [Next]_vars => FaultsInv'
<1> SUFFICES ASSUME IInv, FaultsInv, [Next]_vars PROVE FaultsInv'
  OBVIOUS
<1>1. ChainOK /\ DocOK /\ ProbeOK
  BY DEF IInv, TypeOK
<1>2. CASE ProbeStep \/ ProbeFault
  BY <1>2, ProbeKeepsFaults
<1>3. CASE LegTop \/ NothingDue \/ Validate \/ Recover \/ ReadDone
  BY <1>1, <1>3, FaultsSame DEF LegTop, NothingDue, Validate, Recover, ReadDone, Pumping, ChainOK
<1>4. CASE AnswerGo \/ CancelIdle \/ UNCHANGED vars
  BY <1>4, FaultsSame DEF AnswerGo, CancelIdle, vars
<1>5. CASE Signal \/ EscalationRefused
  BY <1>1, <1>5, FaultsSame DEF Signal, EscalationRefused, ChainOK
<1>6. CASE Spawn
  <2>1. probe'.man = probe.man /\ chain'.pc = "watch"
    BY <1>1, <1>6 DEF Spawn, ProbeOK, ChainOK
  <2> QED
    BY <1>6, <2>1, FaultsSame DEF Spawn
<1>7. CASE Launch
  <2>1. chain'.pc \in {"aborted", "done", "spawn"} /\ UNCHANGED <<stopFile, sidecar>> /\ chain.pc = "launch"
    BY <1>1, <1>7 DEF Launch, ChainOK
  <2>2. doc'.dnf = doc.dnf
    BY <1>1, <1>7 DEF Launch, DocOK
  <2>3. (probe'.man.drift => probe.man.drift) /\ (cancel' = cancel \/ cancel' = "none")
    BY <1>7 DEF Launch, NewManifest
  <2> QED
    BY <2>1, <2>2, <2>3, FaultsSame
<1>8. CASE PersistPreSpawn \/ PersistVerdict
  <2>1. chain.pc \in {"watch", "judge"} /\ UNCHANGED <<stopFile, sidecar, probe, cancel>>
    BY <1>8 DEF PersistPreSpawn, PersistVerdict, Pumping
  <2>2. chain'.pc = "signal"
    BY <1>1, <1>8 DEF PersistPreSpawn, PersistVerdict, ChainOK
  <2>3. doc'.dnf = doc.dnf
    BY <1>1, <1>8 DEF PersistPreSpawn, PersistVerdict, DocOK
  <2> QED
    BY <2>1, <2>2, <2>3, FaultsSame
<1>9. CASE Accept \/ HandleIncomplete \/ AfterAccept \/ AfterIncident \/ ArchiveStopped \/ Resume
  <2>1. UNCHANGED <<stopFile, sidecar, probe, cancel>> /\ chain.pc # "sidecar"
    BY <1>9 DEF Accept, HandleIncomplete, AfterAccept, AfterIncident, ArchiveStopped, Resume
  <2>2. chain'.pc \in {"after", "aborted", "archive", "leg", "recover", "stopped", "sync"}
    <3>1. CASE Accept \/ HandleIncomplete
      BY <1>1, <3>1 DEF Accept, HandleIncomplete, RecordIncident, RestartLoad, ChainOK
    <3>2. CASE AfterAccept \/ AfterIncident \/ ArchiveStopped \/ Resume
      BY <1>1, <3>2 DEF AfterAccept, AfterIncident, ArchiveStopped, Resume, ChainOK
    <3> QED
      BY <1>9, <3>1, <3>2
  <2>3. doc'.dnf = doc.dnf
    <3>1. CASE Accept \/ HandleIncomplete
      BY <1>1, <3>1 DEF Accept, HandleIncomplete, RecordIncident, RestartLoad, DocOK
    <3>2. CASE AfterAccept \/ AfterIncident
      BY <1>1, <3>2 DEF AfterAccept, AfterIncident, WithAttempts, DocOK
    <3>3. CASE ArchiveStopped \/ Resume
      BY <1>1, <3>3 DEF ArchiveStopped, Resume, WithoutCurrent, Salvaged, DocOK
    <3> QED
      BY <1>9, <3>1, <3>2, <3>3
  <2> QED
    BY <2>1, <2>2, <2>3, FaultsSame
<1>10. CASE WriteDnf
  <2>1. UNCHANGED <<stopFile, sidecar, probe, cancel>> /\ chain.pc = "settle"
    BY <1>10 DEF WriteDnf
  <2>2. chain'.pc \in {"aborted", "launch", "sidecar"} /\ (chain'.pc = "sidecar" \/ UNCHANGED doc)
    BY <1>1, <1>10 DEF WriteDnf, ChainOK
  <2> QED
    BY <2>1, <2>2 DEF FaultsInv
<1>11. CASE WriteSidecar \/ SyncSidecars
  <2>1. UNCHANGED <<doc, stopFile, probe, cancel>> /\ chain'.pc \in {"settle", "leg"}
    BY <1>1, <1>11 DEF WriteSidecar, SyncSidecars, ChainOK
  <2>2. sidecar' = doc.dnf \/ (sidecar' = sidecar /\ chain.pc = "sync")
    BY <1>11 DEF WriteSidecar, SyncSidecars
  <2> QED
    BY <2>1, <2>2 DEF FaultsInv
<1>12. CASE ArchiveLoad
  <2>1. doc'.dnf = {} /\ sidecar' = {} /\ chain'.pc = "leg" /\ UNCHANGED <<stopFile, probe, cancel>>
    BY <1>1, <1>12 DEF ArchiveLoad, ChainOK
  <2> QED
    BY <2>1 DEF FaultsInv
<1>13. CASE Crash
  <2>1. chain'.pc = "down" /\ UNCHANGED <<doc, sidecar, stopFile, probe, cancel>>
    BY <1>13 DEF Crash
  <2>2. chain.pc = "sidecar" => "sidecar_crash" \in FaultKinds
    BY <1>13 DEF Crash, May
  <2> QED
    BY <2>1, <2>2 DEF FaultsInv
<1>14. CASE Restart
  <2>1. /\ chain'.pc = "resume" /\ UNCHANGED <<doc, sidecar, probe, cancel>> /\ stopFile' = FALSE
        /\ chain.pc # "sidecar"
    BY <1>14 DEF Restart
  <2> QED
    BY <2>1 DEF FaultsInv
<1>15. CASE OperatorStop \/ CancelOnStop
  <2>1. UNCHANGED <<doc, sidecar, probe, chain>>
    BY <1>15 DEF OperatorStop, CancelOnStop
  <2>2. "stop" \in FaultKinds
    BY <1>15 DEF OperatorStop, CancelOnStop, May, FaultsInv
  <2> QED
    BY <2>1, <2>2 DEF FaultsInv
<1> QED
  BY <1>2, <1>3, <1>4, <1>5, <1>6, <1>7, <1>8, <1>9, <1>10, <1>11, <1>12, <1>13, <1>14, <1>15
     DEF Next, ChainStep, ChainFault

-----------------------------------------------------------------------------
(* The verdicts of the running invocation: each is of an item that is done *)
(* and, but for the one that is being acted on, each item judged was let   *)
(* pass; so no item is judged twice, and a rejected one is the last.       *)
Own == {a \in doc.att : a.inv = Cur}

OwnInv ==
  Running(doc) =>
    /\ \A a \in Own : a.rindex = Inv.rindex /\ a.slot \in files.done
    /\ \A a \in Own : a.disp \in Rejecting => a.slot \notin files.cont
    /\ chain.pc \in Barrier /\ files.stop = NoHook => \A a \in Own : a.slot \in files.cont
    /\ chain.pc = "signal" => \A a \in Own : a.slot \in files.cont \/ chain.hook = After(a.slot, a.disp)

LEMMA OwnInit == Init => OwnInv
BY DEF Init, OwnInv, Running

LEMMA SignalKeepsOwn == IInv /\ OwnInv /\ Signal /\ Running(doc) => OwnInv'
<1> SUFFICES ASSUME IInv, OwnInv, Signal, Running(doc) PROVE OwnInv'
  OBVIOUS
<1>1. ChainOK /\ FilesOK /\ chain.pc = "signal" /\ chain'.pc = "watch" /\ chain.hook # NoHook
  BY DEF Signal, IInv, TypeOK, ChainOK, StopInv, StopFact
<1>2. Inv' = Inv /\ Own' = Own /\ files'.done = files.done
  BY <1>1 DEF Signal, Inv, Cur, Own, FilesOK
<1> HIDE DEF At, GoTo
<1>5. ASSUME NEW a \in Own
      PROVE  a.slot \in files.cont \/ (chain.hook.slot = a.slot /\ chain.hook.disp = a.disp)
  <2>1. a.slot \in files.cont \/ chain.hook = After(a.slot, a.disp)
    BY <1>1 DEF OwnInv
  <2>2. After(a.slot, a.disp).slot = a.slot /\ After(a.slot, a.disp).disp = a.disp
    BY DEF After
  <2> QED
    BY <2>1, <2>2
<1> USE DEF At, GoTo
<1>3. CASE chain.hook.disp \in {"accepted", "exhausted"}
  <2>1. files'.cont = files.cont \cup {chain.hook.slot}
    BY <1>1, <1>3 DEF Signal, FilesOK
  <2>2. \A a \in Own : a.slot \in files'.cont
    BY <1>5, <2>1
  <2>3. \A a \in Own : a.disp \in Rejecting => a.slot \notin files'.cont
    <3> SUFFICES ASSUME NEW a \in Own, a.disp \in Rejecting PROVE a.slot \notin files'.cont
      OBVIOUS
    <3>1. a.slot \notin files.cont
      BY DEF OwnInv
    <3>2. chain.hook.disp = a.disp
      BY <1>5, <3>1
    <3> QED
      BY <1>3, <3>2 DEF Rejecting
  <2> QED
    BY <1>1, <1>2, <2>2, <2>3 DEF OwnInv
<1>4. CASE chain.hook.disp \notin {"accepted", "exhausted"}
  <2>1. files'.cont = files.cont /\ files'.stop # NoHook
    BY <1>1, <1>4 DEF Signal, FilesOK
  <2> QED
    BY <1>1, <1>2, <2>1 DEF OwnInv
<1> QED
  BY <1>3, <1>4

LEMMA OwnNext == IInv /\ OwnInv /\ [Next]_vars => OwnInv'
<1> SUFFICES ASSUME IInv, OwnInv, RecordsStep, Running(doc') PROVE OwnInv'
  BY Records DEF OwnInv, Running
<1>1. CASE RecordsKept
  <2>1. Running(doc) /\ Inv' = Inv /\ Own' = Own
    BY <1>1 DEF RecordsKept, Running, Inv, Cur, Own
  <2>2. CASE Signal
    BY <2>1, <2>2, SignalKeepsOwn
  <2>3. CASE PersistPreSpawn
    <3>1. chain'.pc = "signal" /\ chain.pc = "watch" /\ files.stop = NoHook /\ UNCHANGED files
      BY <2>3 DEF PersistPreSpawn, Pumping, IInv, TypeOK, ChainOK
    <3> QED
      BY <2>1, <3>1 DEF OwnInv, Barrier
  <2>4. CASE BarrierKept
    BY <2>1, <2>4 DEF BarrierKept, OwnInv
  <2> QED
    BY <1>1, <2>2, <2>3, <2>4 DEF RecordsKept
<1>2. CASE RowSettled
  BY <1>2 DEF RowSettled, Running
<1>3. CASE InvocationAdded
  <2>1. Cur' = Len(doc.invs) + 1 /\ Len(doc.invs) \in Nat
    BY <1>3, AddedInvocation DEF Cur
  <2>2. \A a \in doc.att : a.inv \in 1..Len(doc.invs)
    BY DEF IInv, TypeOK, DocOK
  <2>3. Own' = {}
    BY <1>3, <2>1, <2>2 DEF InvocationAdded, Own
  <2> QED
    BY <2>3 DEF OwnInv
<1>4. CASE VerdictAdded
  <2>1. PICK a \in Attempts :
          /\ a.inv = Cur /\ a.rindex = Inv.rindex /\ a.slot \in files.done \ files.cont
          /\ doc'.att = doc.att \cup {a} /\ chain'.hook = After(a.slot, a.disp)
    BY <1>4 DEF VerdictAdded
  <2>2. Running(doc) /\ Inv' = Inv /\ Cur' = Cur /\ UNCHANGED files /\ chain'.pc = "signal"
    BY <1>4 DEF VerdictAdded, Inv, Cur
  <2>3. Own' = Own \cup {a}
    BY <2>1, <2>2 DEF Own
  <2>4. \A b \in Own : b.slot \in files.cont
    BY <1>4 DEF VerdictAdded, OwnInv, Barrier
  <2> QED
    BY <2>1, <2>2, <2>3, <2>4 DEF OwnInv, Barrier
<1>5. CASE InvocationCounted \/ InvocationRemoved
  BY <1>5, Over
<1>6. CASE AttemptsFilled
  BY <1>6, FilledAttempts, Over DEF AttemptsFilled, Running
<1>7. CASE LoadRestarted
  BY <1>7 DEF LoadRestarted, Running
<1> QED
  BY <1>1, <1>2, <1>3, <1>4, <1>5, <1>6, <1>7 DEF RecordsStep

(* The rows of an invocation that rejected an item end with that item.     *)
LEMMA RejectedLast ==
  ASSUME IInv, OwnInv, Running(doc), NEW a \in Own, a.disp \in Rejecting
  PROVE  files.rows = {s \in Inv.expect : s <= a.slot} /\ a.slot \in files.done
<1>1. a.slot \in files.done /\ a.slot \notin files.cont
  BY DEF OwnInv
<1>2. /\ files.cont \subseteq files.rows /\ files.rows \subseteq files.ready /\ files.ready \subseteq Inv.expect
      /\ a.slot \in files.rows /\ a.slot \in files.ready
      /\ \A s \in files.ready : Below(s) \subseteq files.cont
  BY <1>1 DEF IInv, BarrierInv
<1>3. Inv.expect \subseteq Nat
  <2>1. Inv.expect \subseteq Slots
    BY Current DEF IInv, Invocations
  <2> QED
    BY <2>1, SlotsFinite
<1>4. ASSUME NEW s \in files.rows PROVE s <= a.slot
  <2>1. CASE a.slot < s
    <3>1. a.slot \in Below(s)
      BY <1>2, <2>1 DEF Below
    <3> QED
      BY <1>1, <1>2, <3>1
  <2>2. s \in Nat /\ a.slot \in Nat
    BY <1>2, <1>3
  <2> QED
    BY <2>1, <2>2
<1>5. ASSUME NEW s \in Inv.expect, s <= a.slot PROVE s \in files.rows
  <2>1. s \in Nat /\ a.slot \in Nat
    BY <1>2, <1>3
  <2>2. s = a.slot \/ s < a.slot
    BY <1>5, <2>1
  <2>3. s < a.slot => s \in files.rows
    BY <1>2 DEF Below
  <2> QED
    BY <1>2, <2>2, <2>3
<1> QED
  BY <1>1, <1>2, <1>4, <1>5

-----------------------------------------------------------------------------
(* A slot's records have different re-run indices, the index of the running*)
(* invocation is above all of them, and what is decided as scored has a    *)
(* row that counts.                                                        *)
UniqueInv ==
  /\ \A a, b \in doc.att : SameKey(a, b) => a = b
  /\ ~DuplicateRow(doc)
  /\ \A a \in doc.att : a.disp = "cheat" => a.rindex < MaxReruns
  /\ \A a \in doc.att : a.disp \in {"cheat", "exhausted"} => "cheat" \in FaultKinds
  /\ \A a \in Decided(doc) : a.disp \notin Rejecting => \E r \in CountedRows(doc) : SameKey(r, a)
  /\ Running(doc) => \A x \in CountedRows(doc) \cup (doc.att \ Own) :
                       x.slot \in Inv.expect => x.rindex < Inv.rindex

(* A slot that is to be re-run comes first, except while it is run.        *)
FrontierInv ==
  /\ ~Running(doc) => \A p \in Pending(doc) \ doc.dnf, s \in Slots : s < p => s \in Scored(doc)
  /\ Running(doc) => \A p \in Pending(doc) \ doc.dnf :
                       Inv.expect = {p} \/ \E a \in Own : a.slot = p /\ a.disp \in Rejecting
  /\ Running(doc) => \A e \in Inv.expect, s \in Slots \ Inv.expect : s < e => s \in Scored(doc)

(* What a slot is scored from is a row that counts.                        *)
LEMMA RowOfScored ==
  ASSUME IInv, NEW s \in RowScored(doc),
         \A a \in Decided(doc) : a.disp \notin Rejecting => \E r \in CountedRows(doc) : SameKey(r, a)
  PROVE  \E r \in CountedRows(doc) : r.slot = s /\ r.rindex = Largest(RIndices(doc, s))
<1>1. ASSUME RIndices(doc, s) # {}
      PROVE  Largest(RIndices(doc, s)) \in RIndices(doc, s)
  <2>1. RIndices(doc, s) \subseteq 0..MaxReruns
    BY IndicesBounded DEF IInv, TypeOK
  <2>2. IsFiniteSet(RIndices(doc, s))
    <3>1. IsFiniteSet(0..MaxReruns)
      BY BoundsAssumption, FS_Interval
    <3> QED
      BY <2>1, <3>1, FS_Subset
  <2>3. RIndices(doc, s) \in SUBSET Nat
    BY <2>1, BoundsAssumption
  <2> QED
    BY <1>1, <2>2, <2>3, LargestIsLargest
<1>2. Latest(doc, s) \in {"accepted", "exhausted"}
  BY DEF RowScored
<1>3. RIndices(doc, s) # {}
  BY <1>2, LatestIs
<1>4. CASE LastOf(doc, s) = {}
  <2>1. PICK x \in CountedRows(doc) \cup Decided(doc) : x.slot = s /\ x.rindex = Largest(RIndices(doc, s))
    BY <1>1, <1>3 DEF RIndices
  <2> QED
    BY <1>4, <2>1 DEF LastOf
<1>5. CASE LastOf(doc, s) # {}
  <2>1. PICK a \in LastOf(doc, s) : a.disp \in {"accepted", "exhausted"}
    BY <1>2, <1>3, <1>5, LatestIs
  <2>2. a \in Decided(doc) /\ a.disp \notin Rejecting /\ a.slot = s /\ a.rindex = Largest(RIndices(doc, s))
    BY <2>1 DEF LastOf, Rejecting
  <2> QED
    BY <2>2 DEF SameKey
<1> QED
  BY <1>4, <1>5

(* The inventory the reader sees loads, but for a sidecar that lags.       *)
LEMMA Loads ==
  ASSUME IInv, DnfInv, UniqueInv, sidecar = doc.dnf
  PROVE  ~InventoryBroken(doc)
<1>1. ~DuplicateRow(doc)
  BY DEF UniqueInv
<1>2. ~DuplicateAttempt(doc)
  BY DEF UniqueInv, DuplicateAttempt, Decided
<1>3. ~RowAndDnf(doc)
  BY DEF DnfInv, RowAndDnf
<1>4. ~SidecarDiffers(doc)
  BY DEF SidecarDiffers
<1>5. ~MissingRow(doc)
  BY RowOfScored DEF MissingRow, UniqueInv
<1>6. ~CheatAtBound(doc)
  <2> SUFFICES ASSUME NEW s \in Pending(doc) PROVE ~(Largest(RIndices(doc, s)) >= MaxReruns)
    BY DEF CheatAtBound
  <2>1. Latest(doc, s) = "cheat"
    BY DEF Pending
  <2>2. PICK a \in LastOf(doc, s) : a.disp = "cheat"
    BY <2>1, LatestIs
  <2>3. a \in doc.att /\ a.rindex = Largest(RIndices(doc, s))
    BY <2>2 DEF LastOf, Decided
  <2>4. a.rindex < MaxReruns
    <3>1. \A x \in doc.att : x.disp = "cheat" => x.rindex < MaxReruns
      BY DEF UniqueInv
    <3> QED
      BY <2>2, <2>3, <3>1
  <2>5. a.rindex \in Nat /\ MaxReruns \in Nat
    <3>1. a.rindex \in 0..MaxReruns
      BY <2>3 DEF IInv, TypeOK, DocOK, Attempts
    <3> QED
      BY <3>1, BoundsAssumption
  <2> QED
    BY <2>3, <2>4, <2>5
<1> QED
  BY <1>1, <1>2, <1>3, <1>4, <1>5, <1>6 DEF InventoryBroken

LEMMA UniqueInit == Init => UniqueInv /\ FrontierInv
<1> SUFFICES ASSUME Init PROVE UniqueInv /\ FrontierInv
  OBVIOUS
<1>1. doc.att = {} /\ doc.invs = <<>> /\ ~Running(doc)
  BY DEF Init, Running
<1>2. CountedRows(doc) = {} /\ Decided(doc) = {}
  BY <1>1 DEF CountedRows, Decided
<1>3. \A s : Latest(doc, s) = "none"
  BY <1>2 DEF Latest, RIndices
<1>4. UniqueInv
  BY <1>1, <1>2 DEF UniqueInv, DuplicateRow
<1>5. FrontierInv
  BY <1>1, <1>3 DEF FrontierInv, Pending
<1> QED
  BY <1>4, <1>5

(* A slot that is launched again comes after all its attempts.             *)
LEMMA NextIndex ==
  ASSUME IInv, NEW s, NEW q \in RIndices(doc, s)
  PROVE  q < Largest(RIndices(doc, s)) + 1
<1> DEFINE I == RIndices(doc, s)
           L == Largest(I)
<1>1. I \subseteq 0..MaxReruns /\ IsFiniteSet(0..MaxReruns)
  BY IndicesBounded, BoundsAssumption, FS_Interval DEF IInv, TypeOK
<1>2. I \in SUBSET Nat /\ IsFiniteSet(I)
  BY <1>1, FS_Subset, BoundsAssumption
<1>3. q \in I
  OBVIOUS
<1> HIDE DEF I
<1>4. L \in I /\ q <= L
  BY <1>2, <1>3, LargestIsLargest
<1>5. q \in Nat /\ L \in Nat /\ q <= L
  BY <1>2, <1>3, <1>4
<1> HIDE DEF L
<1>6. q < L + 1
  BY <1>5
<1> QED
  BY <1>6 DEF I, L

LEMMA AllDecided ==
  ASSUME IInv, ~Running(doc)
  PROVE  doc.att = Decided(doc) /\ \A x \in CountedRows(doc) \cup doc.att : x.rindex \in RIndices(doc, x.slot)
<1>1. \A a \in doc.att : doc.invs[a.inv].status # "running"
  BY Current DEF IInv, TypeOK, DocOK, Inv, Cur
<1>2. doc.att = Decided(doc)
  BY <1>1 DEF Decided
<1> QED
  BY <1>2 DEF RIndices

LEMMA RecordedIsPending ==
  ASSUME IInv, InvocationAdded, NEW s \in Todo, RIndices(doc, s) # {}
  PROVE  s \in Pending(doc)
<1>1. LastOf(doc, s) # {} /\ \A a \in LastOf(doc, s) : a.disp \in Rejecting
  BY TodoUnscored DEF InvocationAdded, Unscored
<1>2. PICK a \in LastOf(doc, s) : Latest(doc, s) = a.disp
  BY <1>1, LatestIs
<1>3. Latest(doc, s) \in Rejecting
  BY <1>1, <1>2
<1>4. s \in Slots /\ s \notin Blocked(doc)
  BY DEF Todo, InvocationAdded
<1> QED
  BY <1>3, <1>4 DEF Pending, Blocked, Rejecting

LEMMA FirstTodo ==
  ASSUME IInv, InvocationAdded
  PROVE  /\ Todo \in SUBSET Slots /\ Todo \in SUBSET Nat /\ ~Running(doc)
         /\ Least(Todo) \in Todo /\ \A y \in Todo : Least(Todo) <= y
         /\ \A s \in Slots : s < Least(Todo) => s \in Scored(doc)
<1>1. Todo \in SUBSET Slots /\ Todo # {} /\ Todo \in SUBSET Nat /\ IsFiniteSet(Todo) /\ ~Running(doc)
  BY SlotsFinite DEF Todo, InvocationAdded
<1> DEFINE first == Least(Todo)
<1>2. first \in Todo /\ \A y \in Todo : first <= y
  BY <1>1, LeastIsLeast
<1> HIDE DEF first
<1>3. \A s \in Todo : ~(s < first)
  BY <1>1, <1>2
<1>4. \A s \in Slots : s < first => s \in Scored(doc)
  BY <1>3 DEF Todo
<1> QED
  BY <1>1, <1>2, <1>4 DEF first

(* The slots that are launched and their re-run index.                     *)
LEMMA LaunchesFresh ==
  ASSUME IInv, UniqueInv, FrontierInv, InvocationAdded
  PROVE  /\ NextInvocation.expect \subseteq Todo
         /\ \A p \in Pending(doc) \ doc.dnf : NextInvocation.expect = {p}
         /\ \A e \in NextInvocation.expect, s \in Slots \ NextInvocation.expect :
              s < e => s \in Scored(doc)
         /\ \A x \in CountedRows(doc) \cup doc.att :
              x.slot \in NextInvocation.expect => x.rindex < NextInvocation.rindex
<1> DEFINE first == Least(Todo)
<1>1. Todo \in SUBSET Nat /\ ~Running(doc)
  BY FirstTodo
<1>2. first \in Todo /\ (\A y \in Todo : first <= y) /\ \A s \in Slots : s < first => s \in Scored(doc)
  BY FirstTodo
<1>3. \A p \in Pending(doc) \ doc.dnf : p = first
  <2> SUFFICES ASSUME NEW p \in Pending(doc) \ doc.dnf PROVE p = first
    OBVIOUS
  <2>1. p \in Todo
    BY DEF Pending, Todo, Scored, RowScored
  <2>2. ~(first < p)
    BY <1>1, <1>2 DEF FrontierInv, Todo
  <2>3. first \in Nat /\ p \in Nat /\ first <= p
    BY <1>1, <1>2, <2>1
  <2> QED
    BY <2>2, <2>3
<1>4. \A x \in CountedRows(doc) \cup doc.att : x.rindex \in RIndices(doc, x.slot)
  BY <1>1, AllDecided
<1>5. CASE first \in Pending(doc)
  <2>1. NextInvocation.expect = {first} /\ NextInvocation.rindex = Largest(RIndices(doc, first)) + 1
    BY <1>5 DEF NextInvocation
  <2> HIDE DEF first
  <2>2. \A q \in RIndices(doc, first) : q < Largest(RIndices(doc, first)) + 1
    BY NextIndex
  <2> QED
    BY <1>2, <1>3, <1>4, <2>1, <2>2
<1>6. CASE first \notin Pending(doc)
  <2>1. NextInvocation.expect = Todo /\ NextInvocation.rindex = 0
    BY <1>6 DEF NextInvocation
  <2>2. Pending(doc) \ doc.dnf = {}
    BY <1>3, <1>6
  <2>3. \A s \in Todo : RIndices(doc, s) = {}
    BY <2>2, RecordedIsPending DEF Todo, Scored
  <2> QED
    BY <1>4, <2>1, <2>2, <2>3 DEF Todo
<1> QED
  BY <1>5, <1>6

(* What the end of an invocation does to the records.                      *)
LEMMA CountedAdds ==
  ASSUME IInv, InvocationCounted
  PROVE  /\ CountedRows(doc') = CountedRows(doc) \cup
              {[inv |-> Cur, slot |-> s, rindex |-> Inv.rindex] : s \in files.rows}
         /\ Decided(doc') = doc.att /\ doc'.att = doc.att
         /\ \A a \in doc.att \ Own : a \in Decided(doc)
<1>1. /\ Cur \in 1..Len(doc.invs) /\ doc.invs[Cur].status = "running"
      /\ Len(doc'.invs) = Len(doc.invs)
      /\ \A i \in 1..Len(doc.invs) : i # Cur => doc'.invs[i] = doc.invs[i]
      /\ doc'.invs[Cur].status \in Counted /\ doc'.invs[Cur].accepted = files.rows
      /\ doc'.invs[Cur].rindex = Inv.rindex
  BY CountedInvocation
<1> DEFINE new == {[inv |-> Cur, slot |-> s, rindex |-> Inv.rindex] : s \in files.rows}
<1>2. ASSUME NEW r \in CountedRows(doc') PROVE r \in CountedRows(doc) \cup new
  <2>1. PICK i \in 1..Len(doc'.invs) : /\ doc'.invs[i].status \in Counted
                                       /\ r \in {[inv |-> i, slot |-> t, rindex |-> doc'.invs[i].rindex] :
                                                   t \in doc'.invs[i].accepted}
    BY <1>2 DEF CountedRows
  <2>2. CASE i = Cur
    BY <1>1, <2>1, <2>2
  <2>3. CASE i # Cur
    <3>1. i \in 1..Len(doc.invs) /\ doc'.invs[i] = doc.invs[i]
      BY <1>1, <2>3
    <3> QED
      BY <2>1, <3>1 DEF CountedRows
  <2> QED
    BY <2>2, <2>3
<1>3. ASSUME NEW r \in CountedRows(doc) PROVE r \in CountedRows(doc')
  <2>1. PICK i \in 1..Len(doc.invs) : /\ doc.invs[i].status \in Counted
                                      /\ r \in {[inv |-> i, slot |-> t, rindex |-> doc.invs[i].rindex] :
                                                  t \in doc.invs[i].accepted}
    BY <1>3 DEF CountedRows
  <2>2. i # Cur
    BY <1>1, <2>1 DEF Counted
  <2>3. i \in 1..Len(doc'.invs) /\ doc'.invs[i] = doc.invs[i]
    BY <1>1, <2>2
  <2> QED
    BY <2>1, <2>3 DEF CountedRows
<1>4. ASSUME NEW r \in new PROVE r \in CountedRows(doc')
  <2>1. r \in {[inv |-> Cur, slot |-> t, rindex |-> doc'.invs[Cur].rindex] : t \in doc'.invs[Cur].accepted}
    BY <1>1
  <2> QED
    BY <1>1, <2>1 DEF CountedRows
<1>5. CountedRows(doc') = CountedRows(doc) \cup new
  BY <1>2, <1>3, <1>4
<1>6. \A a \in doc.att : a.inv # Cur => doc.invs[a.inv].status # "running" /\ doc'.invs[a.inv] = doc.invs[a.inv]
  BY <1>1 DEF IInv, TypeOK, DocOK, Cur
<1>7. doc'.att = doc.att
  BY DEF InvocationCounted
<1>8. Decided(doc') = doc.att
  BY <1>1, <1>6, <1>7 DEF Decided, Counted
<1> QED
  BY <1>5, <1>6, <1>7, <1>8 DEF Decided, Own

LEMMA RemovalKeepsRecords ==
  ASSUME IInv, InvocationRemoved
  PROVE  CountedRows(doc') = CountedRows(doc) /\ Decided(doc') = Decided(doc)
<1>1. /\ Cur \in 1..Len(doc.invs) /\ doc.invs[Cur].status = "running"
      /\ Len(doc'.invs) = Len(doc.invs)
      /\ \A i \in 1..Len(doc.invs) : i # Cur => doc'.invs[i] = doc.invs[i]
      /\ doc'.invs[Cur].status = "gone"
  BY RemovedInvocation
<1>2. {j \in 1..Len(doc'.invs) : doc'.invs[j].status \in Counted}
        = {j \in 1..Len(doc.invs) : doc.invs[j].status \in Counted}
  BY <1>1 DEF Counted
<1>3. \A j \in {k \in 1..Len(doc.invs) : doc.invs[k].status \in Counted} : doc'.invs[j] = doc.invs[j]
  BY <1>1 DEF Counted
<1>4. CountedRows(doc') = CountedRows(doc)
  BY <1>2, <1>3 DEF CountedRows
<1>5. \A a \in doc.att : a.inv # Cur => doc.invs[a.inv].status # "running" /\ doc'.invs[a.inv] = doc.invs[a.inv]
  BY <1>1 DEF IInv, TypeOK, DocOK, Cur
<1>6. doc'.att = {a \in doc.att : ~(a.inv = Cur /\ a.disp \in {"accepted", "exhausted"})}
  BY DEF InvocationRemoved
<1>7. Decided(doc') = Decided(doc)
  BY <1>1, <1>5, <1>6 DEF Decided
<1> QED
  BY <1>4, <1>7

LEMMA UniqueNext ==
  IInv /\ DnfInv /\ StableInv /\ OwnInv /\ UniqueInv /\ FrontierInv /\ RecordsStep => UniqueInv'
<1> SUFFICES ASSUME IInv, DnfInv, StableInv, OwnInv, UniqueInv, FrontierInv, RecordsStep
             PROVE  UniqueInv'
  OBVIOUS
<1>1. UniqueInv' <=>
        /\ \A a, b \in doc'.att : SameKey(a, b) => a = b
        /\ \A a, b \in CountedRows(doc') : SameKey(a, b) => a = b
        /\ \A a \in doc'.att : a.disp = "cheat" => a.rindex < MaxReruns
        /\ \A a \in doc'.att : a.disp \in {"cheat", "exhausted"} => "cheat" \in FaultKinds
        /\ \A a \in Decided(doc') : a.disp \notin Rejecting => \E r \in CountedRows(doc') : SameKey(r, a)
        /\ Running(doc') => \A x \in CountedRows(doc') \cup (doc'.att \ Own') :
                              x.slot \in Inv'.expect => x.rindex < Inv'.rindex
  BY DEF UniqueInv, DuplicateRow, SameKey, CountedRows, Decided, Running, Counted
<1>2. /\ \A a, b \in doc.att : SameKey(a, b) => a = b
      /\ \A a, b \in CountedRows(doc) : SameKey(a, b) => a = b
      /\ \A a \in doc.att : a.disp = "cheat" => a.rindex < MaxReruns
      /\ \A a \in doc.att : a.disp \in {"cheat", "exhausted"} => "cheat" \in FaultKinds
      /\ \A a \in Decided(doc) : a.disp \notin Rejecting => \E r \in CountedRows(doc) : SameKey(r, a)
      /\ Running(doc) => \A x \in CountedRows(doc) \cup (doc.att \ Own) :
                           x.slot \in Inv.expect => x.rindex < Inv.rindex
  BY DEF UniqueInv, DuplicateRow
<1>3. CASE RecordsKept \/ RowSettled
  <2>1. doc'.invs = doc.invs /\ doc'.att = doc.att
    BY <1>3 DEF RecordsKept, RowSettled
  <2>2. CountedRows(doc') = CountedRows(doc) /\ Decided(doc') = Decided(doc)
    BY <2>1, SameRecords
  <2>3. Inv' = Inv /\ Own' = Own /\ (Running(doc') <=> Running(doc))
    BY <2>1 DEF Inv, Own, Cur, Running
  <2> QED
    BY <1>1, <1>2, <2>1, <2>2, <2>3
<1>4. CASE InvocationAdded
  <2>1. CountedRows(doc') = CountedRows(doc) /\ Decided(doc') = Decided(doc)
    BY <1>4, AddedRecords
  <2>2. doc'.att = doc.att
    BY <1>4 DEF InvocationAdded
  <2>3. Inv' = NextInvocation
    BY <1>4, AddedInvocation DEF Inv, Cur
  <2>4. \A x \in CountedRows(doc') \cup (doc'.att \ Own') :
           x.slot \in Inv'.expect => x.rindex < Inv'.rindex
    BY <1>4, <2>1, <2>2, <2>3, LaunchesFresh
  <2> QED
    BY <1>1, <1>2, <2>1, <2>2, <2>4
<1>5. CASE VerdictAdded
  <2>1. PICK a \in Attempts :
          /\ a.inv = Cur /\ a.slot \in Inv.expect /\ a.rindex = Inv.rindex
          /\ a.slot \in files.done \ files.cont
          /\ a.disp \in {"cheat", "exhausted"} => "cheat" \in FaultKinds
          /\ a.disp = "cheat" => a.rindex < MaxReruns
          /\ doc'.att = doc.att \cup {a}
    BY <1>5 DEF VerdictAdded
  <2>2. Running(doc) /\ doc'.invs = doc.invs /\ Inv' = Inv /\ Cur' = Cur
    BY <1>5 DEF VerdictAdded, Inv, Cur
  <2>3. /\ CountedRows(doc') = CountedRows(doc)
        /\ Decided(doc') = Decided(doc) \cup (IF a.disp \in Rejecting THEN {a} ELSE {})
    BY <2>1, <2>2, VerdictDecided
  <2>4. Own' = Own \cup {a}
    BY <2>1, <2>2 DEF Own
  <2>5. \A b \in doc.att : ~SameKey(a, b)
    <3> SUFFICES ASSUME NEW b \in doc.att, SameKey(a, b) PROVE FALSE
      OBVIOUS
    <3>1. CASE b \in Own
      <4>1. b.slot \in files.cont
        BY <1>5, <2>2, <3>1 DEF OwnInv, VerdictAdded, Barrier
      <4> QED
        BY <2>1, <4>1 DEF SameKey
    <3>2. CASE b \notin Own
      <4>1. b.slot \in Inv.expect /\ b.rindex = Inv.rindex
        BY <2>1 DEF SameKey
      <4>2. b.rindex < Inv.rindex
        BY <1>2, <2>2, <3>2, <4>1
      <4>3. b.rindex \in Nat
        BY BoundsAssumption DEF IInv, TypeOK, DocOK, Attempts
      <4> QED
        BY <4>1, <4>2, <4>3
    <3> QED
      BY <3>1, <3>2
  <2>6. \A b, c \in doc'.att : SameKey(b, c) => b = c
    BY <1>2, <2>1, <2>5 DEF SameKey
  <2>7. \A b \in Decided(doc') : b.disp \notin Rejecting => \E r \in CountedRows(doc') : SameKey(r, b)
    BY <1>2, <2>3
  <2>8. \A x \in CountedRows(doc') \cup (doc'.att \ Own') :
           x.slot \in Inv'.expect => x.rindex < Inv'.rindex
    BY <1>2, <2>1, <2>2, <2>3, <2>4
  <2> QED
    BY <1>1, <1>2, <2>1, <2>3, <2>6, <2>7, <2>8
<1>6. CASE InvocationCounted
  <2> DEFINE new == {[inv |-> Cur, slot |-> s, rindex |-> Inv.rindex] : s \in files.rows}
  <2>1. CountedRows(doc') = CountedRows(doc) \cup new /\ Decided(doc') = doc.att /\ doc'.att = doc.att
        /\ \A a \in doc.att \ Own : a \in Decided(doc)
    BY <1>6, CountedAdds
  <2>2. Running(doc) /\ ~Running(doc')
    BY <1>6, Over DEF InvocationCounted
  <2>3. files.rows \subseteq Inv.expect /\ files.done \subseteq files.rows /\ Inv.rindex \in Nat
    BY <2>2, Current, BoundsAssumption DEF IInv, BarrierInv, Invocations
  <2>4. ASSUME NEW r \in CountedRows(doc), NEW n \in new PROVE ~SameKey(r, n)
    <3>1. n.rindex = Inv.rindex /\ n.slot \in Inv.expect
      BY <2>3
    <3>2. r.slot \in Inv.expect => r.rindex < Inv.rindex
      BY <1>2, <2>2
    <3>3. r.rindex = Inv.rindex => ~(r.rindex < Inv.rindex)
      BY <2>3
    <3> QED
      BY <3>1, <3>2, <3>3 DEF SameKey
  <2>5. \A m, n \in new : SameKey(m, n) => m = n
    BY DEF SameKey
  <2>6. \A r, q \in CountedRows(doc') : SameKey(r, q) => r = q
    <3> HIDE DEF new
    <3>1. \A r \in CountedRows(doc), n \in new : ~SameKey(r, n) /\ ~SameKey(n, r)
      BY <2>4 DEF SameKey
    <3> QED
      BY <1>2, <2>1, <2>5, <3>1
  <2>7. ASSUME NEW a \in doc.att, a.disp \notin Rejecting
        PROVE  \E r \in CountedRows(doc') : SameKey(r, a)
    <3>1. CASE a \in Own
      <4>1. a.slot \in files.rows /\ a.rindex = Inv.rindex
        BY <2>2, <2>3, <3>1 DEF OwnInv
      <4>2. [inv |-> Cur, slot |-> a.slot, rindex |-> Inv.rindex] \in new
        BY <4>1
      <4> QED
        BY <2>1, <4>1, <4>2 DEF SameKey
    <3>2. CASE a \notin Own
      BY <1>2, <2>1, <2>7, <3>2
    <3> QED
      BY <3>1, <3>2
  <2> QED
    BY <1>1, <1>2, <2>1, <2>2, <2>6, <2>7
<1>7. CASE InvocationRemoved
  <2>1. CountedRows(doc') = CountedRows(doc) /\ Decided(doc') = Decided(doc)
    BY <1>7, RemovalKeepsRecords
  <2>2. doc'.att \subseteq doc.att /\ ~Running(doc')
    BY <1>7, Over DEF InvocationRemoved
  <2> QED
    BY <1>1, <1>2, <2>1, <2>2
<1>8. CASE AttemptsFilled
  <2>1. CountedRows(doc') = CountedRows(doc) /\ ~Running(doc')
    BY <1>8, FilledRows, FilledAttempts, Over DEF AttemptsFilled, Running
  <2>2. PICK new \in SUBSET [inv : {Cur}, slot : files.rows, rindex : {Inv.rindex}, disp : {"accepted"}] :
          /\ doc'.att = doc.att \cup new /\ Decided(doc') = Decided(doc) \cup new
          /\ \A n \in new, a \in doc.att : ~SameKey(n, a)
          /\ \A n \in new : \E r \in CountedRows(doc) : SameKey(r, n)
    BY <1>8, FilledRows
  <2>3. \A m, n \in new : SameKey(m, n) => m = n
    BY DEF SameKey
  <2>4. \A n \in new, a \in doc.att : ~SameKey(a, n)
    BY <2>2 DEF SameKey
  <2>5. \A n \in new : n.disp = "accepted"
    OBVIOUS
  <2>6. \A a, b \in doc'.att : SameKey(a, b) => a = b
    BY <1>2, <2>2, <2>3, <2>4
  <2> QED
    BY <1>1, <1>2, <2>1, <2>2, <2>5, <2>6
<1>9. CASE LoadRestarted
  <2>1. doc'.att = {} /\ doc'.invs = <<>>
    BY <1>9 DEF LoadRestarted
  <2>2. CountedRows(doc') = {} /\ Decided(doc') = {} /\ ~Running(doc')
    BY <2>1 DEF CountedRows, Decided, Running
  <2> QED
    BY <1>1, <2>1, <2>2
<1> QED
  BY <1>3, <1>4, <1>5, <1>6, <1>7, <1>8, <1>9 DEF RecordsStep

-----------------------------------------------------------------------------
(* A cheat is either impossible, or it is what a resume salvages: a STOP   *)
(* or a drift would quarantine the rest of its invocation.                 *)
Unmixed == "cheat" \notin FaultKinds \/ ("stop" \notin FaultKinds /\ "drift" \notin FaultKinds)

(* The index of a row that is counted now is the last of its slot.         *)
LEMMA LastIndexCounted ==
  ASSUME IInv, OwnInv, InvocationCounted, NEW t \in files.rows,
         \A x \in CountedRows(doc) \cup (doc.att \ Own) :
           x.slot = t => x.rindex < Inv.rindex \/ x.rindex = Inv.rindex
  PROVE  RIndices(doc', t) # {} /\ Largest(RIndices(doc', t)) = Inv.rindex
<1> DEFINE k == Inv.rindex
           J == RIndices(doc', t)
<1>1. Running(doc) /\ files.rows \subseteq Inv.expect /\ Inv.expect \subseteq Slots /\ k \in Nat
  BY Current, BoundsAssumption DEF InvocationCounted, IInv, BarrierInv, Invocations
<1>2. /\ CountedRows(doc') = CountedRows(doc) \cup {[inv |-> Cur, slot |-> s, rindex |-> k] : s \in files.rows}
      /\ Decided(doc') = doc.att
  BY CountedAdds
<1>3. k \in J
  <2>1. [inv |-> Cur, slot |-> t, rindex |-> k] \in CountedRows(doc')
    BY <1>2
  <2> QED
    BY <2>1 DEF RIndices
<1>4. ASSUME NEW x \in CountedRows(doc') \cup Decided(doc'), x.slot = t
      PROVE  x.rindex = k \/ (x.rindex < k /\ x \notin Own)
  <2>1. CASE x \in Own
    BY <1>1, <2>1 DEF OwnInv
  <2>2. CASE x \notin Own
    <3>1. x \in CountedRows(doc) \cup (doc.att \ Own) \/ x.rindex = k
      BY <1>2, <2>2
    <3> QED
      BY <1>4, <2>2, <3>1
  <2> QED
    BY <2>1, <2>2
<1>5. \A q \in J : q = k \/ q < k
  BY <1>4 DEF RIndices
<1>6. J \in SUBSET Nat /\ IsFiniteSet(J)
  <2>1. J \subseteq RIndices(doc, t) \cup {k}
    <3> SUFFICES ASSUME NEW x \in CountedRows(doc') \cup Decided(doc'), x.slot = t
                 PROVE  x.rindex \in RIndices(doc, t) \cup {k}
      BY DEF RIndices
    <3>1. CASE x.rindex # k
      <4>1. x \in CountedRows(doc) \cup doc.att /\ x \notin Own
        BY <1>2, <1>4, <3>1
      <4>2. x \in CountedRows(doc) \cup Decided(doc)
        BY <4>1, CountedAdds
      <4> QED
        BY <3>1, <4>2 DEF RIndices
    <3> QED
      BY <3>1
  <2>2. RIndices(doc, t) \subseteq 0..MaxReruns /\ IsFiniteSet(0..MaxReruns)
    BY IndicesBounded, BoundsAssumption, FS_Interval DEF IInv, TypeOK
  <2>3. IsFiniteSet(RIndices(doc, t) \cup {k})
    BY <2>2, FS_Subset, FS_AddElement
  <2> QED
    BY <1>1, <2>1, <2>2, <2>3, FS_Subset, BoundsAssumption
<1>7. Largest(J) = k
  <2> DEFINE L == Largest(J)
  <2> HIDE DEF J
  <2>1. L \in J /\ L \in Nat /\ k <= L
    BY <1>3, <1>6, LargestIsLargest
  <2> HIDE DEF L
  <2>2. L = k \/ L < k
    BY <1>5, <2>1
  <2>3. L = k
    BY <1>1, <2>1, <2>2
  <2> QED
    BY <2>3 DEF L
<1> QED
  BY <1>3, <1>7

(* A row that is counted now and whose verdict did not reject it scores    *)
(* its slot.                                                               *)
LEMMA CountedScores ==
  ASSUME IInv, OwnInv, UniqueInv, InvocationCounted, NEW t \in files.rows,
         \A a \in Own : a.slot = t => a.disp \notin Rejecting
  PROVE  t \in RowScored(doc')
<1> DEFINE k == Inv.rindex
           J == RIndices(doc', t)
<1>1. Running(doc) /\ files.rows \subseteq Inv.expect /\ Inv.expect \subseteq Slots /\ k \in Nat
  BY Current, BoundsAssumption DEF InvocationCounted, IInv, BarrierInv, Invocations
<1>2. Decided(doc') = doc.att
  BY CountedAdds
<1>3. J # {} /\ Largest(J) = k
  BY <1>1, LastIndexCounted DEF UniqueInv
<1>4. \A a \in LastOf(doc', t) : a.disp \in {"accepted", "exhausted"}
  <2> SUFFICES ASSUME NEW a \in LastOf(doc', t) PROVE a.disp \in {"accepted", "exhausted"}
    OBVIOUS
  <2>1. a \in Decided(doc') /\ a.slot = t /\ a.rindex = k
    BY <1>3 DEF LastOf
  <2>2. a \in Own
    <3>1. a \in doc.att
      BY <1>2, <2>1
    <3>2. a \notin Own => a.rindex < k
      BY <1>1, <2>1, <3>1 DEF UniqueInv
    <3> QED
      BY <1>1, <2>1, <3>2
  <2>3. a.disp \notin Rejecting /\ a.disp \in Verdict
    BY <2>1, <2>2 DEF Own, IInv, TypeOK, DocOK, Attempts
  <2> QED
    BY <2>3 DEF Verdict, Rejecting
<1>5. Latest(doc', t) \in {"accepted", "exhausted"}
  <2>1. CASE LastOf(doc', t) = {}
    BY <1>3, <2>1, LatestIs
  <2>2. CASE LastOf(doc', t) # {}
    BY <1>3, <1>4, <2>2, LatestIs
  <2> QED
    BY <2>1, <2>2
<1> QED
  BY <1>1, <1>5 DEF RowScored

(* With the counted rows of an invocation, what is before a slot to be     *)
(* re-run is scored.                                                       *)
LEMMA FrontierCounted ==
  ASSUME IInv, DnfInv, StableInv, OwnInv, UniqueInv, FrontierInv, InvocationCounted,
         NEW p \in Pending(doc') \ doc'.dnf, NEW s \in Slots, s < p
  PROVE  s \in Scored(doc')
<1>1. Running(doc) /\ doc'.dnf = doc.dnf /\ doc'.gen = doc.gen
  BY DEF InvocationCounted
<1>2. files.rows \subseteq Inv.expect /\ files.done \subseteq files.rows /\ Inv.expect \subseteq Slots
  BY <1>1, Current DEF IInv, BarrierInv, Invocations
<1>3. \A t \in Scored(doc) : t \in Scored(doc')
  BY <1>1, ScoreKept DEF SameScore, RecordsStep
<1>4. Latest(doc', p) = "cheat" /\ p \in Slots /\ p \notin RowScored(doc')
  BY DEF Pending, RowScored
<1>5. \A t \in files.rows : (\A a \in Own : a.slot = t => a.disp \notin Rejecting) => t \in RowScored(doc')
  BY CountedScores
<1>6. CASE \E a \in Own : a.slot = p /\ a.disp \in Rejecting
  <2>1. PICK a \in Own : a.slot = p /\ a.disp \in Rejecting
    BY <1>6
  <2>2. files.rows = {t \in Inv.expect : t <= p} /\ p \in files.rows
    BY <1>1, <1>2, <2>1, RejectedLast
  <2>3. CASE s \notin Inv.expect
    BY <1>1, <1>2, <1>3, <2>2, <2>3 DEF FrontierInv
  <2>4. CASE s \in Inv.expect
    <3>1. s \in Nat /\ p \in Nat
      BY <1>4, SlotsFinite
    <3>2. s \in files.rows
      BY <2>2, <2>4, <3>1
    <3>3. ASSUME NEW b \in Own, b.slot = s PROVE b.disp \notin Rejecting
      <4> SUFFICES ASSUME b.disp \in Rejecting PROVE FALSE
        OBVIOUS
      <4>1. files.rows = {t \in Inv.expect : t <= s}
        BY <1>1, <3>3, RejectedLast
      <4>2. p <= s
        BY <2>2, <4>1
      <4> QED
        BY <3>1, <4>2
    <3> QED
      BY <1>5, <3>2, <3>3 DEF Scored
  <2> QED
    BY <2>3, <2>4
<1>7. CASE ~\E a \in Own : a.slot = p /\ a.disp \in Rejecting
  <2>1. p \notin files.rows
    BY <1>4, <1>5, <1>7
  <2>2. \A a \in Own : a.slot # p
    BY <1>1, <1>2, <2>1 DEF OwnInv
  <2>3. /\ CountedRows(doc') = CountedRows(doc) \cup
              {[inv |-> Cur, slot |-> t, rindex |-> Inv.rindex] : t \in files.rows}
        /\ Decided(doc') = doc.att /\ \A a \in doc.att \ Own : a \in Decided(doc)
    BY CountedAdds
  <2>4. Of(CountedRows(doc'), p) = Of(CountedRows(doc), p)
    BY <2>1, <2>3 DEF Of
  <2>5. Of(Decided(doc'), p) = Of(Decided(doc), p)
    <3>1. Decided(doc) \subseteq doc.att
      BY DEF Decided
    <3> QED
      BY <2>2, <2>3, <3>1 DEF Of
  <2>6. p \in Pending(doc) \ doc.dnf
    BY <1>1, <1>4, <2>4, <2>5, LatestSame DEF Pending
  <2>7. Inv.expect = {p}
    BY <1>1, <1>7, <2>6 DEF FrontierInv
  <2>8. s \in Slots \ Inv.expect
    <3>1. s # p
      BY <1>4, SlotsFinite
    <3> QED
      BY <2>7, <3>1
  <2> QED
    BY <1>1, <1>3, <2>7, <2>8 DEF FrontierInv
<1> QED
  BY <1>6, <1>7

(* A running invocation that rejected an item is salvaged.                 *)
LEMMA RejectionSalvaged ==
  ASSUME IInv, OwnInv, Running(doc), NEW b \in Own, b.disp \in Rejecting, ~probe.man.drift
  PROVE  Salvageable
<1>1. b \in Rejected
  BY DEF Rejected, Own, Rejecting
<1> DEFINE a == CHOOSE x \in Rejected : TRUE
<1>2. a \in Rejected
  BY <1>1
<1>3. PersistedStop = After(a.slot, a.disp)
  BY <1>1 DEF PersistedStop
<1> HIDE DEF a
<1>4. a \in Own /\ a.disp \in Rejecting
  BY <1>2 DEF Rejected, Own, Rejecting
<1>5. files.rows = {s \in Inv.expect : s <= a.slot}
  BY <1>4, RejectedLast
<1>6. After(a.slot, a.disp) # NoHook
  BY DEF After, NoHook
<1>7. ImpliedPrefix(PersistedStop) = {s \in Inv.expect : s <= a.slot}
  BY <1>3 DEF ImpliedPrefix, After
<1> QED
  BY <1>3, <1>5, <1>6, <1>7 DEF Salvageable

LEMMA PendingHasCheat ==
  ASSUME NEW p \in Pending(doc)
  PROVE  \E a \in doc.att : a.slot = p /\ a.disp = "cheat"
<1>1. Latest(doc, p) = "cheat"
  BY DEF Pending
<1>2. PICK a \in LastOf(doc, p) : a.disp = "cheat"
  BY <1>1, LatestIs
<1> QED
  BY <1>2 DEF LastOf, Decided

LEMMA FrontierNext ==
  ASSUME Unmixed
  PROVE  IInv /\ DnfInv /\ StableInv /\ FaultsInv /\ OwnInv /\ UniqueInv /\ FrontierInv /\ RecordsStep
           => FrontierInv'
<1> SUFFICES ASSUME IInv, DnfInv, StableInv, FaultsInv, OwnInv, UniqueInv, FrontierInv, RecordsStep
             PROVE  FrontierInv'
  OBVIOUS
<1> DEFINE Fresh == Pending(doc) \ doc.dnf
           FreshN == Pending(doc') \ doc'.dnf
<1>1. FrontierInv' <=>
        /\ ~Running(doc') => \A p \in FreshN, s \in Slots : s < p => s \in Scored(doc')
        /\ Running(doc') => \A p \in FreshN : Inv'.expect = {p} \/ \E a \in Own' : a.slot = p /\ a.disp \in Rejecting
        /\ Running(doc') => \A e \in Inv'.expect, s \in Slots \ Inv'.expect : s < e => s \in Scored(doc')
  BY Primes DEF FrontierInv, Pending, Latest, RIndices, CountedRows, Decided, Counted, Largest, Running
<1>2. /\ ~Running(doc) => \A p \in Fresh, s \in Slots : s < p => s \in Scored(doc)
      /\ Running(doc) => \A p \in Fresh : Inv.expect = {p} \/ \E a \in Own : a.slot = p /\ a.disp \in Rejecting
      /\ Running(doc) => \A e \in Inv.expect, s \in Slots \ Inv.expect : s < e => s \in Scored(doc)
  BY DEF FrontierInv
<1>3. doc'.gen = doc.gen => \A s : s \in Scored(doc) => s \in Scored(doc')
  BY ScoreKept DEF SameScore
<1>4. ASSUME CountedRows(doc') = CountedRows(doc), Decided(doc') = Decided(doc), doc.dnf \subseteq doc'.dnf
      PROVE  FreshN \subseteq Fresh
  <2>1. \A p : Latest(doc', p) = Latest(doc, p)
    BY <1>4, LatestSame
  <2> QED
    BY <1>4, <2>1 DEF Pending
<1>5. CASE RecordsKept \/ RowSettled
  <2>1. /\ doc'.invs = doc.invs /\ doc'.att = doc.att /\ doc'.gen = doc.gen
        /\ doc.dnf \subseteq doc'.dnf
    BY <1>5 DEF RecordsKept, RowSettled
  <2>2. CountedRows(doc') = CountedRows(doc) /\ Decided(doc') = Decided(doc)
    BY <2>1, SameRecords
  <2>3. Inv' = Inv /\ Own' = Own /\ (Running(doc') <=> Running(doc))
    BY <2>1 DEF Inv, Own, Cur, Running
  <2>4. FreshN \subseteq Fresh
    BY <1>4, <2>1, <2>2
  <2> HIDE DEF Fresh, FreshN
  <2> QED
    BY <1>1, <1>2, <1>3, <2>1, <2>3, <2>4
<1>6. CASE InvocationAdded
  <2>1. CountedRows(doc') = CountedRows(doc) /\ Decided(doc') = Decided(doc)
    BY <1>6, AddedRecords
  <2>2. doc'.dnf = doc.dnf /\ doc'.gen = doc.gen
    BY <1>6 DEF InvocationAdded
  <2>3. Inv' = NextInvocation /\ Running(doc')
    BY <1>6, AddedInvocation DEF Inv, Cur, Running
  <2>4. FreshN \subseteq Fresh
    BY <1>4, <2>1, <2>2
  <2>5. /\ \A p \in Fresh : NextInvocation.expect = {p}
        /\ \A e \in NextInvocation.expect, s \in Slots \ NextInvocation.expect : s < e => s \in Scored(doc)
    BY <1>6, LaunchesFresh
  <2> HIDE DEF Fresh, FreshN
  <2> QED
    BY <1>1, <1>3, <2>2, <2>3, <2>4, <2>5
<1>7. CASE VerdictAdded
  <2>1. PICK a \in Attempts : a.inv = Cur /\ doc'.att = doc.att \cup {a}
    BY <1>7 DEF VerdictAdded
  <2>2. /\ Running(doc) /\ doc'.invs = doc.invs /\ Inv' = Inv /\ Cur' = Cur /\ Running(doc')
        /\ doc'.dnf = doc.dnf /\ doc'.gen = doc.gen
    BY <1>7 DEF VerdictAdded, Inv, Cur, Running
  <2>3. /\ CountedRows(doc') = CountedRows(doc)
        /\ Decided(doc') = Decided(doc) \cup (IF a.disp \in Rejecting THEN {a} ELSE {})
    BY <2>1, <2>2, VerdictDecided
  <2>4. Own' = Own \cup {a}
    BY <2>1, <2>2 DEF Own
  <2>5. ASSUME NEW p \in FreshN PROVE p \in Fresh \/ (a.slot = p /\ a.disp \in Rejecting)
    <3> SUFFICES ASSUME ~(a.slot = p /\ a.disp \in Rejecting) PROVE p \in Fresh
      OBVIOUS
    <3>1. Of(CountedRows(doc'), p) = Of(CountedRows(doc), p) /\ Of(Decided(doc'), p) = Of(Decided(doc), p)
      BY <2>3 DEF Of
    <3>2. Latest(doc', p) = Latest(doc, p)
      BY <3>1, LatestSame
    <3> QED
      BY <2>2, <2>5, <3>2 DEF Pending
  <2> HIDE DEF Fresh, FreshN
  <2> QED
    BY <1>1, <1>2, <1>3, <2>2, <2>4, <2>5
<1>8. CASE InvocationCounted
  <2>1. ~Running(doc')
    BY <1>8, Over
  <2>2. \A p \in FreshN, s \in Slots : s < p => s \in Scored(doc')
    BY <1>8, FrontierCounted
  <2> HIDE DEF Fresh, FreshN
  <2> QED
    BY <1>1, <2>1, <2>2
<1>9. CASE InvocationRemoved
  <2>1. CountedRows(doc') = CountedRows(doc) /\ Decided(doc') = Decided(doc)
    BY <1>9, RemovalKeepsRecords
  <2>2. /\ Running(doc) /\ ~Running(doc') /\ doc'.dnf = doc.dnf /\ doc'.gen = doc.gen
        /\ (~Salvageable \/ chain.pc = "archive_stopped")
    BY <1>9, Over DEF InvocationRemoved
  <2>3. ASSUME NEW p \in Fresh PROVE Inv.expect = {p}
    <3>1. "cheat" \in FaultKinds
      BY PendingHasCheat DEF UniqueInv
    <3>2. ~probe.man.drift /\ chain.pc # "archive_stopped"
      BY <3>1 DEF FaultsInv, Unmixed
    <3>3. ~\E a \in Own : a.slot = p /\ a.disp \in Rejecting
      BY <2>2, <3>2, RejectionSalvaged
    <3> QED
      BY <1>2, <2>2, <2>3, <3>3
  <2>4. FreshN \subseteq Fresh
    BY <1>4, <2>1, <2>2
  <2>5. Inv.expect \subseteq Slots
    BY <2>2, Current DEF IInv, Invocations
  <2>6. ASSUME NEW p \in Fresh, NEW s \in Slots, s < p PROVE s \in Scored(doc')
    <3>1. Inv.expect = {p}
      BY <2>3
    <3>2. p \in Nat /\ s \in Nat
      BY <2>5, <3>1, SlotsFinite
    <3>3. s \in Slots \ Inv.expect
      BY <2>6, <3>1, <3>2
    <3> QED
      BY <1>2, <1>3, <2>2, <2>6, <3>1, <3>3
  <2> HIDE DEF Fresh, FreshN
  <2> QED
    BY <1>1, <2>2, <2>4, <2>6
<1>10. CASE AttemptsFilled
  <2>1. /\ doc'.invs = doc.invs /\ doc'.dnf = doc.dnf /\ doc'.gen = doc.gen
        /\ ~Running(doc) /\ ~Running(doc')
    BY <1>10, FilledAttempts, Over DEF AttemptsFilled, Running
  <2>2. \A p : Latest(doc', p) = Latest(doc, p)
    BY <1>10, FillKeepsScore
  <2>3. FreshN \subseteq Fresh
    BY <2>1, <2>2 DEF Pending
  <2> HIDE DEF Fresh, FreshN
  <2> QED
    BY <1>1, <1>2, <1>3, <2>1, <2>3
<1>11. CASE LoadRestarted
  <2>1. doc'.att = {} /\ doc'.invs = <<>>
    BY <1>11 DEF LoadRestarted
  <2>2. CountedRows(doc') = {} /\ Decided(doc') = {} /\ ~Running(doc')
    BY <2>1 DEF CountedRows, Decided, Running
  <2>3. \A p : Latest(doc', p) = "none"
    BY <2>2 DEF Latest, RIndices
  <2>4. FreshN = {}
    BY <2>3 DEF Pending
  <2> HIDE DEF Fresh, FreshN
  <2> QED
    BY <1>1, <2>2, <2>4
<1> QED
  BY <1>5, <1>6, <1>7, <1>8, <1>9, <1>10, <1>11 DEF RecordsStep

LoadInv == DnfInv /\ StableInv /\ FaultsInv /\ OwnInv /\ UniqueInv /\ FrontierInv

LEMMA LoadInvNext ==
  ASSUME Unmixed
  PROVE  IInv /\ LoadInv /\ [Next]_vars => LoadInv'
BY DnfNext, StableNext, FaultsNext, OwnNext, Records, UniqueNext, FrontierNext DEF LoadInv

(* The reader's refusal is the only reason "inventory".                    *)
LEMMA RefusedOnlyWhenBroken ==
  ASSUME IInv, [Next]_vars, InventoryLoads, ~InventoryLoads'
  PROVE  InventoryBroken(doc) /\ chain.pc # "sidecar"
<1>1. ChainOK
  BY DEF IInv, TypeOK
<1>2. CASE ProbeStep \/ ProbeFault
  <2>1. CASE ProbeReady \/ ProbeGo \/ ProbeStop \/ ProbeRow \/ ProbeDone
    BY <2>1 DEF ProbeReady, ProbeGo, ProbeStop, ProbeRow, ProbeDone, InventoryLoads
  <2>2. CASE ProbeContinue \/ ProbeCancelled \/ OrphanTimeout \/ ProbeExit
    BY <2>2 DEF ProbeContinue, ProbeCancelled, OrphanTimeout, ProbeExit, InventoryLoads
  <2>3. CASE ProbeFault
    BY <2>3 DEF ProbeFault, ProbeTransport, ProbeHarness, ProbeKilled, InventoryLoads
  <2> QED
    BY <1>2, <2>1, <2>2, <2>3 DEF ProbeStep
<1>3. CASE LegTop \/ WriteSidecar \/ NothingDue \/ Spawn \/ ReadDone \/ Validate \/ Recover \/ SyncSidecars
  BY <1>1, <1>3 DEF LegTop, WriteSidecar, NothingDue, Spawn, ReadDone, Validate, Recover, SyncSidecars,
                    ChainOK, InventoryLoads
<1>4. CASE ArchiveLoad
  <2>1. chain' = [chain EXCEPT !.pc = "leg", !.restarted = TRUE]
    BY <1>4 DEF ArchiveLoad
  <2>2. chain'.why = chain.why
    BY <1>1, <2>1 DEF ChainOK
  <2> QED
    BY <2>2 DEF InventoryLoads
<1>11. CASE Crash \/ Restart
  <2>1. chain'.why = "none"
    BY <1>11 DEF Crash, Restart
  <2> QED
    BY <2>1 DEF InventoryLoads
<1>10. CASE Signal
  <2>1. chain' = [chain EXCEPT !.pc = "watch", !.hook = NoHook] \/ chain' = [chain EXCEPT !.pc = "watch"]
    BY <1>10 DEF Signal
  <2>2. chain'.why = chain.why
    BY <1>1, <2>1 DEF ChainOK
  <2> QED
    BY <2>2 DEF InventoryLoads
<1>9. CASE PersistPreSpawn \/ PersistVerdict
  <2>1. chain'.why = chain.why
    <3>1. CASE PersistPreSpawn
      BY <1>1, <3>1 DEF PersistPreSpawn, ChainOK
    <3>2. CASE PersistVerdict
      BY <1>1, <3>2 DEF PersistVerdict, ChainOK
    <3> QED
      BY <1>9, <3>1, <3>2
  <2> QED
    BY <2>1 DEF InventoryLoads
<1>5. CASE AnswerGo \/ CancelOnStop \/ CancelIdle \/ OperatorStop \/ UNCHANGED vars
  BY <1>5 DEF AnswerGo, CancelOnStop, CancelIdle, OperatorStop, vars, InventoryLoads
<1>6. CASE EscalationRefused \/ Accept \/ AfterAccept \/ AfterIncident \/ ArchiveStopped
  BY <1>1, <1>6 DEF EscalationRefused, Accept, AfterAccept, AfterIncident, ArchiveStopped, ChainOK, InventoryLoads
<1>7. CASE HandleIncomplete
  BY <1>1, <1>7 DEF HandleIncomplete, RecordIncident, RestartLoad, ChainOK, InventoryLoads
<1>8. CASE WriteDnf \/ Launch \/ Resume
  <2>1. CASE InventoryBroken(doc)
    BY <1>8, <2>1 DEF WriteDnf, Launch, Resume
  <2>2. CASE ~InventoryBroken(doc)
    BY <1>1, <1>8, <2>2 DEF WriteDnf, Launch, Resume, ChainOK, InventoryLoads
  <2> QED
    BY <2>1, <2>2
<1> QED
  BY <1>2, <1>3, <1>4, <1>5, <1>6, <1>7, <1>8, <1>9, <1>10, <1>11 DEF Next, ChainStep, ChainFault

(* chain_rows is the only reader of chain.json and fails closed: the chain *)
(* never writes an inventory its reader refuses, whatever it dies of and   *)
(* whenever it resumes, if no crash falls between the two writes of a dnf  *)
(* row and no cheat meets a STOP or a drift. Both are what the code gets   *)
(* wrong: slot_chain_sidecar and slot_chain_cheat show that neither        *)
(* hypothesis can be dropped.                                              *)
THEOREM InventoryAlwaysLoads ==
  ASSUME "sidecar_crash" \notin FaultKinds, Unmixed
  PROVE  Spec => []InventoryLoads
<1>1. Init => LoadInv /\ InventoryLoads
  BY DnfInit, StableInit, FaultsInit, OwnInit, UniqueInit DEF LoadInv, Init, InventoryLoads
<1>2. IInv /\ LoadInv /\ [Next]_vars => LoadInv'
  BY LoadInvNext
<1>3. IInv /\ LoadInv /\ InventoryLoads /\ [Next]_vars => InventoryLoads'
  <2> SUFFICES ASSUME IInv, LoadInv, InventoryLoads, [Next]_vars, ~InventoryLoads' PROVE FALSE
    OBVIOUS
  <2>1. InventoryBroken(doc) /\ chain.pc # "sidecar"
    BY RefusedOnlyWhenBroken
  <2>2. sidecar = doc.dnf
    BY <2>1 DEF LoadInv, FaultsInv
  <2> QED
    BY <2>1, <2>2, Loads DEF LoadInv
<1> QED
  BY <1>1, <1>2, <1>3, InductiveInvariant, PTL DEF Spec

-----------------------------------------------------------------------------
(* The leg implements the ledger of its slots.                             *)
(* What holds of the records whatever faults meet. What is decided as      *)
(* scored has a row that counts. A running invocation runs its slots at an *)
(* index no counted row of theirs has reached and no attempt has passed,   *)
(* with everything scored that is before them and not in its list. And     *)
(* until two attempts share an index, after which the reader refuses the   *)
(* inventory, a slot has a row or a re-run only behind scored slots.       *)
LedgerInv ==
  /\ \A a \in Decided(doc) : a.disp \notin Rejecting => \E r \in CountedRows(doc) : SameKey(r, a)
  /\ Running(doc) =>
       /\ \A x \in CountedRows(doc) : x.slot \in Inv.expect => x.rindex < Inv.rindex
       /\ \A a \in doc.att \ Own : a.slot \in Inv.expect => a.rindex < Inv.rindex \/ a.rindex = Inv.rindex
       /\ \A e \in Inv.expect, s \in Slots \ Inv.expect : s < e => s \in Scored(doc)
       /\ Inv.rindex > 0 => \A e \in Inv.expect : Inv.expect = {e}
  /\ \/ DuplicateAttempt(doc)
     \/ \A x \in CountedRows(doc) \cup {a \in doc.att : a.rindex > 0}, s \in Slots :
          s < x.slot => s \in Scored(doc)

LEMMA LedgerInit == Init => LedgerInv
<1> SUFFICES ASSUME Init PROVE LedgerInv
  OBVIOUS
<1>1. doc.att = {} /\ ~Running(doc)
  BY DEF Init, Running
<1>2. CountedRows(doc) = {} /\ Decided(doc) = {}
  BY DEF Init, CountedRows, Decided
<1> QED
  BY <1>1, <1>2 DEF LedgerInv

(* The launch of what the slot table calls for, without a dnf row or a     *)
(* unique index to rely on.                                                *)
LEMMA LaunchesInOrder ==
  ASSUME IInv, LedgerInv, InvocationAdded
  PROVE  /\ \A x \in CountedRows(doc) : x.slot \in NextInvocation.expect => x.rindex < NextInvocation.rindex
         /\ \A a \in doc.att : a.slot \in NextInvocation.expect =>
              a.rindex < NextInvocation.rindex \/ a.rindex = NextInvocation.rindex
         /\ \A e \in NextInvocation.expect, s \in Slots \ NextInvocation.expect : s < e => s \in Scored(doc)
         /\ NextInvocation.rindex > 0 => \A e \in NextInvocation.expect : NextInvocation.expect = {e}
<1> DEFINE first == Least(Todo)
<1>1. Todo \in SUBSET Nat /\ Todo \in SUBSET Slots /\ ~Running(doc)
  BY FirstTodo
<1>2. first \in Todo /\ (\A y \in Todo : first <= y) /\ \A s \in Slots : s < first => s \in Scored(doc)
  BY FirstTodo
<1>3. \A x \in CountedRows(doc) \cup doc.att : x.rindex \in RIndices(doc, x.slot)
  BY <1>1, AllDecided
<1>4. CASE first \in Pending(doc)
  <2>1. NextInvocation.expect = {first} /\ NextInvocation.rindex = Largest(RIndices(doc, first)) + 1
    BY <1>4 DEF NextInvocation
  <2> HIDE DEF first
  <2>2. \A q \in RIndices(doc, first) : q < Largest(RIndices(doc, first)) + 1
    BY NextIndex
  <2> QED
    BY <1>2, <1>3, <2>1, <2>2
<1>5. CASE first \notin Pending(doc)
  <2>1. NextInvocation.expect = Todo /\ NextInvocation.rindex = 0
    BY <1>5 DEF NextInvocation
  <2>2. ~DuplicateAttempt(doc)
    BY DEF InvocationAdded, InventoryBroken
  <2>3. ASSUME NEW x \in CountedRows(doc) \cup doc.att, x.slot \in Todo
        PROVE  x \notin CountedRows(doc) \cup {a \in doc.att : a.rindex > 0}
    <3>1. x.slot \in Pending(doc)
      BY <1>3, <2>3, RecordedIsPending
    <3>2. x.slot # first /\ first <= x.slot /\ first \in Nat /\ x.slot \in Nat
      BY <1>1, <1>2, <1>5, <2>3, <3>1
    <3>3. first < x.slot /\ first \in Slots /\ first \notin Scored(doc)
      BY <1>2, <3>2 DEF Todo
    <3> QED
      BY <2>2, <3>3 DEF LedgerInv
  <2>4. ASSUME NEW a \in doc.att, a.slot \in Todo PROVE a.rindex = 0
    <3>1. a.rindex \in Nat /\ ~(a.rindex > 0)
      BY <2>3, <2>4, BoundsAssumption DEF IInv, TypeOK, DocOK, Attempts
    <3> QED
      BY <3>1
  <2> QED
    BY <2>1, <2>3, <2>4 DEF Todo
<1> QED
  BY <1>4, <1>5

(* Two decided attempts with one index stay, whatever the running          *)
(* invocation comes to.                                                    *)
LEMMA DuplicatesStay ==
  ASSUME IInv, StableInv, RecordsStep, ~LoadRestarted, DuplicateAttempt(doc)
  PROVE  DuplicateAttempt(doc')
<1>1. Decided(doc) \subseteq Decided(doc')
  <2>1. CASE RecordsKept \/ RowSettled
    BY <2>1, SameRecords DEF RecordsKept, RowSettled
  <2>2. CASE InvocationAdded
    BY <2>2, AddedRecords
  <2>3. CASE VerdictAdded
    <3>1. PICK a \in Attempts : a.inv = Cur /\ doc'.att = doc.att \cup {a}
      BY <2>3 DEF VerdictAdded
    <3> QED
      BY <2>3, <3>1, VerdictDecided DEF VerdictAdded
  <2>4. CASE InvocationCounted
    BY <2>4, CountedAdds DEF Decided
  <2>5. CASE InvocationRemoved
    BY <2>5, RemovalKeepsRecords
  <2>6. CASE AttemptsFilled
    BY <2>6, FilledRows
  <2> QED
    BY <2>1, <2>2, <2>3, <2>4, <2>5, <2>6 DEF RecordsStep
<1> QED
  BY <1>1 DEF DuplicateAttempt

(* The slots of an ended invocation before one of its rows are scored, or  *)
(* an earlier attempt shares their index.                                  *)
LEMMA CountedInOrder ==
  ASSUME IInv, DnfInv, StableInv, OwnInv, LedgerInv, InvocationCounted, ~DuplicateAttempt(doc'),
         NEW t \in files.rows, NEW s \in Slots, s < t
  PROVE  s \in Scored(doc')
<1> DEFINE k == Inv.rindex
<1>1. Running(doc) /\ k \in Nat /\ doc'.gen = doc.gen
  BY Current, BoundsAssumption DEF InvocationCounted, IInv, Invocations
<1>2. /\ files.rows \subseteq Inv.expect /\ files.cont \subseteq files.rows /\ files.rows \subseteq files.ready
      /\ \A r \in files.ready : Below(r) \subseteq files.cont
  BY DEF IInv, BarrierInv
<1>3. \A r \in Scored(doc) : r \in Scored(doc')
  BY <1>1, ScoreKept DEF SameScore, RecordsStep
<1>4. CASE s \notin Inv.expect
  BY <1>1, <1>2, <1>3, <1>4 DEF LedgerInv
<1>5. CASE s \in Inv.expect
  <2>1. s \in files.cont /\ s \in files.rows
    BY <1>2, <1>5 DEF Below
  <2>2. PICK b \in Own : b.slot = s /\ b.disp \in {"accepted", "exhausted"}
    BY <1>1, <2>1 DEF IInv, DispositionBeforeSignal, Own
  <2>3. Decided(doc') = doc.att
    BY CountedAdds
  <2>4. b.rindex = k /\ b \in Decided(doc')
    BY <1>1, <2>3 DEF OwnInv, Own
  <2>5. RIndices(doc', s) # {} /\ Largest(RIndices(doc', s)) = k
    <3>1. \A x \in CountedRows(doc) \cup (doc.att \ Own) : x.slot = s => x.rindex < k \/ x.rindex = k
      BY <1>1, <1>5 DEF LedgerInv
    <3> QED
      BY <2>1, <3>1, LastIndexCounted
  <2> HIDE DEF k
  <2>6. b \in LastOf(doc', s)
    BY <2>2, <2>4, <2>5 DEF LastOf
  <2>7. \A a \in LastOf(doc', s) : a = b
    BY <2>6 DEF LastOf, DuplicateAttempt, SameKey
  <2>8. Latest(doc', s) = b.disp
    BY <2>5, <2>6, <2>7, LatestIs
  <2> QED
    BY <2>2, <2>8 DEF Scored, RowScored
<1> QED
  BY <1>4, <1>5

LEMMA LedgerNext == IInv /\ DnfInv /\ StableInv /\ OwnInv /\ LedgerInv /\ RecordsStep => LedgerInv'
<1> SUFFICES ASSUME IInv, DnfInv, StableInv, OwnInv, LedgerInv, RecordsStep PROVE LedgerInv'
  OBVIOUS
<1> DEFINE Behind(d) == \A x \in CountedRows(d) \cup {a \in d.att : a.rindex > 0}, s \in Slots :
                          s < x.slot => s \in Scored(d)
           Backed(d) == \A a \in Decided(d) : a.disp \notin Rejecting => \E r \in CountedRows(d) : SameKey(r, a)
<1>1. LedgerInv' <=>
        /\ Backed(doc')
        /\ Running(doc') =>
             /\ \A x \in CountedRows(doc') : x.slot \in Inv'.expect => x.rindex < Inv'.rindex
             /\ \A a \in doc'.att \ Own' : a.slot \in Inv'.expect => a.rindex < Inv'.rindex \/ a.rindex = Inv'.rindex
             /\ \A e \in Inv'.expect, s \in Slots \ Inv'.expect : s < e => s \in Scored(doc')
             /\ Inv'.rindex > 0 => \A e \in Inv'.expect : Inv'.expect = {e}
        /\ DuplicateAttempt(doc') \/ Behind(doc')
  BY Primes DEF LedgerInv, DuplicateAttempt, SameKey, CountedRows, Decided, Running, Counted
<1>2. /\ Backed(doc)
      /\ Running(doc) =>
           /\ \A x \in CountedRows(doc) : x.slot \in Inv.expect => x.rindex < Inv.rindex
           /\ \A a \in doc.att \ Own : a.slot \in Inv.expect => a.rindex < Inv.rindex \/ a.rindex = Inv.rindex
           /\ \A e \in Inv.expect, s \in Slots \ Inv.expect : s < e => s \in Scored(doc)
           /\ Inv.rindex > 0 => \A e \in Inv.expect : Inv.expect = {e}
  BY DEF LedgerInv
<1>3. DuplicateAttempt(doc) \/ Behind(doc)
  BY DEF LedgerInv
<1>4. doc'.gen = doc.gen => \A s \in Scored(doc) : s \in Scored(doc')
  BY ScoreKept DEF SameScore
<1>5. ~LoadRestarted /\ DuplicateAttempt(doc) => DuplicateAttempt(doc')
  BY DuplicatesStay
<1>6. ASSUME doc'.gen = doc.gen, CountedRows(doc') = CountedRows(doc), doc'.att \subseteq doc.att, ~LoadRestarted
      PROVE  DuplicateAttempt(doc') \/ Behind(doc')
  BY <1>3, <1>4, <1>5, <1>6
<1>7. CASE RecordsKept \/ RowSettled
  <2>1. doc'.invs = doc.invs /\ doc'.att = doc.att /\ doc'.gen = doc.gen /\ ~LoadRestarted
    BY <1>7 DEF RecordsKept, RowSettled, LoadRestarted, IInv, TypeOK, DocOK
  <2>2. CountedRows(doc') = CountedRows(doc) /\ Decided(doc') = Decided(doc)
    BY <2>1, SameRecords
  <2>3. Inv' = Inv /\ Own' = Own /\ (Running(doc') <=> Running(doc))
    BY <2>1 DEF Inv, Own, Cur, Running
  <2>4. DuplicateAttempt(doc') \/ Behind(doc')
    BY <1>6, <2>1, <2>2
  <2> HIDE DEF Behind
  <2> QED
    BY <1>1, <1>2, <1>4, <2>1, <2>2, <2>3, <2>4
<1>8. CASE InvocationAdded
  <2>1. CountedRows(doc') = CountedRows(doc) /\ Decided(doc') = Decided(doc)
    BY <1>8, AddedRecords
  <2>2. doc'.att = doc.att /\ doc'.gen = doc.gen /\ ~LoadRestarted
    BY <1>8 DEF InvocationAdded, LoadRestarted, IInv, TypeOK, DocOK
  <2>3. Inv' = NextInvocation
    BY <1>8, AddedInvocation DEF Inv, Cur
  <2>4. DuplicateAttempt(doc') \/ Behind(doc')
    BY <1>6, <2>1, <2>2
  <2>5. /\ \A x \in CountedRows(doc') : x.slot \in Inv'.expect => x.rindex < Inv'.rindex
        /\ \A a \in doc'.att \ Own' : a.slot \in Inv'.expect => a.rindex < Inv'.rindex \/ a.rindex = Inv'.rindex
        /\ \A e \in Inv'.expect, s \in Slots \ Inv'.expect : s < e => s \in Scored(doc')
        /\ Inv'.rindex > 0 => \A e \in Inv'.expect : Inv'.expect = {e}
    BY <1>4, <1>8, <2>1, <2>2, <2>3, LaunchesInOrder
  <2> HIDE DEF Behind
  <2> QED
    BY <1>1, <1>2, <2>1, <2>4, <2>5
<1>9. CASE VerdictAdded
  <2>1. PICK a \in Attempts : a.inv = Cur /\ a.slot \in Inv.expect /\ a.rindex = Inv.rindex
                              /\ doc'.att = doc.att \cup {a}
    BY <1>9 DEF VerdictAdded
  <2>2. Running(doc) /\ doc'.invs = doc.invs /\ Inv' = Inv /\ Cur' = Cur /\ doc'.gen = doc.gen /\ ~LoadRestarted
    BY <1>9 DEF VerdictAdded, Inv, Cur, LoadRestarted, IInv, TypeOK, DocOK
  <2>3. /\ CountedRows(doc') = CountedRows(doc)
        /\ Decided(doc') = Decided(doc) \cup (IF a.disp \in Rejecting THEN {a} ELSE {})
    BY <2>1, <2>2, VerdictDecided
  <2>4. Own' = Own \cup {a}
    BY <2>1, <2>2 DEF Own
  <2>5. Backed(doc')
    BY <1>2, <2>3
  <2>6. ASSUME a.rindex > 0, NEW s \in Slots, s < a.slot PROVE s \in Scored(doc')
    <3>1. Inv.expect = {a.slot}
      BY <1>2, <2>1, <2>2, <2>6
    <3>2. s \notin Inv.expect
      BY <2>6, <3>1, SlotsFinite
    <3> QED
      BY <1>2, <1>4, <2>1, <2>2, <2>6, <3>2
  <2>7. Behind(doc) => Behind(doc')
    BY <1>4, <2>1, <2>2, <2>3, <2>6
  <2> HIDE DEF Behind, Backed
  <2> QED
    BY <1>1, <1>2, <1>3, <1>4, <1>5, <2>1, <2>2, <2>3, <2>4, <2>5, <2>7
<1>10. CASE InvocationCounted
  <2> DEFINE new == {[inv |-> Cur, slot |-> s, rindex |-> Inv.rindex] : s \in files.rows}
  <2>1. CountedRows(doc') = CountedRows(doc) \cup new /\ Decided(doc') = doc.att /\ doc'.att = doc.att
        /\ \A a \in doc.att \ Own : a \in Decided(doc)
    BY <1>10, CountedAdds
  <2>2. Running(doc) /\ ~Running(doc') /\ doc'.gen = doc.gen /\ ~LoadRestarted
    BY <1>10, Over DEF InvocationCounted, LoadRestarted, IInv, TypeOK, DocOK
  <2>3. ASSUME NEW a \in doc.att, a.disp \notin Rejecting
        PROVE  \E r \in CountedRows(doc') : SameKey(r, a)
    <3>1. CASE a \in Own
      <4>1. a.slot \in files.rows /\ a.rindex = Inv.rindex
        BY <2>2, <3>1 DEF OwnInv, IInv, BarrierInv
      <4>2. [inv |-> Cur, slot |-> a.slot, rindex |-> Inv.rindex] \in new
        BY <4>1
      <4> QED
        BY <2>1, <4>1, <4>2 DEF SameKey
    <3>2. CASE a \notin Own
      BY <1>2, <2>1, <2>3, <3>2
    <3> QED
      BY <3>1, <3>2
  <2>4. ~DuplicateAttempt(doc') => Behind(doc')
    <3> SUFFICES ASSUME ~DuplicateAttempt(doc'),
                        NEW x \in CountedRows(doc') \cup {a \in doc'.att : a.rindex > 0},
                        NEW s \in Slots, s < x.slot
                 PROVE  s \in Scored(doc')
      OBVIOUS
    <3>1. CASE x \in new
      BY <1>10, <3>1, CountedInOrder
    <3>2. CASE x \notin new
      <4>1. x \in CountedRows(doc) \cup {a \in doc.att : a.rindex > 0}
        BY <2>1, <3>2
      <4>2. ~DuplicateAttempt(doc)
        BY <1>5, <2>2
      <4> QED
        BY <1>3, <1>4, <2>2, <4>1, <4>2
    <3> QED
      BY <3>1, <3>2
  <2>5. Backed(doc')
    BY <2>1, <2>3
  <2> HIDE DEF Behind, Backed
  <2> QED
    BY <1>1, <2>2, <2>4, <2>5
<1>11. CASE InvocationRemoved
  <2>1. CountedRows(doc') = CountedRows(doc) /\ Decided(doc') = Decided(doc)
    BY <1>11, RemovalKeepsRecords
  <2>2. doc'.att \subseteq doc.att /\ ~Running(doc') /\ doc'.gen = doc.gen /\ ~LoadRestarted
    BY <1>11, Over DEF InvocationRemoved, LoadRestarted, IInv, TypeOK, DocOK
  <2>3. DuplicateAttempt(doc') \/ Behind(doc')
    BY <1>6, <2>1, <2>2
  <2> HIDE DEF Behind
  <2> QED
    BY <1>1, <1>2, <2>1, <2>2, <2>3
<1>12. CASE AttemptsFilled
  <2>1. CountedRows(doc') = CountedRows(doc) /\ ~Running(doc') /\ doc'.gen = doc.gen /\ ~LoadRestarted
    BY <1>12, FilledRows, FilledAttempts, Over DEF AttemptsFilled, Running, LoadRestarted, IInv, TypeOK, DocOK
  <2>2. PICK new \in SUBSET [inv : {Cur}, slot : files.rows, rindex : {Inv.rindex}, disp : {"accepted"}] :
          /\ doc'.att = doc.att \cup new /\ Decided(doc') = Decided(doc) \cup new
          /\ \A n \in new : \E r \in CountedRows(doc) : SameKey(r, n)
    BY <1>12, FilledRows
  <2>3. Backed(doc')
    BY <1>2, <2>1, <2>2
  <2>4. Behind(doc) => Behind(doc')
    <3> SUFFICES ASSUME Behind(doc), NEW x \in CountedRows(doc') \cup {a \in doc'.att : a.rindex > 0},
                        NEW s \in Slots, s < x.slot
                 PROVE  s \in Scored(doc)
      BY <1>4, <2>1
    <3>1. CASE x \in new
      BY <2>2, <3>1 DEF SameKey
    <3>2. CASE x \notin new
      BY <2>1, <2>2, <3>2
    <3> QED
      BY <3>1, <3>2
  <2> HIDE DEF Behind, Backed
  <2> QED
    BY <1>1, <1>3, <1>5, <2>1, <2>3, <2>4
<1>13. CASE LoadRestarted
  <2>1. doc'.att = {} /\ CountedRows(doc') = {} /\ Decided(doc') = {} /\ ~Running(doc')
    BY <1>13 DEF LoadRestarted, CountedRows, Decided, Running
  <2> QED
    BY <1>1, <2>1
<1> QED
  BY <1>7, <1>8, <1>9, <1>10, <1>11, <1>12, <1>13 DEF RecordsStep

OpenSlot == [kind |-> "open", inv |-> 0, rindex |-> 0]

LEMMA OutcomePrimes == \A s : Outcome(doc, s)' = Outcome(doc', s)
BY Primes DEF Outcome, Source, RIndices, CountedRows, Decided, Counted, Largest

LEMMA OutcomeSame ==
  ASSUME NEW s, Of(CountedRows(doc'), s) = Of(CountedRows(doc), s), Of(Decided(doc'), s) = Of(Decided(doc), s),
         s \in doc'.dnf <=> s \in doc.dnf
  PROVE  Outcome(doc', s) = Outcome(doc, s)
<1>1. RIndices(doc', s) = RIndices(doc, s)
  BY IndicesSame
<1>2. Latest(doc', s) = Latest(doc, s)
  BY LatestSame
<1>3. Source(doc', s) = Source(doc, s)
  BY <1>1, SourceSame
<1>4. s \in Scored(doc') <=> s \in Scored(doc)
  BY <1>2 DEF Scored, RowScored
<1> QED
  BY <1>3, <1>4 DEF Outcome

LEMMA UnscoredIsOpen ==
  ASSUME NEW d, NEW s, Unscored(d, s), s \notin d.dnf
  PROVE  Outcome(d, s) = OpenSlot
BY UnscoredIsNotScored DEF Outcome, Scored, OpenSlot

(* The row of a scored slot is one that counts.                            *)
LEMMA ScoredFromRow ==
  ASSUME IInv, DnfInv, LedgerInv, NEW s \in RowScored(doc)
  PROVE  /\ s \notin doc.dnf
         /\ \E r \in CountedRows(doc) : /\ r.slot = s /\ r.rindex = Largest(RIndices(doc, s))
                                        /\ Outcome(doc, s) = [kind |-> "row", inv |-> r.inv, rindex |-> r.rindex]
<1>1. s \notin doc.dnf
  BY DEF DnfInv
<1> DEFINE k == Largest(RIndices(doc, s))
           row == CHOOSE x \in CountedRows(doc) : x.slot = s /\ x.rindex = k
<1>2. \E r \in CountedRows(doc) : r.slot = s /\ r.rindex = k
  BY RowOfScored DEF LedgerInv
<1> HIDE DEF k
<1>3. row \in CountedRows(doc) /\ row.slot = s /\ row.rindex = k
  BY <1>2
<1>4. Source(doc, s) = [inv |-> row.inv, rindex |-> row.rindex]
  BY <1>1 DEF Source, k
<1> HIDE DEF row
<1>5. Outcome(doc, s) = [kind |-> "row", inv |-> row.inv, rindex |-> row.rindex]
  BY <1>1, <1>4 DEF Outcome, Scored
<1> QED
  BY <1>1, <1>3, <1>5 DEF k

OutcomeInv == DnfInv /\ StableInv /\ OwnInv /\ LedgerInv

LEMMA OutcomesKept ==
  ASSUME CountedRows(doc') = CountedRows(doc), Decided(doc') = Decided(doc), doc'.dnf = doc.dnf
  PROVE  \A s : Outcome(doc', s) = Outcome(doc, s)
BY OutcomeSame DEF Of

(* A rejected item of the running invocation was open and stays open.      *)
LEMMA VerdictKeepsOutcomes ==
  ASSUME IInv, OutcomeInv, VerdictAdded
  PROVE  \A s : Outcome(doc', s) = Outcome(doc, s)
<1>1. PICK a \in Attempts : a.inv = Cur /\ a.slot \in Inv.expect /\ doc'.att = doc.att \cup {a}
  BY DEF VerdictAdded
<1>2. Running(doc) /\ doc'.invs = doc.invs /\ doc'.dnf = doc.dnf
  BY DEF VerdictAdded
<1>3. /\ CountedRows(doc') = CountedRows(doc)
      /\ Decided(doc') = Decided(doc) \cup (IF a.disp \in Rejecting THEN {a} ELSE {})
  BY <1>1, <1>2, VerdictDecided
<1>4. CASE a.disp \notin Rejecting
  BY <1>2, <1>3, <1>4, OutcomesKept
<1>5. ASSUME NEW s, s # a.slot PROVE Outcome(doc', s) = Outcome(doc, s)
  BY <1>2, <1>3, <1>5, OutcomeSame DEF Of
<1>6. CASE a.disp \in Rejecting
  <2>1. Unscored(doc, a.slot) /\ a.slot \notin doc.dnf
    BY <1>1, <1>2 DEF OutcomeInv, StableInv, DnfInv
  <2>2. Unscored(doc', a.slot)
    BY <1>3, <1>6, <2>1, RejectionKeepsUnscored
  <2>3. Outcome(doc', a.slot) = Outcome(doc, a.slot)
    BY <1>2, <2>1, <2>2, UnscoredIsOpen
  <2> QED
    BY <1>5, <2>3
<1> QED
  BY <1>4, <1>6

(* The rows of an invocation that counts are the outcome of slots of its   *)
(* list that were open ...                                                 *)
LEMMA CountedOutcome ==
  ASSUME IInv, OutcomeInv, InvocationCounted, NEW s
  PROVE  \/ Outcome(doc', s) = Outcome(doc, s)
         \/ /\ Outcome(doc, s) = OpenSlot
            /\ Outcome(doc', s) = [kind |-> "row", inv |-> Cur, rindex |-> Inv.rindex]
<1>1. Running(doc) /\ doc'.dnf = doc.dnf
  BY DEF InvocationCounted
<1>2. CASE s \notin Inv.expect
  BY <1>1, <1>2, EndKeepsOthers, OutcomeSame DEF OutcomeInv
<1>3. CASE s \in Inv.expect
  <2>1. Outcome(doc, s) = OpenSlot /\ s \notin doc'.dnf
    BY <1>1, <1>3, UnscoredIsOpen DEF OutcomeInv, StableInv, DnfInv
  <2>2. /\ CountedRows(doc') = CountedRows(doc) \cup
              {[inv |-> Cur, slot |-> t, rindex |-> Inv.rindex] : t \in files.rows}
        /\ Decided(doc') = doc.att /\ \A a \in doc.att \ Own : a \in Decided(doc)
    BY CountedAdds
  <2>3. CASE s \notin files.rows
    <3>1. \A a \in Own : a.slot # s
      BY <1>1, <2>3 DEF OutcomeInv, OwnInv, IInv, BarrierInv
    <3>2. Of(CountedRows(doc'), s) = Of(CountedRows(doc), s)
      BY <2>2, <2>3 DEF Of
    <3>3. Of(Decided(doc'), s) = Of(Decided(doc), s)
      <4>1. Decided(doc) \subseteq doc.att
        BY DEF Decided
      <4> QED
        BY <2>2, <3>1, <4>1 DEF Of
    <3> QED
      BY <1>1, <3>2, <3>3, OutcomeSame
  <2>4. CASE s \in files.rows /\ s \notin Scored(doc')
    BY <2>1, <2>4 DEF Outcome, OpenSlot
  <2>5. CASE s \in files.rows /\ s \in Scored(doc')
    <3> DEFINE k == Inv.rindex
               new == [inv |-> Cur, slot |-> s, rindex |-> k]
    <3>1. Largest(RIndices(doc', s)) = k
      <4>1. \A x \in CountedRows(doc) \cup (doc.att \ Own) : x.slot = s => x.rindex < k \/ x.rindex = k
        BY <1>1, <1>3 DEF OutcomeInv, LedgerInv
      <4> QED
        BY <2>5, <4>1, LastIndexCounted DEF OutcomeInv
    <3>2. \A r \in CountedRows(doc') : r.slot = s /\ r.rindex = k => r = new
      <4>1. k \in Nat
        BY <1>1, Current, BoundsAssumption DEF IInv, Invocations
      <4>2. \A r \in CountedRows(doc) : r.slot = s => r.rindex < k
        BY <1>1, <1>3 DEF OutcomeInv, LedgerInv
      <4>3. \A r \in CountedRows(doc) : r.slot = s => r.rindex # k
        BY <4>1, <4>2
      <4> QED
        BY <2>2, <4>3
    <3>3. new \in CountedRows(doc') /\ new.slot = s /\ new.rindex = k /\ new.inv = Cur
      BY <2>2, <2>5
    <3> HIDE DEF k, new
    <3>4. (CHOOSE r \in CountedRows(doc') : r.slot = s /\ r.rindex = k) = new
      BY <3>2, <3>3
    <3>5. Source(doc', s) = [inv |-> Cur, rindex |-> k]
      BY <2>1, <3>1, <3>3, <3>4 DEF Source
    <3> QED
      BY <2>1, <2>5, <3>5 DEF Outcome, k
  <2> QED
    BY <2>3, <2>4, <2>5
<1> QED
  BY <1>2, <1>3

(* ... and it is later than every outcome so far.                          *)
LEMMA EarlierOutcomes ==
  ASSUME IInv, OutcomeInv, Running(doc), NEW s \in Slots
  PROVE  Outcome(doc, s).inv < Cur
<1>1. Cur \in Nat /\ Cur > 0 /\ Inv.status = "running"
  BY Current DEF IInv, Cur
<1>2. CASE s \notin Scored(doc)
  BY <1>1, <1>2 DEF Outcome
<1>3. CASE s \in doc.dnf
  <2>1. Source(doc, s) = [inv |-> 0, rindex |-> 0]
    BY <1>3 DEF Source
  <2>2. Outcome(doc, s).inv = 0
    BY <1>3, <2>1 DEF Outcome, Scored
  <2> QED
    BY <1>1, <2>2
<1>4. CASE s \in RowScored(doc)
  <2>1. PICK r \in CountedRows(doc) : Outcome(doc, s) = [kind |-> "row", inv |-> r.inv, rindex |-> r.rindex]
    BY <1>4, ScoredFromRow DEF OutcomeInv
  <2>2. r.inv \in 1..Len(doc.invs) /\ doc.invs[r.inv].status \in Counted
    BY DEF CountedRows
  <2>3. r.inv # Cur
    BY <1>1, <2>2 DEF Inv, Counted
  <2> QED
    BY <1>1, <2>1, <2>2, <2>3 DEF Cur
<1> QED
  BY <1>2, <1>3, <1>4 DEF Scored

(* What a step does to the outcomes of the load generation.                *)
RowsSettled ==
  \E i \in Nat, r \in Nat :
    /\ \A s \in Slots : \/ Outcome(doc', s) = Outcome(doc, s)
                        \/ /\ Outcome(doc, s) = OpenSlot
                           /\ Outcome(doc', s) = [kind |-> "row", inv |-> i, rindex |-> r]
    /\ \A s \in Slots : Outcome(doc, s).inv < i

DnfSettled ==
  \E t \in Slots :
    /\ Outcome(doc, t) = OpenSlot /\ Outcome(doc', t) = [kind |-> "dnf", inv |-> 0, rindex |-> 0]
    /\ \A s \in Slots \ {t} : Outcome(doc', s) = Outcome(doc, s)

LEMMA OutcomeStep ==
  ASSUME IInv, OutcomeInv, RecordsStep
  PROVE  \/ doc'.gen = doc.gen /\ \A s \in Slots : Outcome(doc', s) = Outcome(doc, s)
         \/ doc'.gen = doc.gen /\ (RowsSettled \/ DnfSettled)
         \/ doc'.gen = doc.gen + 1 /\ \A s \in Slots : Outcome(doc', s) = OpenSlot
<1>1. CASE RecordsKept
  <2>1. doc'.invs = doc.invs /\ doc'.att = doc.att /\ doc'.dnf = doc.dnf /\ doc'.gen = doc.gen
    BY <1>1 DEF RecordsKept
  <2> QED
    BY <2>1, SameRecords, OutcomesKept
<1>2. CASE RowSettled
  <2>1. PICK t \in Unsettled : doc'.dnf = doc.dnf \cup {t}
    BY <1>2 DEF RowSettled
  <2>2. CountedRows(doc') = CountedRows(doc) /\ Decided(doc') = Decided(doc) /\ doc'.gen = doc.gen
    BY <1>2, SameRecords DEF RowSettled
  <2>3. \A s : s # t => Outcome(doc', s) = Outcome(doc, s)
    BY <2>1, <2>2, OutcomeSame DEF Of
  <2>4. t \in Slots /\ t \notin Scored(doc)
    BY DEF Unsettled, Due
  <2>5. Source(doc', t) = [inv |-> 0, rindex |-> 0]
    BY <2>1 DEF Source
  <2>6. Outcome(doc', t) = [kind |-> "dnf", inv |-> 0, rindex |-> 0]
    BY <2>1, <2>5 DEF Outcome, Scored
  <2>7. Outcome(doc, t) = OpenSlot
    BY <2>4 DEF Outcome, OpenSlot
  <2> QED
    BY <2>2, <2>3, <2>4, <2>6, <2>7 DEF DnfSettled
<1>3. CASE InvocationAdded
  BY <1>3, AddedRecords, OutcomesKept DEF InvocationAdded
<1>4. CASE VerdictAdded
  BY <1>4, VerdictKeepsOutcomes DEF VerdictAdded
<1>5. CASE InvocationCounted
  <2>1. Running(doc) /\ doc'.gen = doc.gen
    BY <1>5 DEF InvocationCounted
  <2>2. Cur \in Nat /\ Inv.rindex \in Nat
    BY <2>1, Current, BoundsAssumption DEF IInv, Invocations, Cur
  <2>3. RowsSettled
    BY <1>5, <2>1, <2>2, CountedOutcome, EarlierOutcomes DEF RowsSettled
  <2> QED
    BY <2>1, <2>3
<1>6. CASE InvocationRemoved
  BY <1>6, RemovalKeepsRecords, OutcomesKept DEF InvocationRemoved
<1>7. CASE AttemptsFilled
  <2>1. doc'.dnf = doc.dnf /\ doc'.gen = doc.gen
    BY <1>7, FilledAttempts
  <2>2. \A s : SameScore(s) /\ Latest(doc', s) = Latest(doc, s)
    BY <1>7, FillKeepsScore DEF OutcomeInv
  <2> QED
    BY <2>1, <2>2 DEF SameScore, Outcome, Scored, RowScored
<1>8. CASE LoadRestarted
  <2>1. CountedRows(doc') = {} /\ Decided(doc') = {} /\ doc'.dnf = {}
    BY <1>8 DEF LoadRestarted, CountedRows, Decided
  <2>2. \A s : Unscored(doc', s)
    BY <2>1 DEF Unscored, RIndices
  <2> QED
    BY <1>8, <2>1, <2>2, UnscoredIsOpen DEF LoadRestarted
<1> QED
  BY <1>1, <1>2, <1>3, <1>4, <1>5, <1>6, <1>7, <1>8 DEF RecordsStep

(* The leg is done only by a launch that finds nothing to do, and nothing  *)
(* of it changes after that.                                               *)
LEMMA DoneIsLast ==
  ASSUME IInv, [Next]_vars
  PROVE  /\ chain.pc = "done" => UNCHANGED <<doc, chain>>
         /\ chain.pc # "done" /\ chain'.pc = "done" => UNCHANGED doc /\ Todo = {}
<1>1. ChainOK
  BY DEF IInv, TypeOK
<1>2. CASE ProbeStep \/ ProbeFault \/ AnswerGo \/ CancelOnStop \/ CancelIdle \/ OperatorStop \/ UNCHANGED vars
  <2>1. CASE ProbeReady \/ ProbeGo \/ ProbeStop \/ ProbeRow \/ ProbeDone
    BY <2>1 DEF ProbeReady, ProbeGo, ProbeStop, ProbeRow, ProbeDone
  <2>2. CASE ProbeContinue \/ ProbeCancelled \/ OrphanTimeout \/ ProbeExit
    BY <2>2 DEF ProbeContinue, ProbeCancelled, OrphanTimeout, ProbeExit
  <2>3. CASE ProbeFault
    BY <2>3 DEF ProbeFault, ProbeTransport, ProbeHarness, ProbeKilled
  <2>4. CASE AnswerGo \/ CancelOnStop \/ CancelIdle \/ OperatorStop \/ UNCHANGED vars
    BY <2>4 DEF AnswerGo, CancelOnStop, CancelIdle, OperatorStop, vars
  <2> QED
    BY <1>2, <2>1, <2>2, <2>3, <2>4 DEF ProbeStep
<1>3. CASE LegTop \/ WriteSidecar \/ NothingDue \/ Spawn \/ ReadDone \/ Validate \/ Recover \/ SyncSidecars
  <2>1. CASE LegTop \/ WriteSidecar \/ NothingDue \/ Spawn
    BY <1>1, <2>1 DEF LegTop, WriteSidecar, NothingDue, Spawn, ChainOK
  <2>2. CASE ReadDone \/ Validate \/ Recover \/ SyncSidecars
    BY <1>1, <2>2 DEF ReadDone, Pumping, Validate, Recover, SyncSidecars, ChainOK
  <2> QED
    BY <1>3, <2>1, <2>2
<1>4. CASE ArchiveLoad \/ Signal
  <2>1. \/ chain' = [chain EXCEPT !.pc = "leg", !.restarted = TRUE]
        \/ chain' = [chain EXCEPT !.pc = "watch", !.hook = NoHook]
        \/ chain' = [chain EXCEPT !.pc = "watch"]
    BY <1>4 DEF ArchiveLoad, Signal
  <2>2. chain'.pc \in {"leg", "watch"} /\ chain.pc \in {"archive", "signal"}
    BY <1>1, <1>4, <2>1 DEF ChainOK, ArchiveLoad, Signal
  <2> QED
    BY <2>2
<1>5. CASE Crash \/ Restart
  BY <1>5 DEF Crash, Restart
<1>6. CASE PersistPreSpawn \/ PersistVerdict
  <2>1. chain'.pc = "signal" /\ chain.pc \in {"watch", "judge"}
    <3>1. CASE PersistPreSpawn
      BY <1>1, <3>1 DEF PersistPreSpawn, Pumping, ChainOK
    <3>2. CASE PersistVerdict
      BY <1>1, <3>2 DEF PersistVerdict, ChainOK
    <3> QED
      BY <1>6, <3>1, <3>2
  <2> QED
    BY <2>1
<1>7. CASE EscalationRefused \/ Accept \/ AfterAccept \/ AfterIncident \/ ArchiveStopped
  BY <1>1, <1>7 DEF EscalationRefused, Accept, AfterAccept, AfterIncident, ArchiveStopped, ChainOK
<1>8. CASE HandleIncomplete
  BY <1>1, <1>8 DEF HandleIncomplete, RecordIncident, RestartLoad, ChainOK
<1>9. CASE WriteDnf \/ Resume
  BY <1>1, <1>9 DEF WriteDnf, Resume, ChainOK
<1>10. CASE Launch
  BY <1>1, <1>10 DEF Launch, ChainOK
<1> QED
  BY <1>2, <1>3, <1>4, <1>5, <1>6, <1>7, <1>8, <1>9, <1>10 DEF Next, ChainStep, ChainFault

LEMMA InitImplementsLedger == Init => Ledger!Init
<1> SUFFICES ASSUME Init PROVE Ledger!Init
  OBVIOUS
<1>1. CountedRows(doc) = {} /\ Decided(doc) = {} /\ doc.dnf = {} /\ doc.gen = 0 /\ chain.pc = "leg"
  BY DEF Init, CountedRows, Decided
<1>2. \A s : Unscored(doc, s)
  BY <1>1 DEF Unscored, RIndices
<1>3. \A s : Outcome(doc, s) = OpenSlot
  BY <1>1, <1>2, UnscoredIsOpen
<1> QED
  BY <1>1, <1>3 DEF Ledger!Init, Ledger!Open, OpenSlot

LEMMA StepImplementsLedger ==
  ASSUME IInv, OutcomeInv, [Next]_vars
  PROVE  [Ledger!Next]_(Ledger!lvars)
<1> DEFINE out  == [s \in Slots |-> Outcome(doc, s)]
           outP == [s \in Slots |-> Outcome(doc', s)]
           fresh == {s \in Slots : outP[s] # out[s]}
<1>1. out' = outP
  BY OutcomePrimes
<1>2. Ledger!New = fresh
  BY <1>1 DEF Ledger!New
<1>3. CASE chain.pc = "done"
  <2>1. UNCHANGED <<doc, chain>>
    BY <1>3, DoneIsLast
  <2>2. out' = out
    BY <1>1, <2>1
  <2> QED
    BY <2>1, <2>2 DEF Ledger!lvars
<1>4. CASE chain.pc # "done" /\ chain'.pc = "done"
  <2>1. UNCHANGED doc /\ Todo = {}
    BY <1>4, DoneIsLast
  <2>2. \A s \in Slots : out[s] # OpenSlot
    BY <2>1 DEF Todo, Outcome, OpenSlot
  <2>3. out' = out
    BY <1>1, <2>1
  <2> QED
    BY <1>4, <2>1, <2>2, <2>3 DEF Ledger!Next, Ledger!Complete, Ledger!Open, OpenSlot
<1>5. CASE chain.pc # "done" /\ chain'.pc # "done"
  <2>1. RecordsStep
    BY Records
  <2>2. CASE doc'.gen = doc.gen /\ \A s \in Slots : Outcome(doc', s) = Outcome(doc, s)
    <3>1. out' = out
      BY <1>1, <2>2
    <3> QED
      BY <1>5, <2>2, <3>1 DEF Ledger!lvars
  <2>3. CASE doc'.gen = doc.gen + 1 /\ \A s \in Slots : Outcome(doc', s) = OpenSlot
    <3>1. out' = [s \in Slots |-> OpenSlot]
      BY <1>1, <2>3
    <3> QED
      BY <1>5, <2>3, <3>1 DEF Ledger!Next, Ledger!StartOver, Ledger!Open, OpenSlot
  <2>4. CASE doc'.gen = doc.gen /\ DnfSettled
    <3>1. PICK t \in Slots :
            /\ Outcome(doc, t) = OpenSlot /\ Outcome(doc', t) = [kind |-> "dnf", inv |-> 0, rindex |-> 0]
            /\ \A s \in Slots \ {t} : Outcome(doc', s) = Outcome(doc, s)
      BY <2>4 DEF DnfSettled
    <3>2. fresh = {t}
      BY <3>1 DEF OpenSlot
    <3>3. out[t] = OpenSlot /\ outP[t] = [kind |-> "dnf", inv |-> 0, rindex |-> 0]
      BY <3>1
    <3> HIDE DEF out, outP, fresh
    <3>4. Ledger!GiveUp
      BY <1>1, <1>2, <3>2, <3>3 DEF Ledger!GiveUp, Ledger!Dnf, out
    <3> QED
      BY <1>2, <1>5, <2>4, <3>2, <3>3, <3>4 DEF Ledger!Next, Ledger!Settle, Ledger!Open, OpenSlot, out
  <2>5. CASE doc'.gen = doc.gen /\ RowsSettled
    <3>1. PICK i \in Nat, r \in Nat :
            /\ \A s \in Slots : \/ Outcome(doc', s) = Outcome(doc, s)
                                \/ /\ Outcome(doc, s) = OpenSlot
                                   /\ Outcome(doc', s) = [kind |-> "row", inv |-> i, rindex |-> r]
            /\ \A s \in Slots : Outcome(doc, s).inv < i
      BY <2>5 DEF RowsSettled
    <3> DEFINE row == [kind |-> "row", inv |-> i, rindex |-> r]
    <3>2. \A s \in fresh : out[s] = OpenSlot /\ outP[s] = row
      BY <3>1
    <3>3. \A s \in Slots : out[s].inv < i
      BY <3>1
    <3>4. row.inv = i /\ row.rindex = r
      OBVIOUS
    <3>5. fresh = {} => out' = out
      BY <1>1
    <3>6. fresh \subseteq Slots
      OBVIOUS
    <3>7. Ledger!Count
      <4> HIDE DEF fresh
      <4>1. \A s \in fresh : out'[s] = row
        BY <1>1, <3>2
      <4>2. \A s \in fresh : out'[s].inv = i /\ out'[s].rindex = r
        BY <3>4, <4>1
      <4> HIDE DEF out, outP
      <4> QED
        BY <1>2, <3>3, <4>1, <4>2 DEF Ledger!Count, Ledger!Row, out
    <3> HIDE DEF fresh, outP, row
    <3>8. CASE fresh = {}
      BY <1>5, <2>5, <3>5, <3>8 DEF Ledger!lvars
    <3>9. CASE fresh # {}
      BY <1>2, <1>5, <2>5, <3>2, <3>7, <3>9 DEF Ledger!Next, Ledger!Settle, Ledger!Open, OpenSlot
    <3> QED
      BY <3>8, <3>9
  <2> QED
    BY <2>1, <2>2, <2>3, <2>4, <2>5, OutcomeStep
<1> QED
  BY <1>3, <1>4, <1>5

(* Whatever the chain and its probe die of and whenever the chain resumes, *)
(* the readers of the slot table see a ledger: a slot takes one outcome    *)
(* and keeps it, from an invocation that counts as a whole and later than  *)
(* every earlier one, and the leg is complete only when no slot is open.   *)
(* That holds without a split of the faults: where the inventory does not  *)
(* load (slot_chain_sidecar, slot_chain_cheat) the leg stops with what it  *)
(* has.                                                                    *)
THEOREM LegImplementsLedger == Spec => ImplementsLedger
<1>1. Init => OutcomeInv
  BY DnfInit, StableInit, OwnInit, LedgerInit DEF OutcomeInv
<1>2. IInv /\ OutcomeInv /\ [Next]_vars => OutcomeInv'
  BY DnfNext, StableNext, OwnNext, Records, LedgerNext DEF OutcomeInv
<1>3. IInv /\ OutcomeInv /\ [Next]_vars => [Ledger!Next]_(Ledger!lvars)
  BY StepImplementsLedger
<1> QED
  BY <1>1, <1>2, <1>3, InitImplementsLedger, InductiveInvariant, PTL DEF Spec, ImplementsLedger, Ledger!Spec
=============================================================================
