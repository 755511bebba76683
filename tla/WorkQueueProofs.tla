--------------------------- MODULE WorkQueueProofs ---------------------------
(* Proofs about the work queue: no job is run twice on its own, and a STOP *)
(* lets at most one more start, for any entries, plans, edits, relaunches  *)
(* and reboots.                                                            *)
EXTENDS WorkQueue, TLAPS

Outcomes == Terminal \cup {"none", "running"}
PCs == {"read", "look", "paused", "pick", "running"} \cup Ends

TypeInv ==
  /\ plan \in Seq(Entries)
  /\ outcomes \in [Entries -> Outcomes]
  /\ runner \in [pc : PCs, plan : Seq(Entries), st : [Entries -> Outcomes],
                 job : Entries \cup {"none"}, ran : Nat]
  /\ over \subseteq Entries
  /\ runner.pc = "running" => runner.job \in Entries
  /\ skip \in Entries \cup {"next", "none"}

(* An entry that is over has an outcome in the state file, or is one that  *)
(* the plan says is done.                                                  *)
Settled(st, n) == st[n] \in Terminal \/ (n \in Inline /\ st[n] = "none")
KnownInv == \A n \in over : Settled(outcomes, n)

(* The same of the state the runner has read, where what the plan says was *)
(* taken in: an entry of the plan that is over is not pending.             *)
Reads(n) ==
  \/ runner.st[n] \in Terminal
  \/ n \in Inline \ ToSet(runner.plan) /\ runner.st[n] = "none"
ReadInv == runner.pc \in {"look", "pick", "paused"} => \A n \in over : Reads(n)

(* A job that started in spite of a STOP is the only one, and the runner   *)
(* has to look again before the next.                                      *)
StopInv ==
  \/ sinceStop = 0
  \/ sinceStop = 1 /\ "STOP" \in drops /\ runner.pc \notin {"pick", "paused"}

QueueInv == TypeInv /\ KnownInv /\ ReadInv /\ StopInv

-----------------------------------------------------------------------------
LEMMA LoadTyped ==
  ASSUME TypeInv, NEW p \in Seq(Entries)
  PROVE  LoadState(p) \in [Entries -> Outcomes]
BY DEF TypeInv, LoadState, Outcomes, Terminal

(* Reading takes in what the plan says, and keeps the rest.                *)
LEMMA LoadSettles ==
  ASSUME TypeInv, KnownInv, NEW p \in Seq(Entries), NEW n \in over
  PROVE  \/ LoadState(p)[n] \in Terminal
         \/ n \in Inline \ ToSet(p) /\ LoadState(p)[n] = "none"
BY DEF TypeInv, KnownInv, Settled, LoadState, Terminal

(* What the runner takes up is an entry of its plan that is not over.      *)
LEMMA PendingIsNotOver ==
  ASSUME TypeInv, ReadInv, runner.pc \in {"look", "pick", "paused"}, NEW n \in Named(Pending)
  PROVE  n \in Entries /\ n \notin over
<1>1. PICK i \in DOMAIN runner.plan : n = runner.plan[i] /\ runner.st[n] \notin Terminal
  BY DEF Named, Pending
<1>2. n \in Entries /\ n \in ToSet(runner.plan)
  <2>1. runner.plan \in Seq(Entries)
    BY DEF TypeInv
  <2> QED
    BY <1>1, <2>1 DEF ToSet
<1> QED
  BY <1>1, <1>2 DEF ReadInv, Reads

LEMMA NextIsPending == NextJob \subseteq Named(Pending)
BY DEF NextJob, Named

LEMMA SkipTargetIsPending == SkipTarget \subseteq Named(Pending)
BY NextIsPending DEF SkipTarget

LEMMA InitQueueInv == QueueInit => QueueInv
<1> SUFFICES ASSUME QueueInit PROVE QueueInv
  OBVIOUS
<1>1. Nothing \in [Entries -> Outcomes] /\ <<>> \in Seq(Entries)
  BY DEF Nothing, Outcomes
<1>2. TypeInv
  BY <1>1, QueueAssumption DEF QueueInit, TypeInv, Idle, PCs, Ends
<1>3. KnownInv
  BY QueueAssumption DEF QueueInit, KnownInv, Settled, Nothing
<1>4. ReadInv /\ StopInv
  <2>1. runner.pc = "read"
    BY DEF QueueInit, Idle
  <2> QED
    BY <2>1 DEF QueueInit, ReadInv, StopInv
<1> QED
  BY <1>2, <1>3, <1>4 DEF QueueInv

(* The runner writes the state it has read, with an outcome of an entry    *)
(* that is not over.                                                       *)
LEMMA SaveKeeps ==
  ASSUME QueueInv, runner.pc \in {"look", "pick"}, NEW n \in Named(Pending),
         NEW outcome \in {"skipped", "failed"}, Save(runner.st, n, outcome, "read"),
         over' = over \cup {n}
  PROVE  over' \subseteq Entries /\ KnownInv' /\ outcomes' \in [Entries -> Outcomes]
<1>1. n \in Entries /\ n \notin over
  BY PendingIsNotOver DEF QueueInv
<1>2. outcomes' = [runner.st EXCEPT ![n] = outcome] /\ outcome \in Terminal
  BY DEF Save, Terminal
<1>3. runner.st \in [Entries -> Outcomes] /\ over \subseteq Entries
  BY DEF QueueInv, TypeInv
<1>4. outcomes' \in [Entries -> Outcomes]
  BY <1>1, <1>2, <1>3 DEF Outcomes
<1>5. \A k \in over : Settled(runner.st, k)
  BY DEF QueueInv, ReadInv, Reads, Settled
<1>6. ASSUME NEW k \in over' PROVE Settled(outcomes', k)
  <2>1. CASE k = n
    <3>1. outcomes'[k] = outcome
      BY <1>1, <1>2, <1>3, <2>1
    <3> QED
      BY <1>2, <3>1 DEF Settled
  <2>2. CASE k # n
    <3>1. k \in over /\ k \in Entries /\ outcomes'[k] = runner.st[k]
      BY <1>1, <1>2, <1>3, <2>2
    <3> QED
      BY <1>5, <3>1 DEF Settled
  <2> QED
    BY <2>1, <2>2
<1> QED
  BY <1>1, <1>3, <1>4, <1>6 DEF KnownInv, Settled

LEMMA StepKeepsQueueInv == QueueInv /\ [QueueNext]_queueVars => QueueInv'
<1> SUFFICES ASSUME QueueInv, [QueueNext]_queueVars PROVE QueueInv'
  OBVIOUS
<1> USE DEF QueueInv
<1>1. CASE ReadQueue
  <2>1. plan \in Seq(Entries) /\ LoadState(plan) \in [Entries -> Outcomes]
    BY LoadTyped DEF TypeInv
  <2>2. \A n \in over : \/ LoadState(plan)[n] \in Terminal
                        \/ n \in Inline \ ToSet(plan) /\ LoadState(plan)[n] = "none"
    BY <2>1, LoadSettles
  <2>3. TypeInv'
    BY <1>1, <2>1 DEF ReadQueue, Holds, KeepQueue, GoOn, TypeInv, PCs, Ends
  <2>4. KnownInv'
    BY <1>1 DEF ReadQueue, KnownInv, Settled
  <2>5. CASE runner' = [runner EXCEPT !.pc = "look", !.plan = plan, !.st = LoadState(plan)]
    <3>1. runner'.pc = "look" /\ runner'.plan = plan /\ runner'.st = LoadState(plan) /\ over' = over
      BY <1>1, <2>5 DEF ReadQueue, TypeInv
    <3>2. ToSet(runner'.plan) = ToSet(plan)
      BY <3>1
    <3>3. \A n \in over' : \/ runner'.st[n] \in Terminal
                           \/ n \in Inline \ ToSet(runner'.plan) /\ runner'.st[n] = "none"
      BY <2>2, <3>1, <3>2
    <3>4. ReadInv'
      BY <3>3 DEF ReadInv, Reads
    <3> QED
      BY <1>1, <2>3, <2>4, <3>1, <3>4 DEF StopInv, ReadQueue
  <2>6. CASE runner' = [runner EXCEPT !.pc = "capped"]
    <3>1. runner'.pc = "capped"
      BY <2>6 DEF TypeInv
    <3> QED
      BY <1>1, <2>3, <2>4, <3>1 DEF ReadInv, StopInv, ReadQueue
  <2> QED
    BY <1>1, <2>5, <2>6 DEF ReadQueue, GoOn
<1>2. CASE StopSeen
  BY <1>2 DEF StopSeen, Holds, KeepQueue, GoOn, TypeInv, KnownInv, Settled, ReadInv, StopInv, PCs, Ends
<1>3. CASE SkipSeen
  <2>1. CASE SkipTarget = {} /\ GoOn("pick") /\ UNCHANGED <<outcomes, over>>
    <3>1. TypeInv' /\ KnownInv'
      BY <1>3, <2>1 DEF SkipSeen, Holds, KeepQueue, GoOn, TypeInv, KnownInv, Settled, PCs
    <3>2. ReadInv' /\ StopInv'
      BY <1>3, <2>1 DEF SkipSeen, Holds, KeepQueue, GoOn, TypeInv, ReadInv, Reads, StopInv
    <3> QED
      BY <3>1, <3>2
  <2>2. ASSUME NEW n \in SkipTarget, Save(runner.st, n, "skipped", "read"), over' = over \cup {n}
        PROVE  QueueInv'
    <3>1. over' \subseteq Entries /\ KnownInv' /\ outcomes' \in [Entries -> Outcomes]
      BY <1>3, <2>2, SkipTargetIsPending, SaveKeeps DEF SkipSeen, Holds
    <3>2. TypeInv'
      BY <1>3, <2>2, <3>1 DEF SkipSeen, Holds, KeepQueue, Save, TypeInv, PCs
    <3> QED
      BY <1>3, <2>2, <3>1, <3>2 DEF SkipSeen, Holds, Save, TypeInv, ReadInv, StopInv
  <2> QED
    BY <1>3, <2>1, <2>2 DEF SkipSeen
<1>4. CASE PauseSeen \/ NothingDropped \/ PauseLifted \/ Drained
  <2>1. PICK pc \in {"paused", "pick", "drained"} :
          /\ runner' = [runner EXCEPT !.pc = pc]
          /\ runner.pc \in {"look", "pick", "paused"}
          /\ UNCHANGED <<plan, outcomes, drops, skip, over, sinceStop>>
    BY <1>4 DEF PauseSeen, NothingDropped, PauseLifted, Drained, Holds, KeepQueue, GoOn
  <2>2. TypeInv' /\ KnownInv'
    BY <2>1 DEF TypeInv, KnownInv, Settled, PCs, Ends
  <2>3. ReadInv'
    BY <2>1 DEF TypeInv, ReadInv, Reads
  <2>4. StopInv'
    BY <1>4 DEF PauseSeen, NothingDropped, PauseLifted, Drained, Holds, GoOn, TypeInv, StopInv
  <2> QED
    BY <2>2, <2>3, <2>4
<1>5. CASE Refuse
  <2>1. PICK n \in NextJob : Save(runner.st, n, "failed", "read") /\ over' = over \cup {n}
    BY <1>5 DEF Refuse
  <2>2. over' \subseteq Entries /\ KnownInv' /\ outcomes' \in [Entries -> Outcomes]
    BY <1>5, <2>1, NextIsPending, SaveKeeps DEF Refuse, Holds
  <2>3. TypeInv'
    BY <1>5, <2>1, <2>2 DEF Refuse, Holds, KeepQueue, Save, TypeInv, PCs
  <2> QED
    BY <1>5, <2>1, <2>2, <2>3 DEF Refuse, Holds, Save, TypeInv, ReadInv, StopInv
<1>6. CASE StartJob
  <2>1. PICK n \in NextJob : /\ outcomes' = [runner.st EXCEPT ![n] = "running"]
                             /\ runner' = [runner EXCEPT !.pc = "running", !.job = n]
    BY <1>6 DEF StartJob
  <2>2. n \in Entries /\ n \notin over /\ over' = over
    BY <1>6, NextIsPending, PendingIsNotOver DEF StartJob, Holds
  <2>3. TypeInv'
    BY <1>6, <2>1, <2>2 DEF StartJob, Holds, KeepQueue, TypeInv, PCs, Outcomes
  <2>4. ASSUME NEW k \in over' PROVE Settled(outcomes', k)
    <3>1. k \in Entries /\ outcomes'[k] = runner.st[k]
      BY <2>1, <2>2, <2>4 DEF TypeInv
    <3> QED
      BY <1>6, <2>2, <2>4, <3>1 DEF StartJob, Holds, ReadInv, Reads, Settled
  <2>5. runner'.pc = "running"
    BY <2>1 DEF TypeInv
  <2>6. sinceStop = 0
    BY <1>6 DEF StartJob, Holds, StopInv
  <2> QED
    BY <1>6, <2>3, <2>4, <2>5, <2>6 DEF StartJob, KnownInv, Settled, ReadInv, StopInv
<1>7. CASE JobEnds
  <2>1. runner.job \in Entries /\ runner.plan \in Seq(Entries)
    BY <1>7 DEF JobEnds, Holds, TypeInv
  <2>2. PICK outcome \in {"done", "failed"} :
          outcomes' = [LoadState(runner.plan) EXCEPT ![runner.job] = outcome]
    BY <1>7 DEF JobEnds, Ended
  <2>3. /\ runner' = [runner EXCEPT !.pc = "read", !.ran = @ + 1]
        /\ over' = over \cup {runner.job}
        /\ UNCHANGED <<plan, drops, skip, sinceStop>>
    BY <1>7 DEF JobEnds, Ended, Holds, KeepQueue
  <2>4. LoadState(runner.plan) \in [Entries -> Outcomes]
    BY <2>1, LoadTyped
  <2>5. TypeInv'
    <3>1. outcomes' \in [Entries -> Outcomes]
      <4>1. outcome \in Outcomes
        BY DEF Outcomes, Terminal
      <4> QED
        BY <2>1, <2>2, <2>4, <4>1
    <3>2. /\ runner' \in [pc : PCs, plan : Seq(Entries), st : [Entries -> Outcomes],
                          job : Entries \cup {"none"}, ran : Nat]
          /\ runner'.pc = "read"
      <4>1. runner.ran + 1 \in Nat
        BY DEF TypeInv
      <4>2. "read" \in PCs
        BY DEF PCs
      <4> QED
        BY <2>3, <4>1, <4>2 DEF TypeInv
    <3> QED
      BY <2>1, <2>3, <3>1, <3>2 DEF TypeInv
  <2>6. ASSUME NEW k \in over' PROVE Settled(outcomes', k)
    <3>1. CASE k = runner.job
      <4>1. outcomes'[k] = outcome
        BY <2>1, <2>2, <2>4, <3>1
      <4> QED
        BY <4>1 DEF Settled, Terminal
    <3>2. CASE k # runner.job
      <4>1. k \in over
        BY <2>3, <2>6, <3>2
      <4>2. k \in Entries /\ outcomes'[k] = LoadState(runner.plan)[k]
        BY <2>2, <2>4, <3>2, <4>1 DEF TypeInv
      <4> QED
        <5>1. \/ LoadState(runner.plan)[k] \in Terminal
              \/ k \in Inline /\ LoadState(runner.plan)[k] = "none"
          BY <2>1, <4>1, LoadSettles
        <5> QED
          BY <4>2, <5>1 DEF Settled
    <3> QED
      BY <3>1, <3>2
  <2>7. runner'.pc = "read"
    BY <2>3 DEF TypeInv
  <2> QED
    BY <2>3, <2>5, <2>6, <2>7 DEF KnownInv, Settled, ReadInv, StopInv
<1>8. CASE Reboot
  <2>1. runner' = [Idle EXCEPT !.pc = "down"] /\ UNCHANGED <<plan, drops, skip, sinceStop>>
    BY <1>8 DEF Reboot
  <2>2. runner'.pc = "down" /\ Nothing \in [Entries -> Outcomes] /\ <<>> \in Seq(Entries)
    BY <2>1 DEF Idle, Nothing, Outcomes
  <2>3. CASE UNCHANGED <<outcomes, over>>
    BY <2>1, <2>2, <2>3 DEF TypeInv, KnownInv, Settled, ReadInv, StopInv, PCs, Ends, Idle
  <2>4. CASE outcomes' = Nothing /\ over' = Inline
    <3>1. TypeInv'
      BY <2>1, <2>2, <2>4, QueueAssumption DEF TypeInv, PCs, Ends, Idle
    <3>2. KnownInv'
      BY <2>4, QueueAssumption DEF KnownInv, Settled, Nothing
    <3> QED
      BY <2>1, <2>2, <3>1, <3>2 DEF ReadInv, StopInv
  <2> QED
    BY <1>8, <2>3, <2>4 DEF Reboot
<1>9. CASE EditPlan
  BY <1>9, QueueAssumption DEF EditPlan, TypeInv, KnownInv, Settled, ReadInv, Reads, StopInv
<1>10. CASE LiftPause
  BY <1>10 DEF LiftPause, TypeInv, KnownInv, Settled, ReadInv, Reads, StopInv
<1>11. CASE Launch
  <2>1. Nothing \in [Entries -> Outcomes] /\ <<>> \in Seq(Entries)
    BY DEF Nothing, Outcomes
  <2>2. runner' = [Idle EXCEPT !.pc = "read"] /\ runner'.pc = "read"
    BY <1>11 DEF Launch, Idle
  <2>3. TypeInv'
    <3>1. "read" \in PCs
      BY DEF PCs
    <3>2. runner' = [pc |-> "read", plan |-> <<>>, st |-> Nothing, job |-> "none", ran |-> 0]
      BY <2>2 DEF Idle
    <3>3. runner' \in [pc : PCs, plan : Seq(Entries), st : [Entries -> Outcomes],
                       job : Entries \cup {"none"}, ran : Nat]
      BY <2>1, <3>1, <3>2
    <3> QED
      BY <1>11, <2>2, <3>3 DEF Launch, TypeInv
  <2> QED
    BY <1>11, <2>2, <2>3 DEF Launch, KnownInv, Settled, ReadInv, StopInv
<1>12. ASSUME NEW n \in Entries, ClearState(n) PROVE QueueInv'
  <2>1. TypeInv'
    BY <1>12 DEF ClearState, TypeInv, Outcomes
  <2>2. KnownInv'
    BY <1>12 DEF ClearState, TypeInv, KnownInv, Settled
  <2> QED
    BY <1>12, <2>1, <2>2 DEF ClearState, ReadInv, Reads, StopInv
<1>13. ASSUME NEW f \in {"STOP", "PAUSE"}, DropControl(f) PROVE QueueInv'
  BY <1>13 DEF DropControl, TypeInv, KnownInv, Settled, ReadInv, Reads, StopInv
<1>14. ASSUME NEW target \in Entries \cup {"next"}, DropSkip(target) PROVE QueueInv'
  BY <1>14 DEF DropSkip, TypeInv, KnownInv, Settled, ReadInv, Reads, StopInv
<1>15. CASE UNCHANGED queueVars
  BY <1>15 DEF queueVars, TypeInv, KnownInv, Settled, ReadInv, Reads, StopInv
<1> QED
  BY <1>1, <1>2, <1>3, <1>4, <1>5, <1>6, <1>7, <1>8, <1>9, <1>10, <1>11, <1>12, <1>13, <1>14, <1>15
     DEF QueueNext, RunnerStep

LEMMA AlwaysQueueInv == QueueSpec => []QueueInv
BY InitQueueInv, StepKeepsQueueInv, PTL DEF QueueSpec

-----------------------------------------------------------------------------
(* However the plan is edited and the runner stopped, relaunched or cut    *)
(* off, and whatever is dropped, at most one job starts while a STOP is    *)
(* there.                                                                  *)
THEOREM StopIsHeeded == QueueSpec => []StopHeeded
<1>1. QueueInv => StopHeeded
  BY DEF QueueInv, StopInv, StopHeeded
<1> QED
  BY <1>1, AlwaysQueueInv, PTL

(* A step that starts a job starts one that is not over.                   *)
LEMMA StartsWhatIsNotOver ==
  QueueInv /\ [QueueNext]_queueVars =>
    [runner'.pc = "running" /\ runner.pc # "running" => runner'.job \notin over]_queueVars
<1> SUFFICES ASSUME QueueInv, QueueNext, runner'.pc = "running", runner.pc # "running"
             PROVE  runner'.job \notin over
  OBVIOUS
<1>1. CASE StartJob
  <2>1. PICK n \in NextJob : runner' = [runner EXCEPT !.pc = "running", !.job = n]
    BY <1>1 DEF StartJob
  <2>2. n \notin over
    BY <1>1, NextIsPending, PendingIsNotOver DEF StartJob, Holds, QueueInv
  <2> QED
    BY <2>1, <2>2 DEF QueueInv, TypeInv
<1>2. CASE \E pc \in PCs \ {"running"} : runner'.pc = pc
  BY <1>2
<1>3. CASE runner' = runner
  BY <1>3
<1>4. \/ StartJob \/ runner' = runner
      \/ \E pc \in PCs \ {"running"} : runner'.pc = pc
  BY DEF QueueNext, RunnerStep, ReadQueue, StopSeen, SkipSeen, PauseSeen, NothingDropped,
         PauseLifted, Drained, Refuse, JobEnds, Ended, Reboot, EditPlan, LiftPause, Launch,
         ClearState, DropControl, DropSkip, GoOn, Save, Idle, QueueInv, TypeInv, PCs, Ends
<1> QED
  BY <1>1, <1>2, <1>3, <1>4

(* No job runs a second time on its own, for any plans, edits and reboots. *)
THEOREM NoRetry == QueueSpec => NeverRetried
BY AlwaysQueueInv, StartsWhatIsNotOver, PTL DEF QueueSpec, NeverRetried
=============================================================================
