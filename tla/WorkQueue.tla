------------------------------ MODULE WorkQueue ------------------------------
(***************************************************************************)
(* The work-queue runner (benchmark/bench/workqueue.py) with --state.  One *)
(* runner executes the entries of a plan in order.  Between two entries it *)
(* reads the plan and the state file again and looks at the three control  *)
(* files.  The operator edits the plan and the state, drops control files  *)
(* and launches a runner, whenever he likes; the machine may reboot, in    *)
(* the middle of a write of the state file too.                            *)
(***************************************************************************)
EXTENDS Naturals, Sequences, SequencesExt

CONSTANTS
  Entries,    \* names of entries
  Refused,    \* those without a 'cmd', or that the pilot gate refuses
  Inline,     \* those whose entry in the plan carries "state": "done"
  Plans,      \* what the operator may write as the plan
  MaxJobs,    \* --max-jobs
  MaxActs     \* bound: acts of the operator, and reboots

ASSUME QueueAssumption ==
  /\ Refused \subseteq Entries /\ Inline \subseteq Entries
  /\ Plans \subseteq Seq(Entries)
  /\ MaxJobs \in Nat /\ MaxActs \in Nat
  /\ {"none", "next"} \cap Entries = {}

VARIABLES
  plan,       \* the queue file, a sequence of names
  outcomes,   \* the state file; one that cannot be read counts as empty
  drops,      \* which of STOP and PAUSE are there
  skip,       \* SKIP: a name, "next" when blank, "none" when it is not there
  runner,     \* pc, and what it read at the top of its loop
  over,       \* history: jobs that ended, or were skipped, migrated or refused
  sinceStop,  \* history: jobs started since the STOP that is there
  acts

queueVars == <<plan, outcomes, drops, skip, runner, over, sinceStop, acts>>

Terminal == {"done", "failed", "skipped"}
Nothing  == [n \in Entries |-> "none"]
Ends     == {"drained", "stopped", "capped", "down"}
Idle     == [pc |-> "drained", plan |-> <<>>, st |-> Nothing, job |-> "none", ran |-> 0]

QueueInit ==
  /\ plan \in Plans /\ outcomes = Nothing
  /\ drops = {} /\ skip = "none"
  /\ runner = [Idle EXCEPT !.pc = "read"]
  /\ over = Inline /\ sinceStop = 0 /\ acts = 0

-----------------------------------------------------------------------------
(* State inline in the plan is migrated, unless the file has the name.     *)
LoadState(entries) ==
  [n \in Entries |-> IF outcomes[n] = "none" /\ n \in Inline \cap ToSet(entries)
                    THEN "done" ELSE outcomes[n]]

(* The entries without a terminal state, and the first of them.            *)
Pending == {i \in DOMAIN runner.plan : runner.st[runner.plan[i]] \notin Terminal}
Named(places) == {runner.plan[i] : i \in places}
NextJob == Named({i \in Pending : \A j \in Pending : i <= j})

GoOn(pc) == runner' = [runner EXCEPT !.pc = pc]
KeepQueue == UNCHANGED <<plan, acts>>
Holds(pc) == runner.pc = pc /\ KeepQueue

(* The runner writes the state it has read, with one outcome more.         *)
Save(st, n, outcome, pc) ==
  /\ outcomes' = [st EXCEPT ![n] = outcome]
  /\ runner' = [runner EXCEPT !.pc = pc]

(* The top of the loop.                                                    *)
ReadQueue ==
  /\ Holds("read")
  /\ IF runner.ran < MaxJobs
       THEN runner' = [runner EXCEPT !.pc = "look", !.plan = plan, !.st = LoadState(plan)]
       ELSE GoOn("capped")
  /\ UNCHANGED <<outcomes, drops, skip, over, sinceStop>>

(* _check_control: STOP before SKIP before PAUSE; a STOP or SKIP is
   consumed.  The three looks are one step: a file dropped between two of
   them counts as dropped after them.                                      *)
StopSeen ==
  /\ Holds("look") /\ "STOP" \in drops
  /\ drops' = drops \ {"STOP"} /\ sinceStop' = 0
  /\ GoOn("stopped")
  /\ UNCHANGED <<outcomes, skip, over>>

SkipTarget == IF skip = "next" THEN NextJob ELSE {skip} \cap Named(Pending)

SkipSeen ==
  /\ Holds("look") /\ "STOP" \notin drops /\ skip # "none"
  /\ skip' = "none"
  /\ \/ \E n \in SkipTarget :
          Save(runner.st, n, "skipped", "read") /\ over' = over \cup {n}
     \/ SkipTarget = {} /\ GoOn("pick") /\ UNCHANGED <<outcomes, over>>
  /\ UNCHANGED <<drops, sinceStop>>

(* Mutant: PAUSE is looked at before STOP.                                 *)
PauseSeenFirst ==
  /\ Holds("look") /\ skip = "none" /\ "PAUSE" \in drops
  /\ GoOn("paused")
  /\ UNCHANGED <<outcomes, drops, skip, over, sinceStop>>

PauseSeen ==
  /\ Holds("look") /\ "STOP" \notin drops /\ skip = "none" /\ "PAUSE" \in drops
  /\ GoOn("paused")
  /\ UNCHANGED <<outcomes, drops, skip, over, sinceStop>>

NothingDropped ==
  /\ Holds("look") /\ drops = {} /\ skip = "none"
  /\ GoOn("pick")
  /\ UNCHANGED <<outcomes, drops, skip, over, sinceStop>>

(* "PAUSE lifted: resuming": with the plan and the state it had read, and
   without another look.                                                   *)
PauseLifted ==
  /\ Holds("paused") /\ "PAUSE" \notin drops
  /\ GoOn("pick")
  /\ UNCHANGED <<outcomes, drops, skip, over, sinceStop>>

Drained ==
  /\ Holds("pick") /\ NextJob = {}
  /\ GoOn("drained")
  /\ UNCHANGED <<outcomes, drops, skip, over, sinceStop>>

(* Mutant: the next entry is taken up, but the refusal is not recorded.    *)
RefuseUnrecorded ==
  /\ Holds("pick")
  /\ \E n \in NextJob \cap Refused : GoOn("read") /\ over' = over \cup {n}
  /\ UNCHANGED <<outcomes, drops, skip, sinceStop>>

Refuse ==
  /\ Holds("pick")
  /\ \E n \in NextJob \cap Refused :
       Save(runner.st, n, "failed", "read") /\ over' = over \cup {n}
  /\ UNCHANGED <<drops, skip, sinceStop>>

StartJob ==
  /\ Holds("pick")
  /\ \E n \in NextJob \ Refused :
       /\ outcomes' = [runner.st EXCEPT ![n] = "running"]
       /\ runner' = [runner EXCEPT !.pc = "running", !.job = n]
  /\ sinceStop' = IF "STOP" \in drops THEN sinceStop + 1 ELSE 0
  /\ UNCHANGED <<drops, skip, over>>

Ended(n, st) ==
  /\ \E outcome \in {"done", "failed"} : outcomes' = [st EXCEPT ![n] = outcome]
  /\ runner' = [runner EXCEPT !.pc = "read", !.ran = @ + 1]
  /\ over' = over \cup {runner.job}
  /\ UNCHANGED <<drops, skip, sinceStop>>

(* Mutant: the outcome goes to the entry that is at the job's place by now. *)
JobEndsByPosition ==
  /\ Holds("running")
  /\ LET k == SelectInSeq(runner.plan, LAMBDA n : n = runner.job)
     IN  Ended(IF k \in DOMAIN plan THEN plan[k] ELSE runner.job, LoadState(runner.plan))

JobEnds ==
  /\ Holds("running")
  /\ Ended(runner.job, LoadState(runner.plan))

-----------------------------------------------------------------------------
Acts == acts < MaxActs /\ acts' = acts + 1

EditPlan ==
  /\ Acts /\ plan' \in Plans \ {plan}
  /\ UNCHANGED <<outcomes, drops, skip, runner, over, sinceStop>>

(* "Re-queueing is an explicit operator act (clear the entry's state)."     *)
ClearState(n) ==
  /\ Acts /\ outcomes[n] \in Terminal
  /\ outcomes' = [outcomes EXCEPT ![n] = "none"] /\ over' = over \ {n}
  /\ UNCHANGED <<plan, drops, skip, runner, sinceStop>>

DropControl(f) ==
  /\ Acts /\ f \notin drops /\ drops' = drops \cup {f}
  /\ UNCHANGED <<plan, outcomes, skip, runner, over, sinceStop>>

LiftPause ==
  /\ "PAUSE" \in drops /\ drops' = drops \ {"PAUSE"}
  /\ UNCHANGED <<plan, outcomes, skip, runner, over, sinceStop, acts>>

DropSkip(target) ==
  /\ Acts /\ skip' = target
  /\ UNCHANGED <<plan, outcomes, drops, runner, over, sinceStop>>

Launch ==
  /\ Acts /\ runner.pc \in Ends
  /\ runner' = [Idle EXCEPT !.pc = "read"]
  /\ UNCHANGED <<plan, outcomes, drops, skip, over, sinceStop>>

(* A reboot ends the runner and its job.  Where the next step writes the
   state file, in place, the file may be left without its content.         *)
Writing ==
  \/ runner.pc = "running"
  \/ runner.pc = "pick" /\ NextJob # {}
  \/ runner.pc = "look" /\ skip # "none" /\ SkipTarget # {}

Reboot ==
  /\ Acts /\ runner.pc \notin Ends
  /\ runner' = [Idle EXCEPT !.pc = "down"]
  /\ \/ UNCHANGED <<outcomes, over>>
     \/ Writing /\ outcomes' = Nothing /\ over' = Inline
  /\ UNCHANGED <<plan, drops, skip, sinceStop>>

RunnerStep ==
  \/ ReadQueue \/ StopSeen \/ SkipSeen \/ PauseSeen \/ NothingDropped \/ PauseLifted
  \/ Drained \/ Refuse \/ StartJob

QueueNext ==
  \/ RunnerStep \/ JobEnds \/ Reboot
  \/ EditPlan \/ LiftPause \/ Launch
  \/ \E n \in Entries : ClearState(n)
  \/ \E f \in {"STOP", "PAUSE"} : DropControl(f)
  \/ \E target \in Entries \cup {"next"} : DropSkip(target)

(* A runner that lives goes on; a job may take for ever.                   *)
QueueFairness == WF_queueVars(RunnerStep)

QueueSpec == QueueInit /\ [][QueueNext]_queueVars /\ QueueFairness

-----------------------------------------------------------------------------
(* "A failed job is never retried automatically", and one that is done is
   never run again ("a redone `generate` is hours of worker time"): however
   the plan is reordered and the runner restarted, a job starts a second
   time only if it was cut off, if the operator cleared its state, or if a
   reboot destroyed the state file.                                        *)
NeverRetried ==
  [][runner'.pc = "running" /\ runner.pc # "running" => runner'.job \notin over]_queueVars

(* "STOP finishes the current item then exits": whatever else is dropped,
   and though the end of a PAUSE brings no second look, at most one job
   starts while a STOP is there.  (A STOP dropped during a PAUSE waits for
   the end of the PAUSE, and one job may start before it is seen.)         *)
StopHeeded == sinceStop <= 1

(* "A failing job does not stop the queue", nor does a malformed one: as
   long as jobs end and the runner lives and is not paused, every entry of
   the plan comes to an outcome.                                           *)
EntrySettles ==
  []<>(runner.pc # "running") =>
    \A n \in Entries :
      n \in ToSet(plan) ~> \/ LoadState(plan)[n] \in Terminal
                           \/ n \notin ToSet(plan)
                           \/ runner.pc \in Ends \cup {"paused"}
=============================================================================
