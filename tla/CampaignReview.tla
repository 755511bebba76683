--------------------------- MODULE CampaignReview ---------------------------
(***************************************************************************)
(* The campaign reviewer (scripts/campaign_review.py).  A scheduler, the   *)
(* launchd tick or an operator's own call, takes review.lock, looks for a  *)
(* reviewer that outlived an earlier scheduler, and otherwise starts one   *)
(* Codex process in a session of its own that resumes the campaign's only  *)
(* thread.  Schedulers die at any step; the lock dies with them, the       *)
(* reviewer does not.  state.json is what the next scheduler knows.        *)
(***************************************************************************)
EXTENDS Integers, FiniteSets

CONSTANTS
  Schedulers,   \* processes that call run_once
  Pids,         \* process numbers the system hands out, and hands out again
  MaxRuns,      \* bound: review runs, numbered 1, 2, ... (time_ns in the code)
  MaxFaults,    \* bound: deaths of schedulers and failures of `ps`
  NoOne         \* a free lock, no process

ASSUME ReviewAssumption ==
  /\ MaxRuns \in Nat \ {0}
  /\ MaxFaults \in Nat
  /\ NoOne \notin Schedulers \cup Pids

VARIABLES
  step,       \* where each scheduler is in run_once
  lock,       \* the scheduler that holds review.lock
  state,      \* state.json
  memory,     \* the `state` dict of the scheduler that reviews
  proc,       \* pid -> the run it reviews, Stranger, or Free
  prompted,   \* runs whose reviewer was given its prompt
  events,     \* run -> the thread its events.jsonl names (0: none yet)
  resumes,    \* run -> the thread it was started with (0: a new one)
  outcome,    \* run -> how its reviewer ended
  overdue,    \* the recorded run is past timeout_seconds
  abandoned,  \* runs whose scheduler was interrupted and left its reviewer
  faults

reviewVars == <<step, lock, state, memory, proc, prompted, events, resumes,
                outcome, overdue, abandoned, faults>>

Runs     == 1 .. MaxRuns
Free     == 0
Stranger == -1
Steps    == {"idle", "check", "orphan", "start", "spawn", "record", "prompt",
             "wait", "finish"}
Statuses == {"none", "reviewing", "review_failed", "assessed"}

(* run is run_id (0: no run yet); pid and identity are the last reviewer's.
   An identity is birth time and command: a pid and the run it was born for. *)
StateRecord == [run: 0 .. MaxRuns, thread: 0 .. MaxRuns, status: Statuses,
                pid: Pids \cup {NoOne}, identity: 0 .. MaxRuns]

NoState == [run |-> 0, thread |-> 0, status |-> "none", pid |-> NoOne, identity |-> 0]

Alive(r) == \E p \in Pids : proc[p] = r

(* Mutant: any process with that number will do.                           *)
RecordedPidIsTaken(st) == st.pid # NoOne /\ proc[st.pid] # Free

(* process_identity(pid) is the one that state.json recorded.              *)
RecordedIsRunning(st) ==
  /\ st.pid # NoOne
  /\ st.identity # 0
  /\ proc[st.pid] = st.identity

ReviewInit ==
  /\ step = [t \in Schedulers |-> "idle"]
  /\ lock = NoOne
  /\ state = NoState
  /\ memory = NoState
  /\ proc = [p \in Pids |-> Free]
  /\ prompted = {}
  /\ events = [r \in Runs |-> 0]
  /\ resumes = [r \in Runs |-> 0]
  /\ outcome = [r \in Runs |-> "none"]
  /\ overdue = FALSE
  /\ abandoned = {}
  /\ faults = 0

-----------------------------------------------------------------------------
(* The scheduler.                                                          *)

Goto(t, s) == step' = [step EXCEPT ![t] = s]

Leave(t) == Goto(t, "idle") /\ lock' = NoOne

(* run_once: the lock, without waiting; a held lock is a SKIP.             *)
Tick(t) ==
  /\ step[t] = "idle"
  /\ lock = NoOne
  /\ state.run < MaxRuns
  /\ lock' = t
  /\ Goto(t, "check")
  /\ UNCHANGED <<state, memory, proc, prompted, events, resumes, outcome, overdue, abandoned, faults>>

(* prior_reviewer_running: nothing recorded, or it is gone.                *)
NoPriorReviewer(t) ==
  /\ step[t] = "check"
  /\ ~RecordedIsRunning(state)
  /\ Goto(t, "start")
  /\ UNCHANGED <<lock, state, memory, proc, prompted, events, resumes, outcome, overdue, abandoned, faults>>

(* It runs and is within its time: this tick is skipped.                   *)
SkipTick(t) ==
  /\ step[t] = "check"
  /\ RecordedIsRunning(state)
  /\ ~overdue
  /\ Leave(t)
  /\ UNCHANGED <<state, memory, proc, prompted, events, resumes, outcome, overdue, abandoned, faults>>

(* Past its time: SIGTERM, to which it may or may not die within 3 s ...   *)
TermOrphan(t) ==
  /\ step[t] = "check"
  /\ RecordedIsRunning(state)
  /\ overdue
  /\ Goto(t, "orphan")
  /\ UNCHANGED <<lock, state, memory, proc, prompted, events, resumes, outcome, overdue, abandoned, faults>>

(* ... then SIGKILL if the same process is still there; the next tick goes on. *)
KillOrphan(t) ==
  /\ step[t] = "orphan"
  /\ IF RecordedIsRunning(state)
       THEN /\ proc' = [proc EXCEPT ![state.pid] = Free]
            /\ outcome' = [outcome EXCEPT ![state.identity] = "failed"]
       ELSE UNCHANGED <<proc, outcome>>
  /\ Leave(t)
  /\ UNCHANGED <<state, memory, prompted, events, resumes, overdue, abandoned, faults>>

(* Mutant: state.json only.                                                *)
SavedThread(st) == st.thread

(* review_locked up to the command: the thread of state.json or, when a
   killed scheduler never saved it, of the last run's events.jsonl.        *)
KnownThread(st) ==
  IF st.thread # 0 \/ st.run = 0 THEN st.thread ELSE events[st.run]

StartRun(t) ==
  /\ step[t] = "start"
  /\ LET run == state.run + 1
     IN  /\ memory' = [state EXCEPT !.thread = KnownThread(state),
                                    !.run = run, !.status = "reviewing"]
         /\ state' = memory'
         /\ resumes' = [resumes EXCEPT ![run] = KnownThread(state)]
  /\ overdue' = FALSE
  /\ Goto(t, "spawn")
  /\ UNCHANGED <<lock, proc, prompted, events, outcome, abandoned, faults>>

(* Popen in a new session, or an OSError that `except Exception` catches.  *)
Spawn(t) ==
  /\ step[t] = "spawn"
  /\ \E p \in Pids :
       /\ proc[p] = Free
       /\ proc' = [proc EXCEPT ![p] = memory.run]
       /\ memory' = [memory EXCEPT !.pid = p]
  /\ Goto(t, "record")
  /\ UNCHANGED <<lock, state, prompted, events, resumes, outcome, overdue, abandoned, faults>>

SpawnFails(t) ==
  /\ step[t] = "spawn"
  /\ memory' = [memory EXCEPT !.status = "review_failed"]
  /\ outcome' = [outcome EXCEPT ![memory.run] = "failed"]
  /\ Goto(t, "finish")
  /\ UNCHANGED <<lock, state, proc, prompted, events, resumes, overdue, abandoned, faults>>

(* Mutant: the reviewer is recorded in memory only.                        *)
RecordReviewerInMemory(t) ==
  /\ step[t] = "record"
  /\ memory' = [memory EXCEPT !.identity = memory.run]
  /\ Goto(t, "prompt")
  /\ UNCHANGED <<lock, state, proc, prompted, events, resumes, outcome, overdue, abandoned, faults>>

(* The pid and identity are saved before the prompt is written.            *)
RecordReviewer(t) ==
  /\ step[t] = "record"
  /\ memory' = [memory EXCEPT !.identity = memory.run]
  /\ state' = memory'
  /\ Goto(t, "prompt")
  /\ UNCHANGED <<lock, proc, prompted, events, resumes, outcome, overdue, abandoned, faults>>

(* `ps` fails: nothing is done in the check, the review fails in the record. *)
PsFails(t) ==
  /\ faults < MaxFaults
  /\ faults' = faults + 1
  /\ \/ step[t] = "check" /\ Leave(t) /\ UNCHANGED memory
     \/ /\ step[t] = "record"
        /\ memory' = [memory EXCEPT !.status = "review_failed"]
        /\ Goto(t, "finish")
        /\ UNCHANGED lock
  /\ UNCHANGED <<state, proc, prompted, events, resumes, outcome, overdue, abandoned>>

(* communicate writes the prompt; a reviewer that is gone reads nothing.   *)
WritePrompt(t) ==
  /\ step[t] = "prompt"
  /\ prompted' = IF Alive(memory.run) THEN prompted \cup {memory.run} ELSE prompted
  /\ Goto(t, "wait")
  /\ UNCHANGED <<lock, state, memory, proc, events, resumes, outcome, overdue, abandoned, faults>>

(* The reviewer exited; a bad exit status or assessment fails the review.  *)
ReviewEnds(t) ==
  /\ step[t] = "wait"
  /\ ~Alive(memory.run)
  /\ \E status \in {"assessed", "review_failed"} :
       /\ status = "assessed" => outcome[memory.run] = "exited"
       /\ memory' = [memory EXCEPT !.status = status]
  /\ Goto(t, "finish")
  /\ UNCHANGED <<lock, state, proc, prompted, events, resumes, outcome, overdue, abandoned, faults>>

(* The time bound: SIGTERM, SIGKILL after 15 s, and a wait for the exit.   *)
TimedOut(t) ==
  /\ step[t] = "wait"
  /\ overdue
  /\ \E p \in Pids : /\ proc[p] = memory.run
                     /\ proc' = [proc EXCEPT ![p] = Free]
  /\ outcome' = [outcome EXCEPT ![memory.run] = "failed"]
  /\ memory' = [memory EXCEPT !.status = "review_failed"]
  /\ Goto(t, "finish")
  /\ UNCHANGED <<lock, state, prompted, events, resumes, overdue, abandoned, faults>>

(* ^C in communicate: KeyboardInterrupt is no Exception, so the reviewer is
   not stopped, and `finally` forgets it.                                  *)
Interrupted(t) ==
  /\ step[t] = "wait"
  /\ abandoned' = abandoned \cup {memory.run}
  /\ Goto(t, "finish")
  /\ UNCHANGED <<lock, state, memory, proc, prompted, events, resumes, outcome, overdue, faults>>

(* `finally`: the thread of this run's events, no reviewer, unlock.        *)
FinishRun(t) ==
  /\ step[t] = "finish"
  /\ state' = [memory EXCEPT !.pid = NoOne,
                 !.thread = IF events[memory.run] # 0 THEN events[memory.run]
                                                      ELSE memory.thread]
  /\ memory' = NoState
  /\ Leave(t)
  /\ UNCHANGED <<proc, prompted, events, resumes, outcome, overdue, abandoned, faults>>

(* SIGKILL or SIGTERM of a scheduler, at any step: the lock is released.   *)
SchedulerDies(t) ==
  /\ step[t] # "idle"
  /\ faults < MaxFaults
  /\ faults' = faults + 1
  /\ Leave(t)
  /\ memory' = NoState
  /\ UNCHANGED <<state, proc, prompted, events, resumes, outcome, overdue, abandoned>>

-----------------------------------------------------------------------------
(* The reviewer and the rest of the system.                                *)

(* Codex opens (or resumes) its session and writes thread.started.         *)
ThreadStarted(r) ==
  /\ Alive(r)
  /\ r \in prompted
  /\ events[r] = 0
  /\ events' = [events EXCEPT ![r] = IF resumes[r] = 0 THEN r ELSE resumes[r]]
  /\ UNCHANGED <<step, lock, state, memory, proc, prompted, resumes, outcome, overdue, abandoned, faults>>

(* It exits, with an assessment only after it had a thread.                *)
ReviewerExits(r) ==
  /\ \E p \in Pids : proc[p] = r /\ proc' = [proc EXCEPT ![p] = Free]
  /\ \E how \in {"exited", "failed"} :
       /\ how = "exited" => events[r] # 0
       /\ outcome' = [outcome EXCEPT ![r] = how]
  /\ UNCHANGED <<step, lock, state, memory, prompted, events, resumes, overdue, abandoned, faults>>

TimePasses ==
  /\ ~overdue
  /\ \E r \in Runs : Alive(r) /\ r = state.run
  /\ overdue' = TRUE
  /\ UNCHANGED <<step, lock, state, memory, proc, prompted, events, resumes, outcome, abandoned, faults>>

(* Another program is given a free pid; an unreaped child still has its.   *)
StrangerStarts(p) ==
  /\ proc[p] = Free
  /\ ~ \E t \in Schedulers : step[t] \in {"record", "prompt", "wait"} /\ memory.pid = p
  /\ \A q \in Pids : proc[q] # Stranger
  /\ proc' = [proc EXCEPT ![p] = Stranger]
  /\ UNCHANGED <<step, lock, state, memory, prompted, events, resumes, outcome, overdue, abandoned, faults>>

ReviewSchedulerStep(t) ==
  \/ Tick(t) \/ NoPriorReviewer(t) \/ SkipTick(t) \/ TermOrphan(t) \/ KillOrphan(t)
  \/ StartRun(t) \/ Spawn(t) \/ SpawnFails(t) \/ RecordReviewer(t) \/ WritePrompt(t)
  \/ ReviewEnds(t) \/ TimedOut(t) \/ Interrupted(t) \/ FinishRun(t)

ReviewNext ==
  \/ \E t \in Schedulers : ReviewSchedulerStep(t) \/ PsFails(t) \/ SchedulerDies(t)
  \/ \E r \in Runs : ThreadStarted(r) \/ ReviewerExits(r)
  \/ TimePasses
  \/ \E p \in Pids : StrangerStarts(p)

(* launchd ticks for ever and time passes.  A scheduler that lives goes on;
   nothing makes the reviewer answer or exit.                              *)
ReviewFairness ==
  /\ \A t \in Schedulers : WF_reviewVars(ReviewSchedulerStep(t))
  /\ WF_reviewVars(TimePasses)

ReviewSpec == ReviewInit /\ [][ReviewNext]_reviewVars /\ ReviewFairness

-----------------------------------------------------------------------------
(* Every variable of the reviewer stays in its type.                       *)
ReviewTypeOK ==
  /\ step \in [Schedulers -> Steps]
  /\ lock \in Schedulers \cup {NoOne}
  /\ state \in StateRecord
  /\ memory \in StateRecord
  /\ proc \in [Pids -> Runs \cup {Free, Stranger}]
  /\ prompted \subseteq Runs
  /\ events \in [Runs -> 0 .. MaxRuns]
  /\ resumes \in [Runs -> 0 .. MaxRuns]
  /\ outcome \in [Runs -> {"none", "exited", "failed"}]
  /\ overdue \in BOOLEAN
  /\ abandoned \subseteq Runs
  /\ faults \in 0 .. MaxFaults

(* "A detached Codex process can outlive a killed scheduler.  Do not resume the
   same thread twice, even though the scheduler's lock was released"
   (campaign_review.py:116): no run is started on the thread of a reviewer
   that still works on it.                                                 *)
NeverCompeting ==
  \A r, s \in prompted :
    Alive(r) /\ Alive(s) /\ events[r] # 0 /\ resumes[s] = events[r] => r = s

(* So much is true of it: whichever scheduler started them and wherever
   schedulers died, two reviewers that were given a prompt work at the same
   time only when an operator interrupted the scheduler of one.            *)
SoleReviewer ==
  \A r, s \in prompted \ abandoned : Alive(r) /\ Alive(s) => r = s

(* The campaign keeps one persistent thread: whichever schedulers died in
   between, no run that was not interrupted opens a second one
   (campaign_review.py:126 and :205).                                      *)
OneThread ==
  \A r, s \in Runs \ abandoned : events[r] # 0 /\ events[s] # 0 => events[r] = events[s]

(* A review that was begun is settled: if its scheduler dies, a later tick
   waits for the orphan, stops it when its time is over, and reviews again. *)
ReviewSettles ==
  (state.status = "reviewing") ~> (state.status # "reviewing" \/ state.run = MaxRuns)
=============================================================================
