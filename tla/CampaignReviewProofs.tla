------------------------ MODULE CampaignReviewProofs ------------------------
(***************************************************************************)
(* Proofs about CampaignReview, for any number of schedulers, processes,   *)
(* runs, deaths and failures.                                              *)
(***************************************************************************)
EXTENDS CampaignReview, TLAPS

(* review.lock is held by the scheduler that is in run_once.               *)
LockInv == \A t \in Schedulers : step[t] # "idle" <=> lock = t

Reviewing(t) == step[t] \in {"spawn", "record", "prompt", "wait", "finish"}

(* Runs are numbered in the order of their start: a later one has neither  *)
(* a reviewer nor a prompt, and the one begun has no prompt before its     *)
(* reviewer is recorded.                                                   *)
RunInv ==
  /\ \A t \in Schedulers :
       /\ step[t] \in {"check", "start"} => state.run < MaxRuns
       /\ Reviewing(t) => memory.run = state.run /\ memory.run \in Runs
       /\ step[t] = "spawn" => ~Alive(memory.run)
       /\ step[t] \in {"spawn", "record", "prompt"} => memory.run \notin prompted
  /\ \A r \in Runs : r > state.run => ~Alive(r) /\ r \notin prompted

(* One process reviews one run, and its number is the one in memory.       *)
PidInv ==
  /\ \A p, q \in Pids : proc[p] \in Runs /\ proc[q] = proc[p] => p = q
  /\ \A t \in Schedulers : step[t] \in {"record", "prompt", "wait"} =>
       /\ memory.pid \in Pids
       /\ \A p \in Pids : proc[p] = memory.run => p = memory.pid

(* No reviewer that was given a prompt works, but for the abandoned.       *)
Quiet == \A r \in prompted \ abandoned : ~Alive(r)

(* One that works is the one that state.json records.  That is why a       *)
(* scheduler that found none starts, records and prompts in quiet.         *)
RecordInv ==
  /\ \A r \in prompted \ abandoned : Alive(r) =>
       state.pid \in Pids /\ state.identity = r /\ proc[state.pid] = r
  /\ \A t \in Schedulers :
       /\ step[t] \in {"start", "spawn", "record", "prompt", "finish"} => Quiet
       /\ step[t] \in {"prompt", "wait"} => state.pid = memory.pid /\ state.identity = memory.run

(* The thread of every run before the last is in state.json; that of the   *)
(* last is there too, or is still to be recovered from its events.  A      *)
(* reviewer that works is of the last run, and resumes what is known.      *)
ThreadInv ==
  /\ \A r \in Runs : r > state.run => events[r] = 0
  /\ \A r \in Runs : events[r] # 0 => events[r] = IF resumes[r] = 0 THEN r ELSE resumes[r]
  /\ \A r \in Runs \ abandoned : events[r] # 0 =>
       state.thread = events[r] \/ (r = state.run /\ state.thread = 0)
  /\ \A r \in prompted \ abandoned : Alive(r) => r = state.run /\ resumes[r] = state.thread
  /\ \A t \in Schedulers : Reviewing(t) =>
       memory.thread = state.thread /\ memory.thread = resumes[memory.run]

ReviewInv == ReviewTypeOK /\ LockInv /\ RunInv /\ PidInv /\ RecordInv /\ ThreadInv

USE ReviewAssumption
USE DEF reviewVars, Goto, Leave

-----------------------------------------------------------------------------
LEMMA InitReview == ReviewInit => ReviewInv
<1>. SUFFICES ASSUME ReviewInit PROVE ReviewInv
  OBVIOUS
<1>1. ReviewTypeOK
  <2>1. 0 \in 0 .. MaxRuns /\ 0 \in 0 .. MaxFaults
    OBVIOUS
  <2>2. NoState \in StateRecord
    BY <2>1 DEF NoState, StateRecord, Statuses
  <2>3. overdue \in BOOLEAN
    BY DEF ReviewInit
  <2>. QED
    BY <2>1, <2>2, <2>3 DEF ReviewInit, ReviewTypeOK, Steps
<1>2. LockInv /\ PidInv
  BY DEF ReviewInit, LockInv, PidInv, Free, Runs
<1>3. RunInv /\ RecordInv /\ ThreadInv
  BY DEF ReviewInit, RunInv, RecordInv, ThreadInv, Quiet, Reviewing, NoState, Alive, Free, Runs
<1>. QED
  BY <1>1, <1>2, <1>3 DEF ReviewInv

(* What moves: the steps of a scheduler, the reviewer, time and strangers.  *)
(* Every variable stays in its type.                                       *)
LEMMA NextReviewType ==
  ASSUME ReviewInv, [ReviewNext]_reviewVars
  PROVE  ReviewTypeOK'
<1>0. ReviewTypeOK
  BY DEF ReviewInv
<1>a. \A t \in Schedulers : Reviewing(t) => memory.run \in Runs
  BY DEF ReviewInv, RunInv
<1>b. \A t \in Schedulers : step[t] = "start" => state.run < MaxRuns
  BY DEF ReviewInv, RunInv
<1>c. NoState \in StateRecord
  BY DEF NoState, StateRecord, Statuses
<1>1. ASSUME NEW t \in Schedulers, Tick(t) PROVE ReviewTypeOK'
  BY <1>0, <1>1 DEF Tick, Reviewing, ReviewTypeOK, StateRecord, Steps, Statuses, Free, Stranger, Runs
<1>2. ASSUME NEW t \in Schedulers, NoPriorReviewer(t) PROVE ReviewTypeOK'
  BY <1>0, <1>2 DEF NoPriorReviewer, Reviewing, ReviewTypeOK, StateRecord, Steps, Statuses, Free, Stranger, Runs
<1>3. ASSUME NEW t \in Schedulers, SkipTick(t) PROVE ReviewTypeOK'
  BY <1>0, <1>3 DEF SkipTick, Reviewing, ReviewTypeOK, StateRecord, Steps, Statuses, Free, Stranger, Runs
<1>4. ASSUME NEW t \in Schedulers, TermOrphan(t) PROVE ReviewTypeOK'
  BY <1>0, <1>4 DEF TermOrphan, Reviewing, ReviewTypeOK, StateRecord, Steps, Statuses, Free, Stranger, Runs
<1>5. ASSUME NEW t \in Schedulers, KillOrphan(t) PROVE ReviewTypeOK'
  BY <1>0, <1>5 DEF KillOrphan, Reviewing, ReviewTypeOK, StateRecord, Steps, Statuses, Free, Stranger, Runs
<1>6. ASSUME NEW t \in Schedulers, StartRun(t) PROVE ReviewTypeOK'
  <2>1. state.run + 1 \in 0 .. MaxRuns
    BY <1>0, <1>6, <1>b DEF StartRun, ReviewTypeOK, StateRecord
  <2>2. KnownThread(state) \in 0 .. MaxRuns
    BY <1>0 DEF KnownThread, ReviewTypeOK, StateRecord, Runs
  <2>3. memory' \in StateRecord /\ state' = memory'
    BY <1>0, <1>6, <2>1, <2>2 DEF StartRun, ReviewTypeOK, StateRecord, Statuses
  <2>4. resumes' \in [Runs -> 0 .. MaxRuns]
    BY <1>0, <1>6, <2>2 DEF StartRun, ReviewTypeOK
  <2>5. step' \in [Schedulers -> Steps]
    BY <1>0, <1>6 DEF StartRun, ReviewTypeOK, Steps
  <2>6. overdue' \in BOOLEAN
    BY <1>6 DEF StartRun
  <2>. QED
    BY <1>0, <1>6, <2>3, <2>4, <2>5, <2>6 DEF StartRun, ReviewTypeOK
<1>7. ASSUME NEW t \in Schedulers, Spawn(t) PROVE ReviewTypeOK'
  BY <1>0, <1>7, <1>a DEF Spawn, Reviewing, ReviewTypeOK, StateRecord, Steps, Statuses, Free, Stranger, Runs
<1>8. ASSUME NEW t \in Schedulers, SpawnFails(t) PROVE ReviewTypeOK'
  BY <1>0, <1>8, <1>a DEF SpawnFails, Reviewing, ReviewTypeOK, StateRecord, Steps, Statuses, Free, Stranger, Runs
<1>9. ASSUME NEW t \in Schedulers, RecordReviewer(t) PROVE ReviewTypeOK'
  BY <1>0, <1>9, <1>a DEF RecordReviewer, Reviewing, ReviewTypeOK, StateRecord, Steps, Statuses, Free, Stranger, Runs
<1>10. ASSUME NEW t \in Schedulers, WritePrompt(t) PROVE ReviewTypeOK'
  BY <1>0, <1>10, <1>a DEF WritePrompt, Reviewing, ReviewTypeOK, StateRecord, Steps, Statuses, Free, Stranger, Runs
<1>11. ASSUME NEW t \in Schedulers, ReviewEnds(t) PROVE ReviewTypeOK'
  BY <1>0, <1>11, <1>a DEF ReviewEnds, Reviewing, ReviewTypeOK, StateRecord, Steps, Statuses, Free, Stranger, Runs
<1>12. ASSUME NEW t \in Schedulers, TimedOut(t) PROVE ReviewTypeOK'
  BY <1>0, <1>12, <1>a DEF TimedOut, Reviewing, ReviewTypeOK, StateRecord, Steps, Statuses, Free, Stranger, Runs
<1>13. ASSUME NEW t \in Schedulers, Interrupted(t) PROVE ReviewTypeOK'
  BY <1>0, <1>13, <1>a DEF Interrupted, Reviewing, ReviewTypeOK, StateRecord, Steps, Statuses, Free, Stranger, Runs
<1>14. ASSUME NEW t \in Schedulers, FinishRun(t) PROVE ReviewTypeOK'
  BY <1>0, <1>14, <1>a, <1>c DEF FinishRun, Reviewing, ReviewTypeOK, StateRecord, Steps, Statuses, Free, Stranger, Runs
<1>15. ASSUME NEW t \in Schedulers, PsFails(t) PROVE ReviewTypeOK'
  <2>1. faults' \in 0 .. MaxFaults
    BY <1>0, <1>15 DEF PsFails, ReviewTypeOK
  <2>2. memory' \in StateRecord
    <3>1. memory' = memory \/ memory' = [memory EXCEPT !.status = "review_failed"]
      BY <1>15 DEF PsFails
    <3>. QED
      BY <1>0, <3>1 DEF ReviewTypeOK, StateRecord, Statuses
  <2>3. step' \in [Schedulers -> Steps] /\ lock' \in Schedulers \cup {NoOne}
    <3>1. step' \in {[step EXCEPT ![t] = "idle"], [step EXCEPT ![t] = "finish"]} /\ lock' \in {lock, NoOne}
      BY <1>15 DEF PsFails
    <3>. QED
      BY <1>0, <3>1 DEF ReviewTypeOK, Steps
  <2>4. UNCHANGED <<state, proc, prompted, events, resumes, outcome, overdue, abandoned>>
    BY <1>15 DEF PsFails
  <2>. QED
    BY <1>0, <2>1, <2>2, <2>3, <2>4 DEF ReviewTypeOK
<1>16. ASSUME NEW t \in Schedulers, SchedulerDies(t) PROVE ReviewTypeOK'
  <2>1. faults' \in 0 .. MaxFaults
    BY <1>0, <1>16 DEF SchedulerDies, ReviewTypeOK
  <2>2. memory' \in StateRecord /\ lock' \in Schedulers \cup {NoOne}
    BY <1>16, <1>c DEF SchedulerDies
  <2>3. step' \in [Schedulers -> Steps]
    BY <1>0, <1>16 DEF SchedulerDies, ReviewTypeOK, Steps
  <2>4. UNCHANGED <<state, proc, prompted, events, resumes, outcome, overdue, abandoned>>
    BY <1>16 DEF SchedulerDies
  <2>. QED
    BY <1>0, <2>1, <2>2, <2>3, <2>4 DEF ReviewTypeOK
<1>17. ASSUME NEW r \in Runs, ThreadStarted(r) PROVE ReviewTypeOK'
  <2>1. r \in 0 .. MaxRuns /\ resumes[r] \in 0 .. MaxRuns
    BY <1>0 DEF ReviewTypeOK, Runs
  <2>2. events' \in [Runs -> 0 .. MaxRuns]
    <3>1. events' \in {[events EXCEPT ![r] = r], [events EXCEPT ![r] = resumes[r]]}
      BY <1>17 DEF ThreadStarted
    <3>. QED
      BY <1>0, <2>1, <3>1 DEF ReviewTypeOK
  <2>. QED
    BY <1>0, <1>17, <2>2 DEF ThreadStarted, ReviewTypeOK
<1>18. ASSUME NEW r \in Runs, ReviewerExits(r) PROVE ReviewTypeOK'
  BY <1>0, <1>18 DEF ReviewerExits, ReviewTypeOK, StateRecord, Steps, Statuses, Free, Stranger, Runs
<1>19. CASE TimePasses
  BY <1>0, <1>19 DEF TimePasses, ReviewTypeOK
<1>20. ASSUME NEW p \in Pids, StrangerStarts(p) PROVE ReviewTypeOK'
  BY <1>0, <1>20 DEF StrangerStarts, ReviewTypeOK, StateRecord, Steps, Statuses, Free, Stranger, Runs
<1>21. CASE UNCHANGED reviewVars
  BY <1>0, <1>21 DEF ReviewTypeOK
<1>. QED
  BY <1>1, <1>2, <1>3, <1>4, <1>5, <1>6, <1>7, <1>8, <1>9, <1>10, <1>11, <1>12, <1>13, <1>14, <1>15, <1>16, <1>17, <1>18, <1>19, <1>20, <1>21 DEF ReviewNext, ReviewSchedulerStep

(* The lock is taken by one scheduler and left by it.                      *)
LEMMA NextLock ==
  ASSUME ReviewInv, [ReviewNext]_reviewVars
  PROVE  LockInv'
<1>0. LockInv /\ DOMAIN step = Schedulers
  BY DEF ReviewInv, ReviewTypeOK
<1>1. CASE UNCHANGED <<step, lock>>
  BY <1>0, <1>1 DEF LockInv
<1>2. ASSUME NEW t \in Schedulers, ReviewSchedulerStep(t) \/ PsFails(t) \/ SchedulerDies(t)
      PROVE  LockInv'
  BY <1>0, <1>2 DEF LockInv, ReviewSchedulerStep, Tick, NoPriorReviewer, SkipTick, TermOrphan, KillOrphan,
         StartRun, Spawn, SpawnFails, RecordReviewer, WritePrompt, ReviewEnds, TimedOut, Interrupted,
         FinishRun, PsFails, SchedulerDies
<1>. QED
  BY <1>1, <1>2 DEF ReviewNext, ThreadStarted, ReviewerExits, TimePasses, StrangerStarts

LEMMA NextRun ==
  ASSUME ReviewInv, [ReviewNext]_reviewVars
  PROVE  RunInv'
<1>0. /\ DOMAIN proc = Pids /\ DOMAIN step = Schedulers /\ prompted \subseteq Runs
      /\ state.run \in 0 .. MaxRuns /\ LockInv /\ RunInv
  BY DEF ReviewInv, ReviewTypeOK, StateRecord
<1>1. ASSUME NEW t \in Schedulers, Tick(t) PROVE RunInv'
  BY <1>0, <1>1 DEF Tick, LockInv, RunInv, Reviewing, Alive, Runs, Free, Stranger
<1>2. ASSUME NEW t \in Schedulers, NoPriorReviewer(t) PROVE RunInv'
  BY <1>0, <1>2 DEF NoPriorReviewer, LockInv, RunInv, Reviewing, Alive, Runs, Free, Stranger
<1>3. ASSUME NEW t \in Schedulers, SkipTick(t) PROVE RunInv'
  BY <1>0, <1>3 DEF SkipTick, LockInv, RunInv, Reviewing, Alive, Runs, Free, Stranger
<1>4. ASSUME NEW t \in Schedulers, TermOrphan(t) PROVE RunInv'
  BY <1>0, <1>4 DEF TermOrphan, LockInv, RunInv, Reviewing, Alive, Runs, Free, Stranger
<1>5. ASSUME NEW t \in Schedulers, KillOrphan(t) PROVE RunInv'
  BY <1>0, <1>5 DEF KillOrphan, LockInv, RunInv, Reviewing, Alive, Runs, Free, Stranger
<1>6. ASSUME NEW t \in Schedulers, StartRun(t) PROVE RunInv'
  <2>1. step[t] = "start" /\ step' = [step EXCEPT ![t] = "spawn"] /\ UNCHANGED <<lock, proc, prompted>>
    BY <1>6 DEF StartRun
  <2>2. state \in StateRecord
    BY DEF ReviewInv, ReviewTypeOK
  <2>3. state.run < MaxRuns
    BY <1>0, <2>1 DEF RunInv
  <2>4. state'.run = state.run + 1 /\ memory'.run = state.run + 1
    BY <1>6, <2>2 DEF StartRun, StateRecord
  <2>5. state.run + 1 \in Runs
    BY <1>0, <2>3 DEF Runs
  <2>. QED
    BY <1>0, <2>1, <2>3, <2>4, <2>5 DEF LockInv, RunInv, Reviewing, Alive, Runs
<1>7. ASSUME NEW t \in Schedulers, Spawn(t) PROVE RunInv'
  BY <1>0, <1>7 DEF Spawn, LockInv, RunInv, Reviewing, Alive, Runs, Free, Stranger
<1>8. ASSUME NEW t \in Schedulers, SpawnFails(t) PROVE RunInv'
  BY <1>0, <1>8 DEF SpawnFails, LockInv, RunInv, Reviewing, Alive, Runs, Free, Stranger
<1>9. ASSUME NEW t \in Schedulers, RecordReviewer(t) PROVE RunInv'
  BY <1>0, <1>9 DEF RecordReviewer, LockInv, RunInv, Reviewing, Alive, Runs, Free, Stranger
<1>10. ASSUME NEW t \in Schedulers, WritePrompt(t) PROVE RunInv'
  BY <1>0, <1>10 DEF WritePrompt, LockInv, RunInv, Reviewing, Alive, Runs, Free, Stranger
<1>11. ASSUME NEW t \in Schedulers, ReviewEnds(t) PROVE RunInv'
  BY <1>0, <1>11 DEF ReviewEnds, LockInv, RunInv, Reviewing, Alive, Runs, Free, Stranger
<1>12. ASSUME NEW t \in Schedulers, TimedOut(t) PROVE RunInv'
  BY <1>0, <1>12 DEF TimedOut, LockInv, RunInv, Reviewing, Alive, Runs, Free, Stranger
<1>13. ASSUME NEW t \in Schedulers, Interrupted(t) PROVE RunInv'
  BY <1>0, <1>13 DEF Interrupted, LockInv, RunInv, Reviewing, Alive, Runs, Free, Stranger
<1>14. ASSUME NEW t \in Schedulers, FinishRun(t) PROVE RunInv'
  BY <1>0, <1>14 DEF FinishRun, LockInv, RunInv, Reviewing, Alive, Runs, Free, Stranger
<1>15. ASSUME NEW t \in Schedulers, PsFails(t) PROVE RunInv'
  <2>1. CASE step[t] = "check"
    BY <1>0, <1>15, <2>1 DEF PsFails, LockInv, RunInv, Reviewing, Alive
  <2>2. CASE step[t] = "record"
    <3>1. memory'.run = memory.run /\ step' = [step EXCEPT ![t] = "finish"]
      <4>1. memory \in StateRecord
        BY DEF ReviewInv, ReviewTypeOK
      <4>2. memory' = [memory EXCEPT !.status = "review_failed"] /\ Goto(t, "finish")
        BY <1>15, <2>2 DEF PsFails
      <4>. QED
        BY <4>1, <4>2 DEF StateRecord
    <3>2. UNCHANGED <<lock, state, proc, prompted>>
      BY <1>15, <2>2 DEF PsFails
    <3>. QED
      BY <1>0, <2>2, <3>1, <3>2 DEF LockInv, RunInv, Reviewing, Alive
  <2>. QED
    BY <1>15, <2>1, <2>2 DEF PsFails
<1>16. ASSUME NEW t \in Schedulers, SchedulerDies(t) PROVE RunInv'
  BY <1>0, <1>16 DEF SchedulerDies, LockInv, RunInv, Reviewing, Alive, Runs, Free, Stranger
<1>17. ASSUME NEW r \in Runs, ThreadStarted(r) PROVE RunInv'
  BY <1>0, <1>17 DEF ThreadStarted, LockInv, RunInv, Reviewing, Alive, Runs, Free, Stranger
<1>18. ASSUME NEW r \in Runs, ReviewerExits(r) PROVE RunInv'
  BY <1>0, <1>18 DEF ReviewerExits, LockInv, RunInv, Reviewing, Alive, Runs, Free, Stranger
<1>19. CASE TimePasses
  BY <1>0, <1>19 DEF TimePasses, LockInv, RunInv, Reviewing, Alive, Runs, Free, Stranger
<1>20. ASSUME NEW p \in Pids, StrangerStarts(p) PROVE RunInv'
  BY <1>0, <1>20 DEF StrangerStarts, LockInv, RunInv, Reviewing, Alive, Runs, Free, Stranger
<1>21. CASE UNCHANGED reviewVars
  BY <1>0, <1>21 DEF LockInv, RunInv, Reviewing, Alive, Runs, Free, Stranger
<1>. QED
  BY <1>1, <1>2, <1>3, <1>4, <1>5, <1>6, <1>7, <1>8, <1>9, <1>10, <1>11, <1>12, <1>13, <1>14, <1>15, <1>16, <1>17, <1>18, <1>19, <1>20, <1>21 DEF ReviewNext, ReviewSchedulerStep

LEMMA NextPid ==
  ASSUME ReviewInv, [ReviewNext]_reviewVars
  PROVE  PidInv'
<1>0. /\ DOMAIN proc = Pids /\ DOMAIN step = Schedulers /\ prompted \subseteq Runs
      /\ state.run \in 0 .. MaxRuns /\ LockInv /\ RunInv /\ PidInv
  BY DEF ReviewInv, ReviewTypeOK, StateRecord
<1>1. ASSUME NEW t \in Schedulers, Tick(t) PROVE PidInv'
  BY <1>0, <1>1 DEF Tick, LockInv, RunInv, Reviewing, Alive, Runs, Free, Stranger, PidInv
<1>2. ASSUME NEW t \in Schedulers, NoPriorReviewer(t) PROVE PidInv'
  BY <1>0, <1>2 DEF NoPriorReviewer, LockInv, RunInv, Reviewing, Alive, Runs, Free, Stranger, PidInv
<1>3. ASSUME NEW t \in Schedulers, SkipTick(t) PROVE PidInv'
  BY <1>0, <1>3 DEF SkipTick, LockInv, RunInv, Reviewing, Alive, Runs, Free, Stranger, PidInv
<1>4. ASSUME NEW t \in Schedulers, TermOrphan(t) PROVE PidInv'
  BY <1>0, <1>4 DEF TermOrphan, LockInv, RunInv, Reviewing, Alive, Runs, Free, Stranger, PidInv
<1>5. ASSUME NEW t \in Schedulers, KillOrphan(t) PROVE PidInv'
  BY <1>0, <1>5 DEF KillOrphan, LockInv, RunInv, Reviewing, Alive, Runs, Free, Stranger, PidInv
<1>6. ASSUME NEW t \in Schedulers, StartRun(t) PROVE PidInv'
  BY <1>0, <1>6 DEF StartRun, LockInv, RunInv, Reviewing, Alive, Runs, Free, Stranger, PidInv
<1>7. ASSUME NEW t \in Schedulers, Spawn(t) PROVE PidInv'
  BY <1>0, <1>7 DEF Spawn, LockInv, RunInv, Reviewing, Alive, Runs, Free, Stranger, PidInv
<1>8. ASSUME NEW t \in Schedulers, SpawnFails(t) PROVE PidInv'
  BY <1>0, <1>8 DEF SpawnFails, LockInv, RunInv, Reviewing, Alive, Runs, Free, Stranger, PidInv
<1>9. ASSUME NEW t \in Schedulers, RecordReviewer(t) PROVE PidInv'
  BY <1>0, <1>9 DEF RecordReviewer, LockInv, RunInv, Reviewing, Alive, Runs, Free, Stranger, PidInv
<1>10. ASSUME NEW t \in Schedulers, WritePrompt(t) PROVE PidInv'
  BY <1>0, <1>10 DEF WritePrompt, LockInv, RunInv, Reviewing, Alive, Runs, Free, Stranger, PidInv
<1>11. ASSUME NEW t \in Schedulers, ReviewEnds(t) PROVE PidInv'
  BY <1>0, <1>11 DEF ReviewEnds, LockInv, RunInv, Reviewing, Alive, Runs, Free, Stranger, PidInv
<1>12. ASSUME NEW t \in Schedulers, TimedOut(t) PROVE PidInv'
  BY <1>0, <1>12 DEF TimedOut, LockInv, RunInv, Reviewing, Alive, Runs, Free, Stranger, PidInv
<1>13. ASSUME NEW t \in Schedulers, Interrupted(t) PROVE PidInv'
  BY <1>0, <1>13 DEF Interrupted, LockInv, RunInv, Reviewing, Alive, Runs, Free, Stranger, PidInv
<1>14. ASSUME NEW t \in Schedulers, FinishRun(t) PROVE PidInv'
  BY <1>0, <1>14 DEF FinishRun, LockInv, RunInv, Reviewing, Alive, Runs, Free, Stranger, PidInv
<1>15. ASSUME NEW t \in Schedulers, PsFails(t) PROVE PidInv'
  BY <1>0, <1>15 DEF PsFails, LockInv, RunInv, Reviewing, Alive, Runs, Free, Stranger, PidInv
<1>16. ASSUME NEW t \in Schedulers, SchedulerDies(t) PROVE PidInv'
  BY <1>0, <1>16 DEF SchedulerDies, LockInv, RunInv, Reviewing, Alive, Runs, Free, Stranger, PidInv
<1>17. ASSUME NEW r \in Runs, ThreadStarted(r) PROVE PidInv'
  BY <1>0, <1>17 DEF ThreadStarted, LockInv, RunInv, Reviewing, Alive, Runs, Free, Stranger, PidInv
<1>18. ASSUME NEW r \in Runs, ReviewerExits(r) PROVE PidInv'
  BY <1>0, <1>18 DEF ReviewerExits, LockInv, RunInv, Reviewing, Alive, Runs, Free, Stranger, PidInv
<1>19. CASE TimePasses
  BY <1>0, <1>19 DEF TimePasses, LockInv, RunInv, Reviewing, Alive, Runs, Free, Stranger, PidInv
<1>20. ASSUME NEW p \in Pids, StrangerStarts(p) PROVE PidInv'
  BY <1>0, <1>20 DEF StrangerStarts, LockInv, RunInv, Reviewing, Alive, Runs, Free, Stranger, PidInv
<1>21. CASE UNCHANGED reviewVars
  BY <1>0, <1>21 DEF LockInv, RunInv, Reviewing, Alive, Runs, Free, Stranger, PidInv
<1>. QED
  BY <1>1, <1>2, <1>3, <1>4, <1>5, <1>6, <1>7, <1>8, <1>9, <1>10, <1>11, <1>12, <1>13, <1>14, <1>15, <1>16, <1>17, <1>18, <1>19, <1>20, <1>21 DEF ReviewNext, ReviewSchedulerStep

LEMMA NextRecord ==
  ASSUME ReviewInv, [ReviewNext]_reviewVars
  PROVE  RecordInv'
<1>0. /\ DOMAIN proc = Pids /\ DOMAIN step = Schedulers /\ prompted \subseteq Runs
      /\ state.run \in 0 .. MaxRuns /\ LockInv /\ RunInv /\ PidInv /\ RecordInv
  BY DEF ReviewInv, ReviewTypeOK, StateRecord
<1>1. ASSUME NEW t \in Schedulers, Tick(t) PROVE RecordInv'
  BY <1>0, <1>1 DEF Tick, LockInv, RunInv, Reviewing, Alive, Runs, Free, Stranger, PidInv, RecordInv, Quiet
<1>2. ASSUME NEW t \in Schedulers, NoPriorReviewer(t) PROVE RecordInv'
  BY <1>0, <1>2 DEF NoPriorReviewer, RecordedIsRunning, LockInv, RunInv, Reviewing, Alive, Runs, RecordInv, Quiet
<1>3. ASSUME NEW t \in Schedulers, SkipTick(t) PROVE RecordInv'
  BY <1>0, <1>3 DEF SkipTick, LockInv, RunInv, Reviewing, Alive, Runs, Free, Stranger, PidInv, RecordInv, Quiet
<1>4. ASSUME NEW t \in Schedulers, TermOrphan(t) PROVE RecordInv'
  BY <1>0, <1>4 DEF TermOrphan, LockInv, RunInv, Reviewing, Alive, Runs, Free, Stranger, PidInv, RecordInv, Quiet
<1>5. ASSUME NEW t \in Schedulers, KillOrphan(t) PROVE RecordInv'
  BY <1>0, <1>5 DEF KillOrphan, LockInv, RunInv, Reviewing, Alive, Runs, Free, Stranger, PidInv, RecordInv, Quiet
<1>6. ASSUME NEW t \in Schedulers, StartRun(t) PROVE RecordInv'
  BY <1>0, <1>6 DEF StartRun, LockInv, RunInv, Reviewing, Alive, Runs, Free, Stranger, PidInv, RecordInv, Quiet
<1>7. ASSUME NEW t \in Schedulers, Spawn(t) PROVE RecordInv'
  BY <1>0, <1>7 DEF Spawn, LockInv, RunInv, Reviewing, Alive, Runs, Free, Stranger, PidInv, RecordInv, Quiet
<1>8. ASSUME NEW t \in Schedulers, SpawnFails(t) PROVE RecordInv'
  BY <1>0, <1>8 DEF SpawnFails, LockInv, RunInv, Reviewing, Alive, Runs, Free, Stranger, PidInv, RecordInv, Quiet
<1>9. ASSUME NEW t \in Schedulers, RecordReviewer(t) PROVE RecordInv'
  BY <1>0, <1>9 DEF RecordReviewer, LockInv, RunInv, Reviewing, Alive, Runs, Free, Stranger, PidInv, RecordInv, Quiet
<1>10. ASSUME NEW t \in Schedulers, WritePrompt(t) PROVE RecordInv'
  BY <1>0, <1>10 DEF WritePrompt, LockInv, RunInv, Reviewing, Alive, Runs, Free, Stranger, PidInv, RecordInv, Quiet
<1>11. ASSUME NEW t \in Schedulers, ReviewEnds(t) PROVE RecordInv'
  BY <1>0, <1>11 DEF ReviewEnds, LockInv, RunInv, Reviewing, Alive, Runs, Free, Stranger, PidInv, RecordInv, Quiet
<1>12. ASSUME NEW t \in Schedulers, TimedOut(t) PROVE RecordInv'
  BY <1>0, <1>12 DEF TimedOut, LockInv, RunInv, Reviewing, Alive, Runs, Free, Stranger, PidInv, RecordInv, Quiet
<1>13. ASSUME NEW t \in Schedulers, Interrupted(t) PROVE RecordInv'
  BY <1>0, <1>13 DEF Interrupted, LockInv, RunInv, Reviewing, Alive, Runs, Free, Stranger, PidInv, RecordInv, Quiet
<1>14. ASSUME NEW t \in Schedulers, FinishRun(t) PROVE RecordInv'
  BY <1>0, <1>14 DEF FinishRun, LockInv, RunInv, Reviewing, Alive, Runs, Free, Stranger, PidInv, RecordInv, Quiet
<1>15. ASSUME NEW t \in Schedulers, PsFails(t) PROVE RecordInv'
  BY <1>0, <1>15 DEF PsFails, LockInv, RunInv, Reviewing, Alive, Runs, Free, Stranger, PidInv, RecordInv, Quiet
<1>16. ASSUME NEW t \in Schedulers, SchedulerDies(t) PROVE RecordInv'
  BY <1>0, <1>16 DEF SchedulerDies, LockInv, RunInv, Reviewing, Alive, Runs, Free, Stranger, PidInv, RecordInv, Quiet
<1>17. ASSUME NEW r \in Runs, ThreadStarted(r) PROVE RecordInv'
  BY <1>0, <1>17 DEF ThreadStarted, LockInv, RunInv, Reviewing, Alive, Runs, Free, Stranger, PidInv, RecordInv, Quiet
<1>18. ASSUME NEW r \in Runs, ReviewerExits(r) PROVE RecordInv'
  BY <1>0, <1>18 DEF ReviewerExits, LockInv, RunInv, Reviewing, Alive, Runs, Free, Stranger, PidInv, RecordInv, Quiet
<1>19. CASE TimePasses
  BY <1>0, <1>19 DEF TimePasses, LockInv, RunInv, Reviewing, Alive, Runs, Free, Stranger, PidInv, RecordInv, Quiet
<1>20. ASSUME NEW p \in Pids, StrangerStarts(p) PROVE RecordInv'
  BY <1>0, <1>20 DEF StrangerStarts, LockInv, RunInv, Reviewing, Alive, Runs, Free, Stranger, PidInv, RecordInv, Quiet
<1>21. CASE UNCHANGED reviewVars
  BY <1>0, <1>21 DEF LockInv, RunInv, Reviewing, Alive, Runs, Free, Stranger, PidInv, RecordInv, Quiet
<1>. QED
  BY <1>1, <1>2, <1>3, <1>4, <1>5, <1>6, <1>7, <1>8, <1>9, <1>10, <1>11, <1>12, <1>13, <1>14, <1>15, <1>16, <1>17, <1>18, <1>19, <1>20, <1>21 DEF ReviewNext, ReviewSchedulerStep

LEMMA NextThread ==
  ASSUME ReviewInv, [ReviewNext]_reviewVars
  PROVE  ThreadInv'
<1>0. /\ DOMAIN proc = Pids /\ DOMAIN step = Schedulers /\ prompted \subseteq Runs
      /\ DOMAIN events = Runs /\ DOMAIN resumes = Runs
      /\ state \in StateRecord /\ memory \in StateRecord /\ state.run \in 0 .. MaxRuns
      /\ LockInv /\ RunInv /\ RecordInv /\ ThreadInv
  BY DEF ReviewInv, ReviewTypeOK, StateRecord
<1>1. ASSUME NEW t \in Schedulers, Tick(t) PROVE ThreadInv'
  BY <1>0, <1>1 DEF Tick, LockInv, RunInv, Reviewing, Alive, Runs, Free, Stranger, RecordInv, Quiet, ThreadInv
<1>2. ASSUME NEW t \in Schedulers, NoPriorReviewer(t) PROVE ThreadInv'
  BY <1>0, <1>2 DEF NoPriorReviewer, LockInv, RunInv, Reviewing, Alive, Runs, Free, Stranger, RecordInv, Quiet, ThreadInv
<1>3. ASSUME NEW t \in Schedulers, SkipTick(t) PROVE ThreadInv'
  BY <1>0, <1>3 DEF SkipTick, LockInv, RunInv, Reviewing, Alive, Runs, Free, Stranger, RecordInv, Quiet, ThreadInv
<1>4. ASSUME NEW t \in Schedulers, TermOrphan(t) PROVE ThreadInv'
  BY <1>0, <1>4 DEF TermOrphan, LockInv, RunInv, Reviewing, Alive, Runs, Free, Stranger, RecordInv, Quiet, ThreadInv
<1>5. ASSUME NEW t \in Schedulers, KillOrphan(t) PROVE ThreadInv'
  BY <1>0, <1>5 DEF KillOrphan, LockInv, RunInv, Reviewing, Alive, Runs, Free, Stranger, RecordInv, Quiet, ThreadInv
<1>6. ASSUME NEW t \in Schedulers, StartRun(t) PROVE ThreadInv'
  BY <1>0, <1>6 DEF StartRun, LockInv, RunInv, Reviewing, Alive, Runs, Free, Stranger, RecordInv, Quiet, ThreadInv, KnownThread, StateRecord
<1>7. ASSUME NEW t \in Schedulers, Spawn(t) PROVE ThreadInv'
  BY <1>0, <1>7 DEF Spawn, LockInv, RunInv, Reviewing, Alive, Runs, Free, Stranger, RecordInv, Quiet, ThreadInv, StateRecord
<1>8. ASSUME NEW t \in Schedulers, SpawnFails(t) PROVE ThreadInv'
  BY <1>0, <1>8 DEF SpawnFails, LockInv, RunInv, Reviewing, Alive, Runs, Free, Stranger, RecordInv, Quiet, ThreadInv, StateRecord
<1>9. ASSUME NEW t \in Schedulers, RecordReviewer(t) PROVE ThreadInv'
  BY <1>0, <1>9 DEF RecordReviewer, LockInv, RunInv, Reviewing, Alive, Runs, Free, Stranger, RecordInv, Quiet, ThreadInv, StateRecord
<1>10. ASSUME NEW t \in Schedulers, WritePrompt(t) PROVE ThreadInv'
  BY <1>0, <1>10 DEF WritePrompt, LockInv, RunInv, Reviewing, Alive, Runs, Free, Stranger, RecordInv, Quiet, ThreadInv
<1>11. ASSUME NEW t \in Schedulers, ReviewEnds(t) PROVE ThreadInv'
  BY <1>0, <1>11 DEF ReviewEnds, LockInv, RunInv, Reviewing, Alive, Runs, Free, Stranger, RecordInv, Quiet, ThreadInv, StateRecord
<1>12. ASSUME NEW t \in Schedulers, TimedOut(t) PROVE ThreadInv'
  BY <1>0, <1>12 DEF TimedOut, LockInv, RunInv, Reviewing, Alive, Runs, Free, Stranger, RecordInv, Quiet, ThreadInv, StateRecord
<1>13. ASSUME NEW t \in Schedulers, Interrupted(t) PROVE ThreadInv'
  BY <1>0, <1>13 DEF Interrupted, LockInv, RunInv, Reviewing, Alive, Runs, Free, Stranger, RecordInv, Quiet, ThreadInv
<1>14. ASSUME NEW t \in Schedulers, FinishRun(t) PROVE ThreadInv'
  BY <1>0, <1>14 DEF FinishRun, LockInv, RunInv, Reviewing, Alive, Runs, Free, Stranger, RecordInv, Quiet, ThreadInv, StateRecord
<1>15. ASSUME NEW t \in Schedulers, PsFails(t) PROVE ThreadInv'
  BY <1>0, <1>15 DEF PsFails, LockInv, RunInv, Reviewing, Alive, Runs, Free, Stranger, RecordInv, Quiet, ThreadInv, StateRecord
<1>16. ASSUME NEW t \in Schedulers, SchedulerDies(t) PROVE ThreadInv'
  BY <1>0, <1>16 DEF SchedulerDies, LockInv, RunInv, Reviewing, Alive, Runs, Free, Stranger, RecordInv, Quiet, ThreadInv
<1>17. ASSUME NEW r \in Runs, ThreadStarted(r) PROVE ThreadInv'
  BY <1>0, <1>17 DEF ThreadStarted, LockInv, RunInv, Reviewing, Alive, Runs, Free, Stranger, RecordInv, Quiet, ThreadInv
<1>18. ASSUME NEW r \in Runs, ReviewerExits(r) PROVE ThreadInv'
  BY <1>0, <1>18 DEF ReviewerExits, LockInv, RunInv, Reviewing, Alive, Runs, Free, Stranger, RecordInv, Quiet, ThreadInv
<1>19. CASE TimePasses
  BY <1>0, <1>19 DEF TimePasses, LockInv, RunInv, Reviewing, Alive, Runs, Free, Stranger, RecordInv, Quiet, ThreadInv
<1>20. ASSUME NEW p \in Pids, StrangerStarts(p) PROVE ThreadInv'
  BY <1>0, <1>20 DEF StrangerStarts, LockInv, RunInv, Reviewing, Alive, Runs, Free, Stranger, RecordInv, Quiet, ThreadInv
<1>21. CASE UNCHANGED reviewVars
  BY <1>0, <1>21 DEF LockInv, RunInv, Reviewing, Alive, Runs, Free, Stranger, RecordInv, Quiet, ThreadInv
<1>. QED
  BY <1>1, <1>2, <1>3, <1>4, <1>5, <1>6, <1>7, <1>8, <1>9, <1>10, <1>11, <1>12, <1>13, <1>14, <1>15, <1>16, <1>17, <1>18, <1>19, <1>20, <1>21 DEF ReviewNext, ReviewSchedulerStep

LEMMA NextReview ==
  ASSUME ReviewInv, [ReviewNext]_reviewVars
  PROVE  ReviewInv'
BY NextReviewType, NextLock, NextRun, NextPid, NextRecord, NextThread DEF ReviewInv

(* Every variable of the reviewer stays in its type.                       *)
THEOREM ReviewTypes == ReviewSpec => []ReviewTypeOK
<1>1. ReviewInv => ReviewTypeOK
  BY DEF ReviewInv
<1>. QED
  BY <1>1, InitReview, NextReview, PTL DEF ReviewSpec

(* However many schedulers tick, wherever they die and whichever numbers   *)
(* the system gives out again, two reviewers with a prompt never work at   *)
(* the same time unless an operator interrupted the scheduler of one       *)
(* (prior_reviewer_running and the record that is saved before the prompt). *)
THEOREM OneReviewer == ReviewSpec => []SoleReviewer
<1>1. ReviewInv => SoleReviewer
  BY DEF ReviewInv, RecordInv, SoleReviewer
<1>. QED
  BY <1>1, InitReview, NextReview, PTL DEF ReviewSpec

(* No run that was not interrupted opens a second thread: what a scheduler *)
(* that died never saved is recovered from the events of its run before    *)
(* the next one starts (campaign_review.py, the start of review_locked).   *)
THEOREM SingleThread == ReviewSpec => []OneThread
<1>1. ReviewInv => OneThread
  <2>. SUFFICES ASSUME ReviewInv, NEW r \in Runs \ abandoned, NEW s \in Runs \ abandoned,
                       events[r] # 0, events[s] # 0
                PROVE  events[r] = events[s]
    BY DEF OneThread
  <2>1. ThreadInv
    BY DEF ReviewInv
  <2>. QED
    BY <2>1 DEF ThreadInv
<1>. QED
  BY <1>1, InitReview, NextReview, PTL DEF ReviewSpec
=============================================================================
