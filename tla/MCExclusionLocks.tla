-------------------------- MODULE MCExclusionLocks --------------------------
(***************************************************************************)
(* What shares the worker out, on small instances: the exclusion locks,    *)
(* for two gate runs, the sequencer and a chain leg, and the work queue.   *)
(* They share no state: a behaviour is of the one that `part` names, and   *)
(* the variables of the other rest.                                        *)
(***************************************************************************)
EXTENDS ExclusionLocks, WorkQueue

CONSTANTS g1, g2, s1, c1

MCActorOf == [p \in Procs |->
                CASE p = s1 -> "sequencer" [] p = c1 -> "chain" [] OTHER -> "gate"]

(* Orders of two jobs, one refused, one migrated; no plan at all while the *)
(* operator writes it.                                                     *)
MCPlans == {<<"a", "b", "c">>, <<"b", "a">>, <<"d", "c", "a">>, <<>>}

-----------------------------------------------------------------------------
VARIABLE part

partVars == <<part, vars, queueVars>>

QueueAtRest ==
  /\ plan = <<>> /\ outcomes = Nothing /\ drops = {} /\ skip = "none" /\ runner = Idle
  /\ over = {} /\ sinceStop = 0 /\ acts = 0

PartsInit ==
  /\ part \in {"locks", "queue"} /\ Init
  /\ IF part = "queue" THEN QueueInit ELSE QueueAtRest

OfLocks(A) == part = "locks" /\ A /\ UNCHANGED <<part, queueVars>>
OfQueue(A) == part = "queue" /\ A /\ UNCHANGED <<part, vars>>

PartsNext ==
  \/ part = "locks" /\ Next      /\ UNCHANGED <<part, queueVars>>
  \/ part = "queue" /\ QueueNext /\ UNCHANGED <<part, vars>>
  \/ part = "queue" /\ runner.pc \in Ends /\ UNCHANGED partVars   \* no runner: at rest

(* The fairness of Spec and of QueueSpec, in this composition.             *)
PartsSpec ==
  /\ PartsInit /\ [][PartsNext]_partVars
  /\ \A p \in Procs \ Hung : /\ WF_partVars(OfLocks(Acquire(p)))
                             /\ WF_partVars(OfLocks(Deadline(p)))
  /\ WF_partVars(OfQueue(RunnerStep))
=============================================================================
