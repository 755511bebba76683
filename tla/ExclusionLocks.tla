--------------------------- MODULE ExclusionLocks ---------------------------
(***************************************************************************)
(* The P426 exclusion locks (bench/p426_locks.py): flocks on files of      *)
(* $STACK_WORKDIR that keep a local gate run apart from the Wave-2         *)
(* sequencer and from every chain leg.  An actor takes the arbiter, tries  *)
(* each opposing lock (taking it for a moment), takes its own lock and     *)
(* releases the arbiter.  Locks belong to an open file of a process, so    *)
(* the death of a process drops all it holds.                              *)
(***************************************************************************)
EXTENDS Naturals, Sequences

CONSTANTS
  Procs,        \* processes that may start as an actor
  ActorOf,      \* the actor each process starts as
  NoProc,       \* no process: a free lock
  Hung          \* processes that may be suspended for ever at any point

Actors == {"gate", "sequencer", "chain"}

ASSUME ProcsAssumption ==
  /\ ActorOf \in [Procs -> Actors]
  /\ NoProc \notin Procs
  /\ Hung \subseteq Procs

Locks == {"ARBITER", "RUNNING", "SEQUENCER", "LEG"}

Own == [a \in Actors |->
          CASE a = "gate" -> "RUNNING"
            [] a = "sequencer" -> "SEQUENCER"
            [] a = "chain" -> "LEG"]

(* Mutant: a gate run looks for the sequencer only.                        *)
OpposingWithoutLeg == [a \in Actors |->
                         IF a = "gate" THEN <<"SEQUENCER">> ELSE <<"RUNNING">>]

Opposing == [a \in Actors |->
               IF a = "gate" THEN <<"SEQUENCER", "LEG">> ELSE <<"RUNNING">>]

VARIABLES
  pc,       \* where each process is
  at,       \* index of the opposing lock it tries next (1 outside acquire())
  late,     \* it waits for the arbiter and its deadline has passed
  why,      \* the lock whose holder refused it, "arbiter_timeout", "unreadable" or "none"
  holder,   \* lock -> the process whose open file holds the flock
  files     \* the lock files that exist

vars == <<pc, at, late, why, holder, files>>

PCs == {"out", "waiting", "probe", "probed", "taken", "leave", "running", "refused"}

OwnLock(p) == Own[ActorOf[p]]
ToProbe(p) == Opposing[ActorOf[p]]
Target(p)  == ToProbe(p)[at[p]]

Init ==
  /\ pc = [p \in Procs |-> "out"]
  /\ at = [p \in Procs |-> 1]
  /\ late = [p \in Procs |-> FALSE]
  /\ why = [p \in Procs |-> "none"]
  /\ holder = [l \in Locks |-> NoProc]
  /\ files = {}

(* acquire() is called: _take_arbiter opens (creates) the arbiter's file.  *)
Start(p) ==
  /\ pc[p] \in {"out", "refused"}
  /\ pc' = [pc EXCEPT ![p] = "waiting"]
  /\ why' = [why EXCEPT ![p] = "none"]
  /\ files' = files \cup {"ARBITER"}
  /\ UNCHANGED <<at, late, holder>>

(* Mutant: a lock that several may share.                                  *)
TakeArbiterShared(p) ==
  /\ pc[p] = "waiting"
  /\ holder' = [holder EXCEPT !["ARBITER"] = p]
  /\ pc' = [pc EXCEPT ![p] = "probe"]
  /\ late' = [late EXCEPT ![p] = FALSE]
  /\ UNCHANGED <<at, why, files>>

(* The poll loop of _take_arbiter: the non-blocking try succeeds ...       *)
TakeArbiter(p) ==
  /\ pc[p] = "waiting"
  /\ holder["ARBITER"] = NoProc
  /\ holder' = [holder EXCEPT !["ARBITER"] = p]
  /\ pc' = [pc EXCEPT ![p] = "probe"]
  /\ late' = [late EXCEPT ![p] = FALSE]
  /\ UNCHANGED <<at, why, files>>

(* Mutant: every try sets a new deadline.                                  *)
DeadlineRenewed(p) ==
  /\ pc[p] = "waiting" /\ ~late[p]
  /\ late' = [late EXCEPT ![p] = FALSE]
  /\ UNCHANGED <<pc, at, why, holder, files>>

(* ... or time passes ...                                                  *)
Deadline(p) ==
  /\ pc[p] = "waiting" /\ ~late[p]
  /\ late' = [late EXCEPT ![p] = TRUE]
  /\ UNCHANGED <<pc, at, why, holder, files>>

(* ... until a failed try finds the deadline passed.                       *)
ArbiterTimeout(p) ==
  /\ pc[p] = "waiting" /\ late[p]
  /\ holder["ARBITER"] # NoProc
  /\ pc' = [pc EXCEPT ![p] = "refused"]
  /\ why' = [why EXCEPT ![p] = "arbiter_timeout"]
  /\ late' = [late EXCEPT ![p] = FALSE]
  /\ UNCHANGED <<at, holder, files>>

Probing(p) == pc[p] = "probe" /\ at[p] <= Len(ToProbe(p))

(* _probe_free: a missing file is free, nothing is created.                *)
ProbeMissing(p) ==
  /\ Probing(p)
  /\ Target(p) \notin files
  /\ at' = [at EXCEPT ![p] = @ + 1]
  /\ UNCHANGED <<pc, late, why, holder, files>>

(* _probe_free: the try succeeds, the prober HOLDS the opponent's lock ... *)
ProbeFree(p) ==
  /\ Probing(p)
  /\ Target(p) \in files /\ holder[Target(p)] = NoProc
  /\ holder' = [holder EXCEPT ![Target(p)] = p]
  /\ pc' = [pc EXCEPT ![p] = "probed"]
  /\ UNCHANGED <<at, late, why, files>>

(* ... until it unlocks it.                                                *)
Unprobe(p) ==
  /\ pc[p] = "probed"
  /\ holder' = [holder EXCEPT ![Target(p)] = NoProc]
  /\ at' = [at EXCEPT ![p] = @ + 1]
  /\ pc' = [pc EXCEPT ![p] = "probe"]
  /\ UNCHANGED <<late, why, files>>

(* _probe_free: the opponent's lock is held.                               *)
ProbeHeld(p) ==
  /\ Probing(p)
  /\ Target(p) \in files /\ holder[Target(p)] # NoProc
  /\ pc' = [pc EXCEPT ![p] = "leave"]
  /\ why' = [why EXCEPT ![p] = Target(p)]
  /\ UNCHANGED <<at, late, holder, files>>

(* _probe_free: an open error other than "missing" is a refusal.           *)
ProbeUnreadable(p) ==
  /\ Probing(p)
  /\ Target(p) \in files
  /\ pc' = [pc EXCEPT ![p] = "leave"]
  /\ why' = [why EXCEPT ![p] = "unreadable"]
  /\ UNCHANGED <<at, late, holder, files>>

ProbesDone(p) == pc[p] = "probe" /\ at[p] > Len(ToProbe(p))

(* Mutant: the own file is opened, its lock is not tried.                  *)
TakeOwnBlind(p) ==
  /\ ProbesDone(p)
  /\ files' = files \cup {OwnLock(p)}
  /\ holder' = [holder EXCEPT ![OwnLock(p)] = p]
  /\ pc' = [pc EXCEPT ![p] = "taken"]
  /\ UNCHANGED <<at, late, why>>

(* Every opposing lock was free: open (create) the own file and try it.    *)
TakeOwn(p) ==
  /\ ProbesDone(p)
  /\ files' = files \cup {OwnLock(p)}
  /\ holder[OwnLock(p)] = NoProc
  /\ holder' = [holder EXCEPT ![OwnLock(p)] = p]
  /\ pc' = [pc EXCEPT ![p] = "taken"]
  /\ UNCHANGED <<at, late, why>>

OwnHeld(p) ==
  /\ ProbesDone(p)
  /\ files' = files \cup {OwnLock(p)}
  /\ holder[OwnLock(p)] # NoProc
  /\ pc' = [pc EXCEPT ![p] = "leave"]
  /\ why' = [why EXCEPT ![p] = OwnLock(p)]
  /\ UNCHANGED <<at, late, holder>>

(* The finally of acquire(): the arbiter is released on every path.        *)
ReleaseArbiter(p) ==
  /\ pc[p] \in {"taken", "leave"}
  /\ holder' = [holder EXCEPT !["ARBITER"] = NoProc]
  /\ pc' = [pc EXCEPT ![p] = IF pc[p] = "taken" THEN "running" ELSE "refused"]
  /\ at' = [at EXCEPT ![p] = 1]
  /\ UNCHANGED <<late, why, files>>

(* Held.release(): the run is over.                                        *)
Release(p) ==
  /\ pc[p] = "running"
  /\ holder' = [holder EXCEPT ![OwnLock(p)] = NoProc]
  /\ pc' = [pc EXCEPT ![p] = "out"]
  /\ UNCHANGED <<at, late, why, files>>

(* The process dies: the kernel closes its files and drops its flocks.     *)
Crash(p) ==
  /\ pc[p] \notin {"out", "refused"}
  /\ holder' = [l \in Locks |-> IF holder[l] = p THEN NoProc ELSE holder[l]]
  /\ pc' = [pc EXCEPT ![p] = "out"]
  /\ at' = [at EXCEPT ![p] = 1]
  /\ late' = [late EXCEPT ![p] = FALSE]
  /\ why' = [why EXCEPT ![p] = "none"]
  /\ UNCHANGED files

Acquire(p) ==
  \/ TakeArbiter(p) \/ ArbiterTimeout(p)
  \/ ProbeMissing(p) \/ ProbeFree(p) \/ Unprobe(p) \/ ProbeHeld(p) \/ ProbeUnreadable(p)
  \/ TakeOwn(p) \/ OwnHeld(p) \/ ReleaseArbiter(p)

Next == \E p \in Procs : Start(p) \/ Deadline(p) \/ Acquire(p) \/ Release(p) \/ Crash(p)

(* A process that is not hung runs acquire() on, and its clock advances.   *)
Fairness == \A p \in Procs \ Hung : WF_vars(Acquire(p)) /\ WF_vars(Deadline(p))

Spec == Init /\ [][Next]_vars /\ Fairness

-----------------------------------------------------------------------------
TypeOK ==
  /\ pc \in [Procs -> PCs]
  /\ at \in [Procs -> 1..3]
  /\ late \in [Procs -> BOOLEAN]
  /\ why \in [Procs -> Locks \cup {"none", "arbiter_timeout", "unreadable"}]
  /\ holder \in [Locks -> Procs \cup {NoProc}]
  /\ files \subseteq Locks

HoldsOwn(p) == pc[p] \in {"taken", "running"}

Opposes(a, b) == \E i \in 1..Len(Opposing[a]) : Opposing[a][i] = Own[b]

(* Two actors exclude each other: opposing ones, and two of one kind.      *)
Conflict(p, q) ==
  \/ Opposes(ActorOf[p], ActorOf[q])
  \/ p # q /\ ActorOf[p] = ActorOf[q]

(* "Of two simultaneous starters exactly one runs" (module doc, line 6):   *)
(* no gate run is ever past acquire() together with the sequencer or a     *)
(* chain leg, and no two processes of one role are.                        *)
MutualExclusion ==
  \A p, q \in Procs : HoldsOwn(p) /\ HoldsOwn(q) => ~Conflict(p, q)

(* The other half of that sentence: nobody is refused by a probe in        *)
(* passing.  The lock that refuses a starter is held at that moment by a   *)
(* process that has its own lock, not by another starter trying it out.    *)
RefusedByAHolder ==
  [][\A p \in Procs :
       why'[p] # why[p] /\ why'[p] \in Locks
         => \E q \in Procs \ {p} : /\ holder[why'[p]] = q
                                   /\ HoldsOwn(q)
                                   /\ OwnLock(q) = why'[p]]_vars

(* The bounded wait: a starter that is not itself suspended ends running,  *)
(* refused or dead even when another process is suspended for ever with    *)
(* the arbiter in its hands.                                               *)
StarterSettles ==
  \A p \in Procs \ Hung : pc[p] = "waiting" ~> pc[p] \in {"running", "refused", "out"}

(* Refinement: the processes whose own lock is held are the ones inside,   *)
(* and a refusal by a lock is a turning away.                              *)
Insiders == {p \in Procs : HoldsOwn(p)}
LockedOut == {p \in Procs : pc[p] \in {"leave", "refused"} /\ why[p] \in Locks}

Abstract == INSTANCE Exclusion WITH inside <- Insiders, turnedAway <- LockedOut

ImplementsExclusion == Abstract!Spec
=============================================================================
