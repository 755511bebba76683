----------------------------- MODULE Inventory -----------------------------
(* What the chain's progress inventory promises, whatever becomes of the   *)
(* process in the middle of a file move: an invocation is registered, its  *)
(* rows are counted, and invocations leave the inventory together, all or  *)
(* none; when a whole load leaves, its generation advances by one.         *)
EXTENDS Naturals

CONSTANT Invocations

VARIABLES
  place,  \* each invocation: "absent", "running", "counted" or "out"
  gen     \* the load's generation

ivars == <<place, gen>>

Init == place = [i \in Invocations |-> "absent"] /\ gen = 0

Register(i) ==
  /\ place[i] = "absent"
  /\ place' = [place EXCEPT ![i] = "running"]
  /\ UNCHANGED gen

Count(i) ==
  /\ place[i] = "running"
  /\ place' = [place EXCEPT ![i] = "counted"]
  /\ UNCHANGED gen

Active == {i \in Invocations : place[i] \in {"running", "counted"}}

Out(S) == place' = [i \in Invocations |-> IF i \in S THEN "out" ELSE place[i]]

Leave(S) == S \subseteq Active /\ Out(S) /\ UNCHANGED gen

LeaveAll == Out(Active) /\ gen' = gen + 1

Next ==
  \/ \E i \in Invocations : Register(i) \/ Count(i)
  \/ \E S \in SUBSET Invocations : Leave(S)
  \/ LeaveAll

Spec == Init /\ [][Next]_ivars
=============================================================================
