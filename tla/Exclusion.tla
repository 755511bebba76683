----------------------------- MODULE Exclusion -----------------------------
(***************************************************************************)
(* What the P426 exclusion locks promise, with no lock in sight: a set of  *)
(* processes is inside; a process may enter only when nobody it excludes   *)
(* is inside, and it is turned away only because somebody it excludes is   *)
(* inside, or because it could not find out in time.                       *)
(***************************************************************************)
CONSTANTS Procs, Conflict(_, _)

VARIABLES inside, turnedAway

vars == <<inside, turnedAway>>

Init == inside = {} /\ turnedAway = {}

Enter(p) ==
  /\ p \notin inside
  /\ \A q \in inside : ~Conflict(p, q)
  /\ inside' = inside \cup {p}
  /\ UNCHANGED turnedAway

Leave(p) ==
  /\ p \in inside
  /\ inside' = inside \ {p}
  /\ UNCHANGED turnedAway

TurnAway(p) ==
  /\ p \notin inside
  /\ \E q \in inside : Conflict(p, q)
  /\ turnedAway' = turnedAway \cup {p}
  /\ UNCHANGED inside

TryAgain(p) ==
  /\ p \in turnedAway
  /\ turnedAway' = turnedAway \ {p}
  /\ UNCHANGED inside

Next == \E p \in Procs : Enter(p) \/ Leave(p) \/ TurnAway(p) \/ TryAgain(p)

Spec == Init /\ [][Next]_vars
=============================================================================
