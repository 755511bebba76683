----------------------------- MODULE SlotLedger -----------------------------
(* What the incident-retry leg promises to whoever reads its slots, of     *)
(* whatever its chain and its probe die and however often it is resumed:   *)
(* each slot gets one outcome and keeps it, the row of one attempt or a    *)
(* dnf; the rows of an invocation count together, and after those of every *)
(* earlier one; only a restart of the load starts over; and the leg is     *)
(* done when no slot is open.                                              *)
EXTENDS Naturals

CONSTANT Slots

VARIABLES
  outcome,  \* each slot: open, a row of an attempt, or a dnf
  gen,      \* the load's generation
  done      \* the leg is complete

lvars == <<outcome, gen, done>>

Open      == [kind |-> "open", inv |-> 0, rindex |-> 0]
Dnf       == [kind |-> "dnf", inv |-> 0, rindex |-> 0]
Row(i, r) == [kind |-> "row", inv |-> i, rindex |-> r]

Init == outcome = [s \in Slots |-> Open] /\ gen = 0 /\ done = FALSE

(* The slots that take an outcome in this step; the others stay as they are. *)
New == {s \in Slots : outcome'[s] # outcome[s]}

(* The rows of one invocation, the last one so far.                        *)
Count ==
  /\ \A s, t \in New : outcome'[s] = outcome'[t]
  /\ \A s \in New : outcome'[s] = Row(outcome'[s].inv, outcome'[s].rindex)
  /\ \A s \in New, t \in Slots \ New : outcome[t].inv < outcome'[s].inv

GiveUp == \E s \in New : New = {s} /\ outcome'[s] = Dnf

Settle ==
  /\ ~done /\ UNCHANGED <<gen, done>>
  /\ New # {} /\ \A s \in New : outcome[s] = Open
  /\ Count \/ GiveUp

StartOver ==
  /\ ~done /\ UNCHANGED done
  /\ gen' = gen + 1 /\ outcome' = [s \in Slots |-> Open]

Complete ==
  /\ ~done /\ done' = TRUE /\ UNCHANGED <<outcome, gen>>
  /\ \A s \in Slots : outcome[s] # Open

Next == Settle \/ StartOver \/ Complete

Spec == Init /\ [][Next]_lvars
=============================================================================
