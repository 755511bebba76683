--------------------------- MODULE SearxngQualify ---------------------------
(***************************************************************************)
(* The SearXNG qualification (scripts/websearch/searxng_qualify.py): every *)
(* engine arm answers every query in sequence, then a burst, and a known-  *)
(* positive control arm decides whether the round may be interpreted.  The *)
(* instance may answer, answer nothing, or fail at every search.           *)
(***************************************************************************)
EXTENDS Naturals, Sequences, FiniteSets, FiniteSetsExt, SequencesExt

CONSTANTS
  ArgArms,       \* --arms, a sequence
  Control,       \* --control, or NoControl for ''
  NoControl,
  MaxQueries,    \* bound: queries asked of each arm (--limit)
  Burst,         \* --burst, searches per arm; the burst ids are not empty
  Count,         \* --count, the results kept
  Payloads       \* what an instance may answer: sequences of results

ASSUME SearxngAssumption ==
  /\ MaxQueries \in Nat /\ Burst \in Nat /\ Count \in Nat
  /\ \A p \in Payloads : \A k \in DOMAIN p :
       p[k].score \in Nat /\ p[k].http \in BOOLEAN /\ p[k].expected \in BOOLEAN

VARIABLES
  todo,       \* searches to come: arm and mode
  answers,    \* rows of searches.jsonl
  round       \* "measuring", "valid" (exit 0) or "invalid" (exit 1)

searxngVars == <<todo, answers, round>>

(* The control arm is measured in every round, once.                       *)
Arms == IF Control = NoControl \/ Control \in ToSet(ArgArms) THEN ArgArms
                                                             ELSE Append(ArgArms, Control)

Measure(arm, mode, n) == [k \in 1 .. n |-> [arm |-> arm, mode |-> mode]]

Searches(n) ==
  FlattenSeq([i \in DOMAIN Arms |-> Measure(Arms[i], "sequential", n)])
  \o FlattenSeq([i \in DOMAIN Arms |-> Measure(Arms[i], "burst", Burst)])

(* search: sorted by score and truncated, as Open WebUI's adapter does.    *)
Kept(payload) ==
  LET sorted == SortSeq(payload, LAMBDA x, y : x.score > y.score)
  IN  SubSeq(sorted, 1, Min({Count, Len(payload)}))

(* score: "returned something" against a useful general-web hit.           *)
Useful(results) ==
  /\ Cardinality({k \in DOMAIN results : results[k].http}) >= 3
  /\ \E k \in 1 .. Min({5, Len(results)}) : results[k].expected

FailedRow(s) == [arm |-> s.arm, mode |-> s.mode, ok |-> FALSE, n |-> 0, useful |-> FALSE]
ScoredRow(s, results) == [arm |-> s.arm, mode |-> s.mode, ok |-> TRUE,
                          n |-> Len(results), useful |-> Useful(results)]

SearxngInit == (\E n \in 0 .. MaxQueries : todo = Searches(n)) /\ answers = <<>> /\ round = "measuring"

(* search and _row: an HTTP error, a refused connection, a timeout or a body
   that is not JSON is a failed row; an answer is graded.                  *)
SearchFails ==
  /\ todo # <<>>
  /\ answers' = Append(answers, FailedRow(Head(todo)))
  /\ todo' = Tail(todo)
  /\ UNCHANGED round

SearchAnswers ==
  /\ todo # <<>>
  /\ \E p \in Payloads : answers' = Append(answers, ScoredRow(Head(todo), Kept(p)))
  /\ todo' = Tail(todo)
  /\ UNCHANGED round

(* summarise, for one arm and mode: its rows, and those with results.      *)
RowsOf(arm, mode) == {k \in DOMAIN answers : answers[k].arm = arm /\ answers[k].mode = mode}
Nonempty(ks)      == {k \in ks : answers[k].ok /\ answers[k].n > 0}

(* Mutant: no floor of one.                                                *)
ControlValidUnfloored ==
  LET c == RowsOf(Control, "sequential")
  IN  c # {} /\ Cardinality(Nonempty(c)) >= (8 * Cardinality(c)) \div 10

ControlValid ==
  LET c == RowsOf(Control, "sequential")
  IN  c # {} /\ Cardinality(Nonempty(c)) >= Max({1, (8 * Cardinality(c)) \div 10})

Conclude ==
  /\ todo = <<>>
  /\ round = "measuring"
  /\ round' = IF Control = NoControl \/ ControlValid THEN "valid" ELSE "invalid"
  /\ UNCHANGED <<todo, answers>>

SearxngNext == SearchFails \/ SearchAnswers \/ Conclude

SearxngSpec == SearxngInit /\ [][SearxngNext]_searxngVars

-----------------------------------------------------------------------------
(* "A round whose control returns nothing is reported as INVALID rather than
   interpreted" (searxng_qualify.py:20): a round that exits 0 had a control
   arm, measured one search at a time, that answered at least once and in
   four searches of five up to rounding, however well the arms or the burst
   did.                                                                    *)
ValidRoundHadControl ==
  (round = "valid" /\ Control # NoControl) =>
    LET control == {k \in DOMAIN answers : answers[k].arm = Control
                                           /\ answers[k].mode = "sequential"}
        good    == {k \in control : answers[k].n > 0}
    IN  good # {} /\ 5 * Cardinality(good) + 4 >= 4 * Cardinality(control)
=============================================================================
