------------------------------- MODULE MCTools -------------------------------
(***************************************************************************)
(* The tools of the operator and the request filters, on small instances.  *)
(* They share no state, and a behaviour is of the one that `tool` names;   *)
(* the variables of the others keep a value they could have at rest.       *)
(***************************************************************************)
EXTENDS CampaignReview, MCE2EGate, DdgsQualify, SearxngQualify, SessionGate, Filters

VARIABLE tool

toolVars == <<tool, reviewVars, gateVars, qualifyVars, searxngVars, sessionVars, filterVars>>

(* DdgsQualify: two searches in sequence, then both at once in two threads. *)
MCBackends == <<"auto">>
MCQueries  == <<"q1", "q2">>

(* SearxngQualify: the control comes after the arm, and is one of no arms.  *)
MCArms == <<"google">>
Result(score, expected) == [score |-> score, http |-> TRUE, expected |-> expected]
MCPayloads == {<<>>, <<Result(1, FALSE), Result(1, FALSE), Result(0, FALSE), Result(2, TRUE)>>}

(* Filters: names of one family, of none, of two, and an owner of another.  *)
Name(leaf, path) == [leaf |-> leaf, path |-> path]
MCModelIds == {Name({"qwen3.6-35b-a3b", "qwen3.6"}, {}), Name({"mistral-small"}, {"qwen2.5"}),
               Name({"deepseek-r1"}, {}), Name({"gemma-4"}, {}), Name({}, {"llama-3"}),
               Name({"qwen3-", "deepseek-r1"}, {})}
Sampling(t, p, q) == [k \in Keys |-> CASE k = "temperature" -> t
                                       [] k = "repetition_penalty" -> p
                                       [] OTHER -> q]
Plain == Sampling(Absent, Absent, Absent)
MCClientBodies == {Plain, Sampling(0, Absent, 150), Sampling(70, 100, Absent)}
MCUserValves == {[set |-> Plain, unset |-> {}],
                 [set |-> Sampling(0, 120, Absent), unset |-> {"repeat_penalty"}]}

-----------------------------------------------------------------------------
(* What the variables with several initial values are when they rest.      *)
GateAtRest ==
  /\ gate = "selftest" /\ items = <<>> /\ chat = [q \in Queries |-> "none"]
  /\ answer = [q \in Queries |-> NoAnswer] /\ routerLog = <<>> /\ offset = 0
  /\ late = {} /\ overtime = FALSE /\ rows = <<>> /\ exported = <<>>
  /\ summary = NoSummary /\ exit = "running" /\ errors = 0

SearxngAtRest == todo = <<>> /\ answers = <<>> /\ round = "measuring"

SessionAtRest == SessionInit /\ latest = NoReceipt

FiltersAtRest ==
  /\ table = <<>> /\ modelId = Name({}, {}) /\ body = [key |-> Plain, marks |-> {}]
  /\ clientBody = Plain /\ userValves = [set |-> Plain, unset |-> {}]
  /\ inlets = <<>> /\ applied = {} /\ request = "open"

ToolsInit ==
  /\ tool \in {"review", "e2e", "ddgs", "searxng", "session", "filters"}
  /\ ReviewInit
  /\ QualifyInit
  /\ IF tool = "e2e"     THEN GateInit    ELSE GateAtRest
  /\ IF tool = "searxng" THEN SearxngInit ELSE SearxngAtRest
  /\ IF tool = "session" THEN SessionInit ELSE SessionAtRest
  /\ IF tool = "filters" THEN FiltersInit ELSE FiltersAtRest

ToolsNext ==
  \/ /\ tool = "review" /\ ReviewNext
     /\ UNCHANGED <<tool, gateVars, qualifyVars, searxngVars, sessionVars, filterVars>>
  \/ /\ tool = "e2e" /\ GateNext
     /\ UNCHANGED <<tool, reviewVars, qualifyVars, searxngVars, sessionVars, filterVars>>
  \/ /\ tool = "ddgs" /\ QualifyNext
     /\ UNCHANGED <<tool, reviewVars, gateVars, searxngVars, sessionVars, filterVars>>
  \/ /\ tool = "searxng" /\ SearxngNext
     /\ UNCHANGED <<tool, reviewVars, gateVars, qualifyVars, sessionVars, filterVars>>
  \/ /\ tool = "session" /\ SessionNext
     /\ UNCHANGED <<tool, reviewVars, gateVars, qualifyVars, searxngVars, filterVars>>
  \/ /\ tool = "filters" /\ FiltersNext
     /\ UNCHANGED <<tool, reviewVars, gateVars, qualifyVars, searxngVars, sessionVars>>

Review(A) == /\ tool = "review" /\ A
             /\ UNCHANGED <<tool, gateVars, qualifyVars, searxngVars, sessionVars, filterVars>>

(* The fairness of ReviewSpec, in this composition.                        *)
ToolsSpec ==
  /\ ToolsInit /\ [][ToolsNext]_toolVars
  /\ \A t \in Schedulers : WF_toolVars(Review(ReviewSchedulerStep(t)))
  /\ WF_toolVars(Review(TimePasses))
=============================================================================
