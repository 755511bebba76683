------------------------------- MODULE Filters -------------------------------
(***************************************************************************)
(* The request filters uploaded to Open WebUI (openwebui-init/advanced.py, *)
(* profile_*.py, _family_defaults.py, _splicer.py).  Open WebUI runs the   *)
(* inlets of the filters of a chat one after the other, in an order that   *)
(* they do not choose; each may rewrite the body, or raise and so reject   *)
(* the request.  They know of one another only by markers on the body.     *)
(* Temperatures and penalties are in hundredths.                           *)
(***************************************************************************)
EXTENDS Naturals, Sequences, FiniteSets

CONSTANTS
  ModelIds,     \* [leaf, path]: the table's substrings in a model's name and owner
  ClientBodies, \* bodies before the first inlet
  UserValves,   \* [set, unset]: the UserValves of Advanced Params
  Absent        \* a key the body does not have, a valve left at None

VARIABLES
  table,        \* _FAMILY_DETECTION in the uploaded profiles
  modelId,      \* body["model"]
  body,         \* the request body: its sampling keys and its markers
  userValves,   \* __user__["valves"]
  inlets,       \* filters of the chat that have yet to run, in their order
  clientBody,   \* history: the body the client sent
  applied,      \* history: filters whose inlet rewrote the body
  request       \* "open", "accepted" or "rejected"

filterVars == <<table, modelId, body, userValves, inlets, clientBody, applied, request>>

Penalties == {"repetition_penalty", "repeat_penalty"}
Keys      == {"temperature"} \cup Penalties
Markers   == {"profile", "thinking", "advanced"}
Profiles  == {"Strict", "Math", "Casual", "Research", "Creative"}
AllFilters == Profiles \cup {"Advanced", "Thinking"}

ASSUME FiltersAssumption ==
  Absent \notin Nat /\ ClientBodies \subseteq [Keys -> Nat \cup {Absent}]

-----------------------------------------------------------------------------
(* Families.                                                               *)

FAMILY_DETECTION == <<
  <<"qwen3.6-35b-a3b", "qwen3_moe">>, <<"qwen3.6-27b", "qwen3">>, <<"qwen3.6", "qwen3">>,
  <<"qwen3.5", "qwen3">>, <<"qwen3-", "qwen3">>, <<"qwen3_", "qwen3">>,
  <<"qwen2.5-coder", "qwen2_5">>, <<"qwen2.5-vl", "qwen2_5">>, <<"qwen2.5", "qwen2_5">>,
  <<"qwen2_5", "qwen2_5">>, <<"gemma-4", "gemma_4">>, <<"gemma_4", "gemma_4">>,
  <<"gemma-3", "gemma_3">>, <<"gemma_3", "gemma_3">>, <<"llama-3.3", "llama_3">>,
  <<"llama-3.2", "llama_3">>, <<"llama-3.1", "llama_3">>, <<"llama-3", "llama_3">>,
  <<"llama_3", "llama_3">>, <<"deepseek-r1", "deepseek_r1">>,
  <<"deepseek-v3", "deepseek_v3">>, <<"mistral-small-3", "mistral_small">>,
  <<"mistral_small_3", "mistral_small">>, <<"mistral-small", "mistral_small">> >>

Families == {"qwen3_moe", "qwen3", "qwen2_5", "gemma_4", "gemma_3", "llama_3",
             "deepseek_r1", "deepseek_v3", "mistral_small"}

(* What the vendors allow: temperatures and repetition penalties, of which
   Qwen 3 is pinned to one.                                                *)
Unbounded == 1000
AnyValue == 0 .. Unbounded
FOOTGUNS == [f \in Families |->
  CASE f \in {"qwen3", "qwen3_moe"} -> [temperatures |-> 60 .. Unbounded, penalties |-> {100}]
    [] f \in {"gemma_4", "gemma_3"} -> [temperatures |-> AnyValue, penalties |-> 0 .. 110]
    [] f = "deepseek_r1"            -> [temperatures |-> 50 .. 70, penalties |-> AnyValue]
    [] f = "mistral_small"          -> [temperatures |-> 0 .. 70, penalties |-> AnyValue]
    [] OTHER                        -> [temperatures |-> AnyValue, penalties |-> AnyValue]]

(* inline_family_defaults: the table replaces the empty placeholder.       *)
Inlined(spliced) == IF spliced THEN FAMILY_DETECTION ELSE <<>>

(* Mutant: the owner's name counts too.                                    *)
DetectedAnywhere(tbl, id) ==
  LET names == id.leaf \cup id.path
  IN  {tbl[k][2] : k \in {i \in DOMAIN tbl : /\ tbl[i][1] \in names
                                             /\ \A j \in 1 .. i - 1 : tbl[j][1] \notin names}}

(* _detect_family: the first row whose substring is in the last segment.   *)
DetectedFamilies(tbl, id) ==
  {tbl[k][2] : k \in {i \in DOMAIN tbl : /\ tbl[i][1] \in id.leaf
                                         /\ \A j \in 1 .. i - 1 : tbl[j][1] \notin id.leaf}}

-----------------------------------------------------------------------------
(* _PARAMS_BY_FAMILY of each profile: the temperature and, where the family
   has a row with one, the repetition penalty.                             *)
StrictParams == [f \in Families |->
  CASE f \in {"gemma_4", "gemma_3", "qwen2_5"} -> [temperature |-> 20, penalty |-> 105]
    [] f \in {"qwen3", "qwen3_moe"} -> [temperature |-> 60, penalty |-> Absent]
    [] f = "llama_3"                -> [temperature |-> 20, penalty |-> Absent]
    [] f = "deepseek_r1"            -> [temperature |-> 50, penalty |-> Absent]
    [] f = "deepseek_v3"            -> [temperature |-> 30, penalty |-> Absent]
    [] f = "mistral_small"          -> [temperature |-> 15, penalty |-> Absent]]

MathParams == [f \in Families |->
  [penalty |-> Absent, temperature |->
     CASE f \in {"gemma_4", "gemma_3"} -> 40
       [] f \in {"qwen2_5", "llama_3"} -> 30
       [] f = "mistral_small"          -> 20
       [] OTHER                        -> 60]]

CasualParams == [f \in Families |->
  CASE f \in {"gemma_4", "gemma_3"} -> [temperature |-> 100, penalty |-> Absent]
    [] f = "qwen2_5"                -> [temperature |-> 70, penalty |-> 105]
    [] f \in {"qwen3", "qwen3_moe", "llama_3"} -> [temperature |-> 70, penalty |-> Absent]
    [] f \in {"deepseek_r1", "deepseek_v3"}    -> [temperature |-> 50, penalty |-> Absent]
    [] f = "mistral_small"          -> [temperature |-> 30, penalty |-> Absent]]

ResearchParams == [f \in Families |->
  CASE f \in {"gemma_4", "gemma_3", "qwen3", "qwen3_moe"} -> [temperature |-> 100, penalty |-> Absent]
    [] f = "qwen2_5"       -> [temperature |-> 70, penalty |-> 105]
    [] f = "mistral_small" -> [temperature |-> 40, penalty |-> Absent]
    [] OTHER               -> [temperature |-> 70, penalty |-> Absent]]

(* DeepSeek has no row: R1 is bounded, V3 is not for prose.                *)
CreativeParams == [f \in Families \ {"deepseek_r1", "deepseek_v3"} |->
  CASE f \in {"gemma_4", "gemma_3"}    -> [temperature |-> 120, penalty |-> 110]
    [] f \in {"qwen3", "qwen3_moe"}    -> [temperature |-> 100, penalty |-> Absent]
    [] f = "qwen2_5"                   -> [temperature |-> 90, penalty |-> 110]
    [] f = "llama_3"                   -> [temperature |-> 90, penalty |-> Absent]
    [] f = "mistral_small"             -> [temperature |-> 70, penalty |-> Absent]]

ParamsByFamily(profile) ==
  CASE profile = "Strict"   -> StrictParams
    [] profile = "Math"     -> MathParams
    [] profile = "Casual"   -> CasualParams
    [] profile = "Research" -> ResearchParams
    [] profile = "Creative" -> CreativeParams

-----------------------------------------------------------------------------
FiltersInit ==
  /\ \E spliced \in BOOLEAN : table = Inlined(spliced)
  /\ modelId \in ModelIds
  /\ \E b \in ClientBodies : body = [key |-> b, marks |-> {}]
  /\ clientBody = body.key
  /\ userValves \in UserValves
  /\ inlets \in {s \in UNION {[1 .. n -> AllFilters] : n \in 1 .. 3} :
                   \A i, j \in DOMAIN s : s[i] = s[j] => i = j}
  /\ applied = {}
  /\ request = "open"

Turn(f) == request = "open" /\ inlets # <<>> /\ Head(inlets) = f

Rewrites(f, b) ==
  /\ body' = b
  /\ applied' = applied \cup {f}
  /\ inlets' = Tail(inlets)
  /\ UNCHANGED <<table, modelId, userValves, clientBody, request>>

(* The admin's master switch is off: the body is returned as it is.        *)
NotEnabled(f) ==
  /\ Turn(f)
  /\ f # "Thinking"
  /\ inlets' = Tail(inlets)
  /\ UNCHANGED <<table, modelId, body, userValves, clientBody, applied, request>>

Raise == request' = "rejected" /\ UNCHANGED <<table, modelId, body, userValves, inlets, clientBody, applied>>

(* A profile's inlet: what it refuses ...                                  *)
ProfileConflicts == body.marks \cap {"advanced", "profile"} # {}

ProfileRaises(p) ==
  /\ Turn(p)
  /\ \/ ProfileConflicts
     \/ DetectedFamilies(table, modelId) \cap DOMAIN ParamsByFamily(p) = {}
  /\ Raise

(* Mutant: a profile looks for another profile only.                       *)
ProfilePassesAnyway(p) ==
  /\ Turn(p)
  /\ "profile" \notin body.marks
  /\ \E f \in DetectedFamilies(table, modelId) \cap DOMAIN ParamsByFamily(p) :
       LET row == ParamsByFamily(p)[f]
       IN  Rewrites(p, [marks |-> body.marks \cup {"profile"},
                      key |-> [body.key EXCEPT
                        !["temperature"] = row.temperature,
                        !["repetition_penalty"] = IF row.penalty = Absent THEN @ ELSE row.penalty]])

(* ... and what it writes: its marker and its row of the family.           *)
ProfilePasses(p) ==
  /\ Turn(p)
  /\ ~ProfileConflicts
  /\ \E f \in DetectedFamilies(table, modelId) \cap DOMAIN ParamsByFamily(p) :
       LET row == ParamsByFamily(p)[f]
       IN  Rewrites(p, [marks |-> body.marks \cup {"profile"},
                      key |-> [body.key EXCEPT
                        !["temperature"] = row.temperature,
                        !["repetition_penalty"] = IF row.penalty = Absent THEN @ ELSE row.penalty]])

(* Advanced Params: manual mode, alone.                                    *)
AdvancedRaises ==
  /\ Turn("Advanced")
  /\ body.marks \cap {"profile", "thinking"} # {}
  /\ Raise

(* unset_fields are stripped first, a penalty under both its names; then the
   valves that are set overwrite or come back.                             *)
Stripped(unset) == unset \cup (IF unset \cap Penalties # {} THEN Penalties ELSE {})

AdvancedPasses ==
  /\ Turn("Advanced")
  /\ body.marks \cap {"profile", "thinking"} = {}
  /\ Rewrites("Advanced",
       [marks |-> body.marks \cup {"advanced"},
        key |-> [k \in Keys |-> IF userValves.set[k] # Absent THEN userValves.set[k]
                                ELSE IF k \in Stripped(userValves.unset) THEN Absent
                                ELSE body.key[k]]])

(* The Thinking filter is not in the repository: it leaves its marker.     *)
ThinkingPasses ==
  /\ Turn("Thinking")
  /\ Rewrites("Thinking", [body EXCEPT !.marks = @ \cup {"thinking"}])

Accept ==
  /\ request = "open"
  /\ inlets = <<>>
  /\ request' = "accepted"
  /\ UNCHANGED <<table, modelId, body, userValves, inlets, clientBody, applied>>

FiltersNext ==
  \/ \E f \in AllFilters : NotEnabled(f)
  \/ \E p \in Profiles : ProfileRaises(p) \/ ProfilePasses(p)
  \/ AdvancedRaises \/ AdvancedPasses \/ ThinkingPasses \/ Accept

FiltersSpec == FiltersInit /\ [][FiltersNext]_filterVars

-----------------------------------------------------------------------------
(* "Mutually exclusive with all other Profile filters and with the Advanced
   Params filter" (profile_creative.py:23): no body is rewritten by two of
   them, in whatever order Open WebUI runs them and with Thinking between. *)
OneMode == Cardinality(applied \ {"Thinking"}) <= 1

(* "The Profile filters auto-route to the correct knob per family"
   (advanced.py:38): a request that is accepted with a profile is within the
   vendors' bounds of every family its model's name names, if these agree;
   a penalty outside them is the client's own, as the client sent it.      *)
NamedFamilies(id) == {FAMILY_DETECTION[k][2] : k \in {i \in DOMAIN FAMILY_DETECTION :
                                                       FAMILY_DETECTION[i][1] \in id.leaf}}

WithinFootguns(key, bound) ==
  /\ key["temperature"] \in bound.temperatures
  /\ \A k \in Penalties : key[k] \in bound.penalties \/ key[k] = clientBody[k]

FootgunsHeld ==
  (request = "accepted" /\ applied \cap Profiles # {}) =>
    LET bounds == {FOOTGUNS[f] : f \in NamedFamilies(modelId)}
    IN  Cardinality(bounds) = 1 => \A b \in bounds : WithinFootguns(body.key, b)
=============================================================================
