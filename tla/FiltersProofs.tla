---------------------------- MODULE FiltersProofs ----------------------------
(***************************************************************************)
(* Proofs about Filters: the markers on the body are enough to keep the    *)
(* modes apart, and so the parameters that reach the model are those of    *)
(* one row of one profile, for any model, body, valves and order of the    *)
(* inlets.                                                                 *)
(***************************************************************************)
EXTENDS Filters, FiniteSetTheorems, TLAPS

Modes == applied \ {"Thinking"}

(* A mode that rewrote the body has left its marker, so no other follows.  *)
ModeInv ==
  /\ "marks" \in DOMAIN body
  /\ \/ Modes = {}
     \/ Modes = {"Advanced"} /\ "advanced" \in body.marks
     \/ \E p \in Profiles : Modes = {p} /\ "profile" \in body.marks

USE DEF filterVars

-----------------------------------------------------------------------------
LEMMA InitModes == FiltersInit => ModeInv
BY DEF FiltersInit, ModeInv, Modes

LEMMA ProfileStep ==
  ASSUME ModeInv, NEW p \in Profiles, ProfilePasses(p)
  PROVE  ModeInv'
<1>1. PICK key : Rewrites(p, [marks |-> body.marks \cup {"profile"}, key |-> key])
  BY DEF ProfilePasses
<1>2. Modes = {}
  BY DEF ProfilePasses, ProfileConflicts, ModeInv
<1>3. Modes' = {p} /\ "profile" \in body'.marks /\ "marks" \in DOMAIN body'
  BY <1>1, <1>2 DEF Rewrites, Modes, Profiles
<1>. QED
  BY <1>3 DEF ModeInv

LEMMA AdvancedStep ==
  ASSUME ModeInv, AdvancedPasses
  PROVE  ModeInv'
<1>1. PICK key : Rewrites("Advanced", [marks |-> body.marks \cup {"advanced"}, key |-> key])
  BY DEF AdvancedPasses
<1>2. Modes \in {{}, {"Advanced"}}
  BY DEF AdvancedPasses, ModeInv
<1>3. Modes' = {"Advanced"} /\ "advanced" \in body'.marks /\ "marks" \in DOMAIN body'
  BY <1>1, <1>2 DEF Rewrites, Modes
<1>. QED
  BY <1>3 DEF ModeInv

LEMMA ThinkingStep ==
  ASSUME ModeInv, ThinkingPasses
  PROVE  ModeInv'
<1>1. /\ Modes' = Modes
      /\ "marks" \in DOMAIN body'
      /\ body.marks \subseteq body'.marks
  BY DEF ThinkingPasses, Rewrites, Modes, ModeInv
<1>. QED
  BY <1>1 DEF ModeInv

LEMMA NextModes ==
  ASSUME ModeInv, [FiltersNext]_filterVars
  PROVE  ModeInv'
<1>1. CASE body' = body /\ applied' = applied
  BY <1>1 DEF ModeInv, Modes
<1>2. \/ body' = body /\ applied' = applied
      \/ \E p \in Profiles : ProfilePasses(p)
      \/ AdvancedPasses \/ ThinkingPasses
  BY DEF FiltersNext, NotEnabled, ProfileRaises, AdvancedRaises, Raise, Accept
<1>. QED
  BY <1>1, <1>2, ProfileStep, AdvancedStep, ThinkingStep

(* No body is rewritten by two profiles, or by a profile and Advanced      *)
(* Params, in whatever order Open WebUI runs the inlets (the marker checks *)
(* of profile_*.py and advanced.py).                                       *)
THEOREM AtMostOneMode == FiltersSpec => []OneMode
<1>1. ModeInv => OneMode
  <2>. SUFFICES ASSUME ModeInv PROVE Cardinality(Modes) <= 1
    BY DEF OneMode, Modes
  <2>1. Modes = {} \/ \E f : Modes = {f}
    BY DEF ModeInv
  <2>. QED
    BY <2>1, FS_EmptySet, FS_Singleton
<1>. QED
  BY <1>1, InitModes, NextModes, PTL DEF FiltersSpec

-----------------------------------------------------------------------------
(* What a profile makes of the client's parameters for a family.            *)
Tuned(p, f) ==
  LET row == ParamsByFamily(p)[f]
  IN  [clientBody EXCEPT !["temperature"] = row.temperature,
                         !["repetition_penalty"] = IF row.penalty = Absent THEN @ ELSE row.penalty]

(* The families of which a profile has a row, among those of the name.      *)
Routed(p) == DetectedFamilies(table, modelId) \cap DOMAIN ParamsByFamily(p)

(* The body is the client's until a mode rewrites it; after a profile has,  *)
(* it is the client's with one row of that profile over it, to the end.     *)
RoutedInv ==
  /\ ModeInv
  /\ table \in {FAMILY_DETECTION, <<>>}
  /\ DOMAIN clientBody = Keys
  /\ "key" \in DOMAIN body
  /\ Modes = {} => body.key = clientBody
  /\ applied \cap Profiles # {} => \E p \in Profiles : \E f \in Routed(p) : body.key = Tuned(p, f)

LEMMA InitRouted == FiltersInit => RoutedInv
<1>. SUFFICES ASSUME FiltersInit PROVE RoutedInv
  OBVIOUS
<1>1. PICK b \in ClientBodies : body = [key |-> b, marks |-> {}]
  BY DEF FiltersInit
<1>2. clientBody = b /\ DOMAIN b = Keys
  BY <1>1, FiltersAssumption DEF FiltersInit
<1>. QED
  BY <1>1, <1>2, InitModes DEF FiltersInit, RoutedInv, Modes, Inlined

(* A step that neither rewrites the parameters nor turns a mode on.         *)
LEMMA KeyAsBefore ==
  ASSUME RoutedInv, ModeInv', UNCHANGED <<table, modelId, clientBody>>,
         body'.key = body.key, "key" \in DOMAIN body', Modes' = Modes,
         applied' \cap Profiles = applied \cap Profiles
  PROVE  RoutedInv'
BY DEF RoutedInv, Routed, Tuned

LEMMA NextRouted ==
  ASSUME RoutedInv, [FiltersNext]_filterVars
  PROVE  RoutedInv'
<1>0. ModeInv /\ ModeInv'
  BY NextModes DEF RoutedInv
<1>1. ASSUME NEW p \in Profiles, ProfilePasses(p) PROVE RoutedInv'
  <2>1. Modes = {}
    BY <1>1 DEF ProfilePasses, ProfileConflicts, RoutedInv, ModeInv
  <2>2. PICK f \in Routed(p) :
          LET row == ParamsByFamily(p)[f]
          IN  Rewrites(p, [marks |-> body.marks \cup {"profile"},
                key |-> [body.key EXCEPT
                  !["temperature"] = row.temperature,
                  !["repetition_penalty"] = IF row.penalty = Absent THEN @ ELSE row.penalty]])
    BY <1>1 DEF ProfilePasses, Routed
  <2>3. body'.key = Tuned(p, f) /\ "key" \in DOMAIN body'
    BY <2>1, <2>2 DEF Rewrites, RoutedInv, Tuned
  <2>4. UNCHANGED <<table, modelId, clientBody>> /\ applied' = applied \cup {p}
    BY <2>2 DEF Rewrites
  <2>5. body'.key = Tuned(p, f)' /\ f \in Routed(p)'
    BY <2>3, <2>4 DEF Tuned, Routed
  <2>6. Modes' # {}
    BY <2>4 DEF Modes, Profiles
  <2>. QED
    BY <1>0, <2>3, <2>4, <2>5, <2>6 DEF RoutedInv
<1>2. CASE AdvancedPasses
  <2>1. Modes \in {{}, {"Advanced"}}
    BY <1>2 DEF AdvancedPasses, RoutedInv, ModeInv
  <2>2. PICK key : Rewrites("Advanced", [marks |-> body.marks \cup {"advanced"}, key |-> key])
    BY <1>2 DEF AdvancedPasses
  <2>3. UNCHANGED <<table, modelId, clientBody>> /\ "key" \in DOMAIN body'
        /\ applied' = applied \cup {"Advanced"}
    BY <2>2 DEF Rewrites
  <2>4. applied' \cap Profiles = {} /\ Modes' # {}
    BY <2>1, <2>3 DEF Modes, Profiles
  <2>. QED
    BY <1>0, <2>3, <2>4 DEF RoutedInv
<1>3. CASE ThinkingPasses
  <2>1. /\ body'.key = body.key /\ "key" \in DOMAIN body' /\ applied' = applied \cup {"Thinking"}
        /\ UNCHANGED <<table, modelId, clientBody>>
    BY <1>3 DEF ThinkingPasses, Rewrites, RoutedInv
  <2>2. Modes' = Modes /\ applied' \cap Profiles = applied \cap Profiles
    BY <2>1 DEF Modes, Profiles
  <2>. QED
    BY <1>0, <2>1, <2>2, KeyAsBefore
<1>4. CASE UNCHANGED <<table, modelId, body, clientBody, applied>>
  BY <1>0, <1>4, KeyAsBefore DEF Modes, RoutedInv
<1>5. \/ UNCHANGED <<table, modelId, body, clientBody, applied>>
      \/ \E p \in Profiles : ProfilePasses(p)
      \/ AdvancedPasses \/ ThinkingPasses
  BY DEF FiltersNext, NotEnabled, ProfileRaises, AdvancedRaises, Raise, Accept
<1>. QED
  BY <1>1, <1>2, <1>3, <1>4, <1>5

-----------------------------------------------------------------------------
(* Every row of every profile is within the bounds of its family.           *)
RowWithin(row, bound) ==
  /\ row.temperature \in bound.temperatures
  /\ row.penalty # Absent => row.penalty \in bound.penalties

LEMMA StrictWithin == \A f \in Families : RowWithin(StrictParams[f], FOOTGUNS[f])
BY DEF Families, StrictParams, FOOTGUNS, RowWithin, AnyValue, Unbounded

LEMMA MathWithin == \A f \in Families : RowWithin(MathParams[f], FOOTGUNS[f])
BY DEF Families, MathParams, FOOTGUNS, RowWithin, AnyValue, Unbounded

LEMMA CasualWithin == \A f \in Families : RowWithin(CasualParams[f], FOOTGUNS[f])
BY DEF Families, CasualParams, FOOTGUNS, RowWithin, AnyValue, Unbounded

LEMMA ResearchWithin == \A f \in Families : RowWithin(ResearchParams[f], FOOTGUNS[f])
BY DEF Families, ResearchParams, FOOTGUNS, RowWithin, AnyValue, Unbounded

LEMMA CreativeWithin ==
  \A f \in Families \ {"deepseek_r1", "deepseek_v3"} : RowWithin(CreativeParams[f], FOOTGUNS[f])
BY DEF Families, CreativeParams, FOOTGUNS, RowWithin, AnyValue, Unbounded

LEMMA RowsWithin ==
  ASSUME NEW p \in Profiles, NEW f \in DOMAIN ParamsByFamily(p)
  PROVE  f \in Families /\ RowWithin(ParamsByFamily(p)[f], FOOTGUNS[f])
<1>1. CASE p = "Strict"
  <2>1. ParamsByFamily(p) = StrictParams /\ DOMAIN StrictParams = Families
    BY <1>1 DEF ParamsByFamily, StrictParams
  <2>. QED
    BY <2>1, StrictWithin
<1>2. CASE p = "Math"
  <2>1. ParamsByFamily(p) = MathParams /\ DOMAIN MathParams = Families
    BY <1>2 DEF ParamsByFamily, MathParams
  <2>. QED
    BY <2>1, MathWithin
<1>3. CASE p = "Casual"
  <2>1. ParamsByFamily(p) = CasualParams /\ DOMAIN CasualParams = Families
    BY <1>3 DEF ParamsByFamily, CasualParams
  <2>. QED
    BY <2>1, CasualWithin
<1>4. CASE p = "Research"
  <2>1. ParamsByFamily(p) = ResearchParams /\ DOMAIN ResearchParams = Families
    BY <1>4 DEF ParamsByFamily, ResearchParams
  <2>. QED
    BY <2>1, ResearchWithin
<1>5. CASE p = "Creative"
  <2>1. ParamsByFamily(p) = CreativeParams /\ DOMAIN CreativeParams = Families \ {"deepseek_r1", "deepseek_v3"}
    BY <1>5 DEF ParamsByFamily, CreativeParams
  <2>. QED
    BY <2>1, CreativeWithin
<1>. QED
  BY <1>1, <1>2, <1>3, <1>4, <1>5 DEF Profiles

(* A family that is detected is one that the name names.                    *)
LEMMA DetectedIsNamed ==
  ASSUME table \in {FAMILY_DETECTION, <<>>}
  PROVE  DetectedFamilies(table, modelId) \subseteq NamedFamilies(modelId)
<1>1. CASE table = FAMILY_DETECTION
  BY <1>1 DEF DetectedFamilies, NamedFamilies
<1>2. CASE table = <<>>
  BY <1>2 DEF DetectedFamilies
<1>. QED
  BY <1>1, <1>2

LEMMA BoundsAreFinite == IsFiniteSet({FOOTGUNS[f] : f \in NamedFamilies(modelId)})
<1>. DEFINE N      == {i \in DOMAIN FAMILY_DETECTION : FAMILY_DETECTION[i][1] \in modelId.leaf}
            bounds == {FOOTGUNS[f] : f \in NamedFamilies(modelId)}
            g      == [i \in N |-> FOOTGUNS[FAMILY_DETECTION[i][2]]]
<1>1. DOMAIN FAMILY_DETECTION = 1 .. 24
  BY DEF FAMILY_DETECTION
<1>2. IsFiniteSet(N)
  <2>1. 1 \in Int /\ 24 \in Int
    OBVIOUS
  <2>2. IsFiniteSet(1 .. 24)
    BY <2>1, FS_Interval, Zenon
  <2>. QED
    BY <1>1, <2>2, FS_Subset
<1>3. bounds = {g[i] : i \in N}
  BY DEF NamedFamilies
<1>. HIDE DEF N, bounds
<1>4. g \in Surjection(N, bounds)
  BY <1>3 DEF Surjection
<1>. QED
  BY <1>2, <1>4, FS_Surjection DEF bounds

LEMMA TunedIsWithin ==
  ASSUME RoutedInv, NEW p \in Profiles, NEW f \in Routed(p)
  PROVE  WithinFootguns(Tuned(p, f), FOOTGUNS[f])
<1>. DEFINE row == ParamsByFamily(p)[f]
<1>1. RowWithin(row, FOOTGUNS[f])
  BY RowsWithin DEF Routed
<1>2. Tuned(p, f) = [clientBody EXCEPT !["temperature"] = row.temperature,
                       !["repetition_penalty"] = IF row.penalty = Absent THEN @ ELSE row.penalty]
  BY DEF Tuned
<1>. HIDE DEF row
<1>3. DOMAIN clientBody = Keys
  BY DEF RoutedInv
<1>4. /\ Tuned(p, f)["temperature"] = row.temperature
      /\ Tuned(p, f)["repeat_penalty"] = clientBody["repeat_penalty"]
      /\ Tuned(p, f)["repetition_penalty"] =
           IF row.penalty = Absent THEN clientBody["repetition_penalty"] ELSE row.penalty
  BY <1>2, <1>3 DEF Keys, Penalties
<1>. QED
  BY <1>1, <1>4 DEF RowWithin, WithinFootguns, Penalties

LEMMA RoutedInvImplies == RoutedInv => FootgunsHeld
<1>. DEFINE bounds == {FOOTGUNS[f] : f \in NamedFamilies(modelId)}
<1>. SUFFICES ASSUME RoutedInv, request = "accepted" /\ applied \cap Profiles # {}
              PROVE  Cardinality(bounds) = 1 => \A b \in bounds : WithinFootguns(body.key, b)
  BY Zenon DEF FootgunsHeld
<1>. HIDE DEF bounds
<1>. SUFFICES ASSUME Cardinality(bounds) = 1, NEW b \in bounds
              PROVE  WithinFootguns(body.key, b)
  OBVIOUS
<1>0. PICK p \in Profiles : \E f \in Routed(p) : body.key = Tuned(p, f)
  BY DEF RoutedInv
<1>1. PICK f \in Routed(p) : body.key = Tuned(p, f)
  BY <1>0
<1>2. FOOTGUNS[f] \in bounds
  BY DetectedIsNamed DEF Routed, RoutedInv, bounds
<1>3. IsFiniteSet(bounds)
  BY BoundsAreFinite DEF bounds
<1>4. b = FOOTGUNS[f]
  <2>1. \E x : bounds = {x}
    BY <1>3, FS_Singleton
  <2>. QED
    BY <1>2, <2>1
<1>. QED
  BY <1>1, <1>4, TunedIsWithin

(* A request that a profile rewrote and no inlet refused has a temperature  *)
(* that the vendors of the families its model's name names allow, when      *)
(* these agree, and no penalty outside their bounds but one that the client *)
(* had sent and the profile left: for any model name, any body of the       *)
(* client, spliced table or not, any valves and any order of the inlets     *)
(* (advanced.py:38, _family_defaults.py:162).                               *)
THEOREM FootgunsAreHeld == FiltersSpec => []FootgunsHeld
<1>1. FiltersInit => RoutedInv
  BY InitRouted
<1>2. RoutedInv /\ [FiltersNext]_filterVars => RoutedInv'
  BY NextRouted
<1>3. RoutedInv => FootgunsHeld
  BY RoutedInvImplies
<1>. QED
  BY <1>1, <1>2, <1>3, PTL DEF FiltersSpec
=============================================================================
