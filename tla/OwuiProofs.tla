----------------------------- MODULE OwuiProofs -----------------------------
(***************************************************************************)
(* Proofs about Owui, for any registries, functions, saved state and       *)
(* number of failures: the digest binds the two files of configgen; what   *)
(* is deleted was backed up; what is foreign is kept; and a deployment     *)
(* that is reported ready is in the policy.                                *)
(***************************************************************************)
EXTENDS Owui, TLAPS

(* Each file is of a registry that the maintainer once saved, and so is    *)
(* what a running `generate` has yet to write.                             *)
FilesInv ==
  /\ registry \in DOMAIN Registries
  /\ DOMAIN files = Targets
  /\ \A t \in Targets : \E k \in DOMAIN Registries : files[t] = Content(t, Registries[k])
  /\ generator.todo # <<>> => generator.of \in DOMAIN Registries

Fields == {"pc", "models", "settings", "saved", "conns", "defaults", "tasks",
           "filters", "todo", "backup", "edited"}

(* What a program knows of the policy: nothing while it loads, then a pair *)
(* of one registry.                                                        *)
OfOneRegistry(r) ==
  \E k \in DOMAIN Registries : /\ r.models = EmitOwui(Registries[k])
                               /\ r.settings = EmitOwuiSettings(Registries[k])

Sound(r) ==
  /\ DOMAIN r = Fields
  /\ r.settings # NoSettings => OfOneRegistry(r)
  /\ r.pc = "load" => r.settings = NoSettings

RunsInv == DOMAIN run = Programs /\ \A p \in Programs : Sound(run[p])

PairInv == FilesInv /\ RunsInv

USE DEF owuiVars

-----------------------------------------------------------------------------
(* Records.                                                                *)
LEMMA StartSound == ASSUME NEW pc PROVE Sound(AtStart(pc))
BY DEF Sound, AtStart, Fields

LEMMA AtSound ==
  ASSUME RunsInv, NEW p \in Programs, NEW pc, pc # "load"
  PROVE  Sound(At(p, pc))
<1>1. Sound(run[p])
  BY DEF RunsInv
<1>2. CASE pc \in Ended
  BY <1>2, StartSound DEF At, Ended
<1>3. CASE pc = "taskRead"
  <2>1. /\ At(p, pc) = [AtStart(pc) EXCEPT !.models = run[p].models,
                             !.settings = run[p].settings, !.edited = run[p].edited]
    BY <1>3 DEF At, Ended
  <2>. QED
    BY <1>1, <2>1 DEF Sound, AtStart, Fields, OfOneRegistry
<1>4. CASE pc \notin Ended /\ pc # "taskRead"
  <2>1. At(p, pc) = [run[p] EXCEPT !.pc = pc]
    BY <1>4 DEF At
  <2>. QED
    BY <1>1, <2>1 DEF Sound, Fields, OfOneRegistry
<1>. QED
  BY <1>2, <1>3, <1>4

(* A record that differs in other fields only.                             *)
LEMMA LikeSound ==
  ASSUME NEW r, NEW s, Sound(r), DOMAIN s = Fields,
         s.pc = r.pc, s.models = r.models, s.settings = r.settings
  PROVE  Sound(s)
BY DEF Sound, OfOneRegistry

LEMMA NotedSound ==
  ASSUME RunsInv, NEW p \in Programs, NEW item
  PROVE  Sound(Noted(p, item))
<1>1. Sound(run[p])
  BY DEF RunsInv
<1>2. Sound([run[p] EXCEPT !.edited = @ \cup {item}])
  BY <1>1, LikeSound DEF Sound, Fields
<1>. QED
  BY <1>1, <1>2 DEF Noted

LEMMA ReadsSound ==
  ASSUME RunsInv, NEW p \in Programs, NEW r, Sound(r), Reads(p, r)
  PROVE  RunsInv' /\ UNCHANGED configgenVars
BY DEF Reads, RunsInv, Sound, OfOneRegistry, configgenVars

LEMMA WritesSound ==
  ASSUME RunsInv, NEW p \in Programs, NEW r, NEW state, Sound(r), Writes(p, state, r)
  PROVE  RunsInv' /\ UNCHANGED configgenVars
<1>1. \A q \in Programs : Sound(Noted(q, "program"))
  BY NotedSound
<1>. QED
  BY <1>1 DEF Writes, RunsInv, Sound, OfOneRegistry, configgenVars

-----------------------------------------------------------------------------
(* The files.                                                              *)
LEMMA InitPair == OwuiInit => PairInv
<1>. SUFFICES ASSUME OwuiInit PROVE PairInv
  OBVIOUS
<1>1. FilesInv
  BY ConfiggenAssumption DEF OwuiInit, ConfiggenInit, FilesInv, Idle
<1>2. RunsInv
  BY StartSound DEF OwuiInit, RunsInv
<1>. QED
  BY <1>1, <1>2 DEF PairInv

LEMMA FilesSame ==
  ASSUME FilesInv, UNCHANGED configgenVars
  PROVE  FilesInv'
BY DEF FilesInv, configgenVars

LEMMA WriteFilesKeeps ==
  ASSUME FilesInv, WriteFiles
  PROVE  FilesInv'
<1>1. generator.of \in DOMAIN Registries
  BY DEF FilesInv, WriteFiles
<1>2. /\ DOMAIN files' = Targets
      /\ \A t \in Targets : \/ files'[t] = Content(t, Registries[generator.of])
                            \/ files'[t] = files[t]
  BY DEF WriteFiles
<1>3. generator'.todo # <<>> => generator'.of \in DOMAIN Registries
  BY <1>1 DEF WriteFiles, Idle
<1>. QED
  BY <1>1, <1>2, <1>3 DEF FilesInv, WriteFiles

LEMMA GeneratorKeeps ==
  ASSUME FilesInv, EditRegistry \/ StartGenerate \/ StopGenerate
  PROVE  FilesInv'
<1>1. CASE EditRegistry
  BY <1>1, ConfiggenAssumption DEF EditRegistry, FilesInv
<1>2. CASE StartGenerate
  BY <1>2 DEF StartGenerate, FilesInv
<1>3. CASE StopGenerate
  BY <1>3 DEF StopGenerate, FilesInv, Idle
<1>. QED
  BY <1>1, <1>2, <1>3

-----------------------------------------------------------------------------
(* The steps of the programs: what each leaves is sound.                   *)
Steps(p) == \E r : Sound(r) /\ (Reads(p, r) \/ \E state : Writes(p, state, r))

LEMMA SoundSteps ==
  ASSUME PairInv, NEW p \in Programs, Steps(p)
  PROVE  PairInv'
<1>1. PICK r : Sound(r) /\ (Reads(p, r) \/ \E state : Writes(p, state, r))
  BY DEF Steps
<1>2. RunsInv' /\ UNCHANGED configgenVars
  <2>1. CASE Reads(p, r)
    BY <1>1, <2>1, ReadsSound DEF PairInv
  <2>2. CASE \E state : Writes(p, state, r)
    BY <1>1, <2>2, WritesSound DEF PairInv
  <2>. QED
    BY <1>1, <2>1, <2>2
<1>. QED
  BY <1>2, FilesSame DEF PairInv

(* The files that are read are of two registries, perhaps; the digest tells. *)
LEMMA LoadSettingsStep ==
  ASSUME PairInv, NEW p \in Programs, LoadSettings(p)
  PROVE  Steps(p)
<1>1. RunsInv /\ FilesInv
  BY DEF PairInv
<1>2. CASE /\ files["model_settings"].digest = run[p].models
           /\ PolicyIsValid(run[p].models, files["model_settings"])
  <2>. DEFINE pc == IF p = "init" THEN "retire" ELSE "models"
              r == [At(p, pc) EXCEPT !.settings = files["model_settings"],
                                     !.filters = IF p = "init" THEN Filters ELSE <<>>]
  <2>1. Reads(p, r)
    BY <1>2 DEF LoadSettings
  <2>2. PICK k \in DOMAIN Registries :
          files["model_settings"] = Content("model_settings", Registries[k])
    BY <1>1 DEF FilesInv, Targets
  <2>3. files["model_settings"] = EmitOwuiSettings(Registries[k])
    BY <2>2 DEF Content
  <2>4. files["model_settings"].digest = EmitOwui(Registries[k])
    BY <2>3 DEF EmitOwuiSettings
  <2>5. At(p, pc) = [run[p] EXCEPT !.pc = pc]
    BY DEF At, Ended
  <2>6. DOMAIN run[p] = Fields
    BY <1>1 DEF RunsInv, Sound
  <2>7. /\ r.models = EmitOwui(Registries[k]) /\ r.settings = EmitOwuiSettings(Registries[k])
        /\ r.pc # "load" /\ DOMAIN r = Fields
    BY <1>2, <2>3, <2>4, <2>5, <2>6 DEF Fields
  <2>8. Sound(r)
    BY <2>7 DEF Sound, OfOneRegistry
  <2>. HIDE DEF r
  <2>. QED
    BY <2>1, <2>8 DEF Steps
<1>3. CASE Reads(p, At(p, "off"))
  BY <1>1, <1>3, AtSound DEF Steps
<1>. QED
  BY <1>2, <1>3 DEF LoadSettings

LEMMA StartSteps ==
  ASSUME PairInv, StartInit \/ PublishStep
  PROVE  \E p \in Programs : Steps(p)
<1>1. CASE StartInit
  <2>. DEFINE r == [AtStart("settings") EXCEPT !.models = files["models_config"]]
  <2>1. Sound(r)
    BY DEF AtStart, Sound, Fields
  <2>2. Reads("init", r)
    BY <1>1 DEF StartInit
  <2>. HIDE DEF r
  <2>. QED
    BY <2>1, <2>2 DEF Steps, Programs
<1>2. CASE StartPublish
  BY <1>2, StartSound DEF StartPublish, Steps, Programs
<1>3. CASE LoadModels
  <2>. DEFINE r == [At("publish", "settings") EXCEPT !.models = files["models_config"]]
  <2>1. DOMAIN run["publish"] = Fields /\ run["publish"].settings = NoSettings
    BY <1>3 DEF PairInv, RunsInv, Sound, LoadModels, Programs
  <2>2. At("publish", "settings") = [run["publish"] EXCEPT !.pc = "settings"]
    BY DEF At, Ended
  <2>3. Sound(r)
    BY <2>1, <2>2 DEF Sound, Fields
  <2>4. Reads("publish", r)
    BY <1>3 DEF LoadModels
  <2>. HIDE DEF r
  <2>. QED
    BY <2>3, <2>4 DEF Steps, Programs
<1>. QED
  BY <1>1, <1>2, <1>3 DEF PublishStep

(* The other steps keep the policy or end the program.                     *)
LEMMA ReconcileSteps ==
  ASSUME PairInv, NEW p \in Programs, ReconcileStep(p)
  PROVE  Steps(p)
<1>0. RunsInv /\ Sound(run[p])
  BY DEF PairInv, RunsInv
<1>1. CASE LoadSettings(p)
  BY <1>1, LoadSettingsStep
<1>2. CASE ReadModels(p)
  <2>. DEFINE r == [At(p, "plan") EXCEPT !.saved = owui.saved, !.edited = @ \ (Ids \cup {"program"})]
  <2>1. Sound(At(p, "plan"))
    BY <1>0, AtSound
  <2>2. DOMAIN r = Fields /\ r.pc = At(p, "plan").pc /\ r.models = At(p, "plan").models
        /\ r.settings = At(p, "plan").settings
    BY <2>1 DEF Sound, Fields
  <2>3. Sound(r)
    BY <2>1, <2>2, LikeSound
  <2>4. Reads(p, r)
    BY <1>2 DEF ReadModels
  <2>. HIDE DEF r
  <2>. QED
    BY <2>3, <2>4 DEF Steps
<1>3. CASE PlanEnds(p)
  BY <1>0, <1>3, AtSound DEF PlanEnds, Steps
<1>4. CASE PlanGoesOn(p)
  <2>. DEFINE r == [WithSettingsRead(p) EXCEPT
                      !.pc = "write", !.todo = Calls(p),
                      !.backup = IF p = "publish" THEN Saved(run[p].saved) ELSE {}]
  <2>1. /\ DOMAIN r = Fields /\ r.pc # "load" /\ r.models = run[p].models
        /\ r.settings = run[p].settings
    BY <1>0 DEF Sound, Fields, WithSettingsRead
  <2>2. Sound(r)
    BY <1>0, <2>1 DEF Sound, OfOneRegistry
  <2>3. Reads(p, r)
    BY <1>4 DEF PlanGoesOn
  <2>. HIDE DEF r
  <2>. QED
    BY <2>2, <2>3 DEF Steps
<1>5. Sound(At(p, "off")) /\ \A call : Sound(Called(p, call))
  BY <1>0, AtSound, LikeSound DEF Called, Sound, Fields
<1>6. CASE SaveModel(p) \/ DeleteModel(p)
  <2>1. CASE \E r : Sound(r) /\ Reads(p, r)
    BY <2>1 DEF Steps
  <2>2. CASE \E call, state : Writes(p, state, Called(p, call))
    BY <1>5, <2>2 DEF Steps
  <2>. HIDE DEF Called
  <2>. QED
    BY <1>5, <1>6, <2>1, <2>2 DEF SaveModel, DeleteModel
<1>8. CASE PostConnections(p) \/ PostDefaults(p) \/ PostTasks(p)
  BY <1>5, <1>8 DEF PostConnections, PostDefaults, PostTasks, Steps
<1>7. CASE Verify(p)
  BY <1>0, <1>7, AtSound DEF Verify, Checks, Steps
<1>. QED
  BY <1>1, <1>2, <1>3, <1>4, <1>6, <1>7, <1>8 DEF ReconcileStep

LEMMA InitSteps ==
  ASSUME PairInv, InitStep
  PROVE  \E p \in Programs : Steps(p)
<1>0. RunsInv /\ Sound(run["init"]) /\ "init" \in Programs
  BY DEF PairInv, RunsInv, Programs
<1>1. CASE StartInit
  BY <1>1, StartSteps
<1>2. Sound(NextFilter)
  <2>. DEFINE a == At("init", IF Len(run["init"].filters) = 1 THEN "models" ELSE "filters")
  <2>1. Sound(a)
    BY <1>0, AtSound
  <2>. HIDE DEF a
  <2>2. NextFilter = [a EXCEPT !.filters = Tail(@)]
    BY DEF NextFilter, a
  <2>. QED
    BY <2>1, <2>2, LikeSound DEF Sound, Fields
<1>3. CASE RemoveFunction \/ CreateFunction
  BY <1>0, <1>3, AtSound DEF RemoveFunction, CreateFunction, Steps
<1>4. CASE SkipFunction \/ ToggleFunction
  BY <1>0, <1>2, <1>4 DEF SkipFunction, ToggleFunction, Steps
<1>5. CASE ReadTaskConfig
  <2>. DEFINE a == At("init", IF InitTasks(owui.tasks) = owui.tasks THEN "search" ELSE "taskPost")
  <2>1. Sound(a)
    BY <1>0, AtSound
  <2>. HIDE DEF a
  <2>2. Reads("init", [a EXCEPT !.tasks = owui.tasks, !.edited = @ \ {"tasks"}])
    BY <1>5 DEF ReadTaskConfig, a
  <2>3. Sound([a EXCEPT !.tasks = owui.tasks, !.edited = @ \ {"tasks"}])
    BY <2>1, LikeSound DEF Sound, Fields
  <2>. QED
    BY <1>0, <2>2, <2>3 DEF Steps
<1>6. CASE PostTaskConfig \/ AssertRouting
  BY <1>0, <1>6, AtSound DEF PostTaskConfig, AssertRouting, Checks, Steps
<1>7. CASE PushSearch \/ PushOllama \/ PushEmbedding
  BY <1>0, <1>7, AtSound DEF PushSearch, PushOllama, PushEmbedding, Steps
<1>. QED
  BY <1>1, <1>3, <1>4, <1>5, <1>6, <1>7 DEF InitStep

(* Failures, the generator and the administrator.                          *)
LEMMA OtherSteps ==
  ASSUME PairInv,
         \/ \E p \in Programs : Stops(p)
         \/ GenerateStep \/ GeneratorStops \/ RemovalFails
         \/ EditRegistry /\ UNCHANGED <<owui, run, faults>>
         \/ \E item, state : ByAdmin(item, state)
  PROVE  PairInv'
<1>0. FilesInv /\ RunsInv
  BY DEF PairInv
<1>1. CASE \E p \in Programs : Stops(p)
  <2>1. PICK p \in Programs : Stops(p)
    BY <1>1
  <2>2. Sound(At(p, "off"))
    BY <1>0, AtSound
  <2>3. run' = [run EXCEPT ![p] = At(p, "off")] /\ UNCHANGED configgenVars
    BY <2>1 DEF Stops, configgenVars
  <2>4. RunsInv'
    BY <1>0, <2>2, <2>3 DEF RunsInv, Sound, OfOneRegistry
  <2>. QED
    BY <1>0, <2>3, <2>4, FilesSame DEF PairInv
<1>2. CASE run' = run /\ (WriteFiles \/ EditRegistry \/ StartGenerate \/ StopGenerate)
  <2>1. FilesInv'
    BY <1>0, <1>2, WriteFilesKeeps, GeneratorKeeps
  <2>2. RunsInv'
    BY <1>0, <1>2 DEF RunsInv, Sound, OfOneRegistry
  <2>. QED
    BY <2>1, <2>2 DEF PairInv
<1>3. CASE \E item, state : ByAdmin(item, state)
  <2>1. PICK item, state : ByAdmin(item, state)
    BY <1>3
  <2>2. \A p \in Programs : Sound(Noted(p, item))
    BY <1>0, NotedSound
  <2>3. run' = [p \in Programs |-> Noted(p, item)] /\ UNCHANGED configgenVars
    BY <2>1 DEF ByAdmin, configgenVars
  <2>4. RunsInv'
    BY <2>2, <2>3 DEF RunsInv, Sound, OfOneRegistry
  <2>. QED
    BY <1>0, <2>3, <2>4, FilesSame DEF PairInv
<1>4. CASE RemovalFails
  <2>1. Sound(At("init", "filters"))
    BY <1>0, AtSound DEF RunsInv, Programs
  <2>2. run' = [run EXCEPT !["init"] = At("init", "filters")] /\ UNCHANGED configgenVars
    BY <1>4 DEF RemovalFails, configgenVars
  <2>3. RunsInv'
    BY <1>0, <2>1, <2>2 DEF RunsInv, Sound, OfOneRegistry
  <2>. QED
    BY <1>0, <2>2, <2>3, FilesSame DEF PairInv
<1>. QED
  BY <1>1, <1>2, <1>3, <1>4 DEF GenerateStep, GeneratorStops

LEMMA NextPair ==
  ASSUME PairInv, [OwuiNext]_owuiVars
  PROVE  PairInv'
<1>1. CASE \E p \in Programs : Steps(p)
  BY <1>1, SoundSteps
<1>2. CASE UNCHANGED owuiVars
  BY <1>2, FilesSame DEF PairInv, RunsInv, Sound, OfOneRegistry, configgenVars
<1>3. \/ \E p \in Programs : Steps(p)
      \/ \E p \in Programs : Stops(p)
      \/ GenerateStep \/ GeneratorStops \/ RemovalFails
      \/ EditRegistry /\ UNCHANGED <<owui, run, faults>>
      \/ \E item, state : ByAdmin(item, state)
      \/ UNCHANGED owuiVars
  BY StartSteps, ReconcileSteps, InitSteps
     DEF OwuiNext, AdminEditsModel, AdminEditsConnections, AdminEditsTasks, AdminTogglesFunction
<1>. QED
  BY <1>1, <1>2, <1>3, OtherSteps

(* Wherever `generate` is between its files when a program reads them, a   *)
(* program that goes on has the models and the settings of one registry    *)
(* (load_desired: "Mismatched generated OpenWebUI files").                 *)
THEOREM LoadedPairIsOfOneRegistry == OwuiSpec => []LoadedPairIsAPolicy
<1>1. PairInv => LoadedPairIsAPolicy
  BY DEF PairInv, RunsInv, Sound, OfOneRegistry, LoadedPairIsAPolicy, Loaded
<1>. QED
  BY <1>1, InitPair, NextPair, PTL DEF OwuiSpec

-----------------------------------------------------------------------------
(* The steps between the look and the last call.                           *)

Unloaded   == Ended \cup {"load", "settings"}
Reconciled == {"taskRead", "taskPost", "search", "ollama", "embedding", "routing"}
ConnFields == {"main", "task", "personal"}
TaskFields == {"internal", "external", "auto"}
SavedStates == [Ids -> Registration \cup {NoModel}]

(* What Open WebUI holds, and a filter is on only where there is one.      *)
OwuiTyped(o) ==
  /\ DOMAIN o = {"saved", "conns", "defaults", "tasks", "functions", "pushed"}
  /\ o.saved \in SavedStates
  /\ DOMAIN o.conns = ConnFields /\ DOMAIN o.tasks = TaskFields
  /\ DOMAIN o.functions = ToSet(Filters) \cup {RetiredFilter}
  /\ \A f \in ToSet(Filters) : "active" \in o.functions[f] => "exists" \in o.functions[f]

Typed(r) ==
  /\ r.saved \in SavedStates
  /\ DOMAIN r.conns = ConnFields /\ DOMAIN r.tasks = TaskFields
  /\ r.filters \in Seq(ToSet(Filters))

Ships(r) == {r.models[k].id : k \in DOMAIN r.models}

(* A program past the load has a valid policy; only a publish has something
   to delete, not shipped and in its backup.                               *)
Planned(p, r) ==
  /\ r.pc \notin Unloaded => PolicyIsValid(r.models, r.settings)
  /\ r.pc = "write" => \A k \in DOMAIN Names : Call("delete", k) \in r.todo =>
       p = "publish" /\ Names[k] \in r.backup /\ Names[k] \notin Ships(r)
  /\ p = "publish" => r.pc \notin Reconciled \cup {"retire", "filters", "toggle"}

(* A function about to be toggled is there, and off if nobody touched it.  *)
Toggling(o, r) ==
  r.pc = "toggle" =>
    /\ r.filters # <<>>
    /\ "exists" \in o.functions[Head(r.filters)]
    /\ Head(r.filters) \notin r.edited => "active" \notin o.functions[Head(r.filters)]

(* What was read and not edited since is as it was read, but for the
   program's own calls.                                                    *)
Agrees(o, r) ==
  /\ r.pc \in {"plan", "write"} =>
       \A m \in Ids : r.edited \cap {m, "program"} = {} =>
         /\ o.saved[m] # NoModel /\ r.saved[m] # NoModel => o.saved[m].grants = r.saved[m].grants
         /\ m \notin Ships(r) => o.saved[m] \in {r.saved[m], NoModel}
  /\ r.pc = "write" /\ r.edited \cap {"conns", "program"} = {} =>
       o.conns.personal = r.conns.personal

(* What the verification found stays, if nobody edits it: InPolicy but for
   the task configuration, and from the search on that too.                *)
Verified(o, r) ==
  /\ \A k \in DOMAIN r.models : InLine(o.saved[r.models[k].id], r.models[k])
  /\ \A m \in Saved(o.saved) \ Ships(r) : ~o.saved[m].managed /\ m \notin r.settings.excluded
  /\ o.conns.main.ids \cup o.conns.task.ids = Ships(r)
  /\ \A m \in Ships(r) : \/ m \in o.conns.main.ids /\ o.conns.main.local
                         \/ m \in o.conns.task.ids /\ o.conns.task.local
  /\ o.defaults = r.settings.default

Settles(o, r) ==
  /\ r.pc \in Reconciled /\ r.edited \subseteq ToSet(Filters) \cup {"tasks"} => Verified(o, r)
  /\ r.pc \in Reconciled \ {"taskRead", "taskPost"} /\ r.edited \subseteq ToSet(Filters) =>
       o.tasks.internal = r.settings.task /\ o.tasks.external = r.settings.task

Keeping(p, o, r) ==
  Typed(r) /\ Planned(p, r) /\ Toggling(o, r) /\ Agrees(o, r) /\ Settles(o, r)

DeployInv ==
  /\ PairInv /\ faults \in Nat /\ OwuiTyped(owui)
  /\ \A p \in Programs : Keeping(p, owui, run[p])

(* What the step of a program does to what is the administrator's, and to
   what it deletes.                                                        *)
Harmless(p, o, r) ==
  /\ \A m \in Ids : owui.saved[m] # NoModel /\ o.saved[m] = NoModel =>
       /\ p = "publish" /\ r.todo # run[p].todo
       /\ m \in run[p].backup /\ m \notin Ships(run[p])
  /\ \A m \in Ids : /\ owui.saved[m] # NoModel /\ o.saved[m] # NoModel
                    /\ run[p].edited \cap {m, "program"} = {}
                    => o.saved[m].grants = owui.saved[m].grants
  /\ run[p].edited \cap {"conns", "program"} = {} => o.conns.personal = owui.conns.personal
  /\ \A f \in ToSet(Filters) \ run[p].edited :
       "active" \in owui.functions[f] => "active" \in o.functions[f]
  /\ p = "publish" => o.functions = owui.functions
  /\ r.pc = "ready" => p = "init" /\ run[p].pc = "routing"

Moves(p) ==
  \E r, o : /\ OwuiTyped(o) /\ Keeping(p, o, r) /\ Harmless(p, o, r)
            /\ (Reads(p, r) /\ o = owui) \/ Writes(p, o, r)

-----------------------------------------------------------------------------
(* Records of programs.                                                    *)
LEMMA StartTyped == ASSUME NEW pc PROVE Typed(AtStart(pc)) /\ AtStart(pc).pc = pc
BY DEF Typed, AtStart, SavedStates, ConnFields, TaskFields

LEMMA UnloadedKeeps ==
  ASSUME NEW p, NEW o, NEW r, Typed(r), r.pc \in Unloaded
  PROVE  Keeping(p, o, r)
BY DEF Keeping, Unloaded, Ended, Planned, Toggling, Agrees, Settles, Reconciled

LEMMA InitDeploy == OwuiInit => DeployInv
<1>. SUFFICES ASSUME OwuiInit PROVE DeployInv
  OBVIOUS
<1>1. \A p \in Programs : Keeping(p, owui, run[p])
  BY StartTyped, UnloadedKeeps DEF OwuiInit, Unloaded, Ended
<1>2. OwuiTyped(owui)
  <2>1. PICK s \in InitialSaved : 
       owui = [saved |-> s,
               conns |-> [main |-> NoEntry, task |-> NoEntry, personal |-> 0],
               defaults |-> NoModel,
               tasks |-> [internal |-> NoModel, external |-> NoModel, auto |-> FALSE],
               functions |-> [f \in ToSet(Filters) \cup {RetiredFilter} |->
                                IF f = RetiredFilter THEN {"exists"} ELSE {}],
               pushed |-> {}]
    BY DEF OwuiInit
  <2>2. s \in SavedStates
    BY OwuiAssumption DEF SavedStates
  <2>. QED
    BY <2>1, <2>2, OwuiAssumption DEF OwuiTyped, ConnFields, TaskFields
<1>. QED
  BY <1>1, <1>2, InitPair DEF DeployInv, OwuiInit

(* A program that did not take the step.                                   *)
LEMMA OutsiderKeeps ==
  ASSUME DeployInv, NEW p \in Programs, NEW q \in Programs, p # q, NEW o,
         p = "publish" => o.functions = owui.functions
  PROVE  Keeping(q, o, Noted(q, "program"))
<1>. DEFINE r == run[q]
            n == Noted(q, "program")
<1>1. Keeping(q, owui, r) /\ Sound(r)
  BY DEF DeployInv, PairInv, RunsInv
<1>2. \/ n = r /\ r.pc \in Early
      \/ n = [r EXCEPT !.edited = @ \cup {"program"}] /\ r.pc \notin Early
  BY OwuiAssumption DEF Noted, Objects
<1>3. /\ n.pc = r.pc /\ n.models = r.models /\ n.settings = r.settings /\ n.saved = r.saved
      /\ n.conns = r.conns /\ n.tasks = r.tasks /\ n.filters = r.filters /\ n.todo = r.todo
      /\ n.backup = r.backup /\ (n.edited = r.edited \/ n.edited = r.edited \cup {"program"})
      /\ n.pc \notin Early => "program" \in n.edited
  BY <1>1, <1>2 DEF Sound, Fields
<1>. HIDE DEF n
<1>4. Typed(n) /\ Planned(q, n)
  BY <1>1, <1>3 DEF Keeping, Typed, Planned, Ships
<1>5. Toggling(o, n)
  BY <1>1, <1>3 DEF Keeping, Toggling, Planned, Programs
<1>6. Agrees(o, n)
  BY <1>3 DEF Agrees, Early, Ended
<1>7. Settles(o, n)
  BY <1>3, OwuiAssumption DEF Settles, Early, Ended, Reconciled, Objects
<1>. QED
  BY <1>4, <1>5, <1>6, <1>7 DEF Keeping, n

LEMMA MovesKeep ==
  ASSUME DeployInv, NEW p \in Programs, Moves(p)
  PROVE  faults' \in Nat /\ OwuiTyped(owui') /\ \A q \in Programs : Keeping(q, owui', run'[q])
<1>1. PICK r, o : /\ OwuiTyped(o) /\ Keeping(p, o, r) /\ Harmless(p, o, r)
                  /\ (Reads(p, r) /\ o = owui) \/ Writes(p, o, r)
  BY DEF Moves
<1>2. DOMAIN run = Programs
  BY DEF DeployInv, PairInv, RunsInv
<1>3. CASE Reads(p, r) /\ o = owui
  BY <1>1, <1>2, <1>3 DEF Reads, DeployInv
<1>4. CASE Writes(p, o, r)
  <2>1. owui' = o /\ run' = [q \in Programs |-> IF q = p THEN r ELSE Noted(q, "program")]
        /\ faults' = faults
    BY <1>4 DEF Writes
  <2>2. \A q \in Programs \ {p} : Keeping(q, o, Noted(q, "program"))
    BY <1>1, OutsiderKeeps DEF Harmless
  <2>. QED
    BY <1>1, <2>1, <2>2 DEF DeployInv
<1>. QED
  BY <1>1, <1>3, <1>4

-----------------------------------------------------------------------------
(* The administrator.                                                      *)
NotedAs(q, item, n) ==
  /\ n.pc = run[q].pc /\ n.models = run[q].models /\ n.settings = run[q].settings
  /\ n.saved = run[q].saved /\ n.conns = run[q].conns /\ n.tasks = run[q].tasks
  /\ n.filters = run[q].filters /\ n.todo = run[q].todo /\ n.backup = run[q].backup
  /\ n.edited = run[q].edited \/ n.edited = run[q].edited \cup {item}
  /\ n.pc \notin Early => item \in n.edited
  /\ n.pc = "toggle" /\ item \in ToSet(Filters) => item \in n.edited

LEMMA NotedIs ==
  ASSUME DeployInv, NEW q \in Programs, NEW item
  PROVE  NotedAs(q, item, Noted(q, item))
<1>1. DOMAIN run[q] = Fields
  BY DEF DeployInv, PairInv, RunsInv, Sound
<1>2. \/ /\ Noted(q, item) = run[q]
         /\ run[q].pc \in Early /\ ~(item \in ToSet(Filters) /\ run[q].pc \notin Ended)
      \/ Noted(q, item) = [run[q] EXCEPT !.edited = @ \cup {item}]
  BY DEF Noted
<1>3. "toggle" \notin Ended
  BY DEF Ended
<1>. QED
  BY <1>1, <1>2, <1>3 DEF NotedAs, Fields

(* An edit of one item leaves the others, and is noted by who has looked.  *)
EditOf(item, o) ==
  /\ item \notin Ids => o.saved = owui.saved
  /\ \A m \in Ids \ {item} : o.saved[m] = owui.saved[m]
  /\ item # "conns" => o.conns = owui.conns
  /\ item = "conns" => o.conns.main = owui.conns.main /\ o.conns.task = owui.conns.task
  /\ o.defaults = owui.defaults
  /\ item # "tasks" => o.tasks = owui.tasks
  /\ \A f \in ToSet(Filters) : "exists" \in o.functions[f] <=> "exists" \in owui.functions[f]
  /\ \A f \in ToSet(Filters) \ {item} : o.functions[f] = owui.functions[f]

LEMMA EditKeeps ==
  ASSUME DeployInv, NEW item, NEW o, EditOf(item, o), NEW q \in Programs
  PROVE  Keeping(q, o, Noted(q, item))
<1>. DEFINE n == Noted(q, item)
            r == run[q]
<1>1. Keeping(q, owui, r) /\ NotedAs(q, item, n)
  BY NotedIs DEF DeployInv
<1>. HIDE DEF n
<1>2. Typed(n) /\ Planned(q, n)
  BY <1>1 DEF Keeping, NotedAs, Typed, Planned, Ships
<1>3. Toggling(o, n)
  <2>. SUFFICES ASSUME n.pc = "toggle" PROVE Toggling(o, n)
    BY DEF Toggling
  <2>1. /\ n.filters # <<>> /\ n.filters = r.filters
        /\ "exists" \in owui.functions[Head(r.filters)]
        /\ Head(r.filters) \notin r.edited => "active" \notin owui.functions[Head(r.filters)]
        /\ n.filters \in Seq(ToSet(Filters))
    BY <1>1 DEF Keeping, NotedAs, Toggling, Typed
  <2>2. Head(n.filters) \in ToSet(Filters)
    BY <2>1
  <2>3. CASE Head(n.filters) = item
    BY <1>1, <2>1, <2>2, <2>3 DEF Toggling, EditOf, NotedAs
  <2>4. CASE Head(n.filters) # item
    BY <1>1, <2>1, <2>2, <2>4 DEF Toggling, EditOf, NotedAs
  <2>. QED
    BY <2>3, <2>4
<1>4. Agrees(o, n)
  <2>1. n.pc \in {"plan", "write"} => n.pc \notin Early
    BY DEF Early, Ended
  <2>2. ASSUME n.pc \in {"plan", "write"}, NEW m \in Ids, n.edited \cap {m, "program"} = {}
        PROVE  /\ o.saved[m] # NoModel /\ n.saved[m] # NoModel => o.saved[m].grants = n.saved[m].grants
               /\ m \notin Ships(n) => o.saved[m] \in {n.saved[m], NoModel}
    <3>1. m # item /\ r.edited \cap {m, "program"} = {} /\ r.pc \in {"plan", "write"}
      BY <1>1, <2>1, <2>2 DEF NotedAs
    <3>2. o.saved[m] = owui.saved[m] /\ n.saved = r.saved /\ Ships(n) = Ships(r)
      BY <1>1, <3>1 DEF EditOf, NotedAs, Ships
    <3>. QED
      BY <1>1, <3>1, <3>2 DEF Keeping, Agrees
  <2>3. ASSUME n.pc = "write", n.edited \cap {"conns", "program"} = {}
        PROVE  o.conns.personal = n.conns.personal
    BY <1>1, <2>1, <2>3 DEF NotedAs, EditOf, Keeping, Agrees
  <2>. QED
    BY <2>2, <2>3 DEF Agrees
<1>5. Settles(o, n)
  <2>1. n.pc \in Reconciled => n.pc \notin Early
    BY DEF Early, Ended, Reconciled
  <2>2. ASSUME n.pc \in Reconciled, n.edited \subseteq ToSet(Filters) \cup {"tasks"}
        PROVE  Verified(o, n)
    <3>1. item \in ToSet(Filters) \cup {"tasks"} /\ r.edited \subseteq ToSet(Filters) \cup {"tasks"}
          /\ r.pc \in Reconciled
      BY <1>1, <2>1, <2>2 DEF NotedAs
    <3>2. o.saved = owui.saved /\ o.conns = owui.conns /\ o.defaults = owui.defaults
      BY <3>1, OwuiAssumption DEF EditOf, Objects
    <3>3. Verified(owui, r)
      BY <1>1, <3>1 DEF Keeping, Settles
    <3>. QED
      BY <1>1, <3>2, <3>3 DEF Verified, NotedAs, Ships
  <2>3. ASSUME n.pc \in Reconciled \ {"taskRead", "taskPost"}, n.edited \subseteq ToSet(Filters)
        PROVE  o.tasks.internal = n.settings.task /\ o.tasks.external = n.settings.task
    <3>1. item \in ToSet(Filters) /\ r.edited \subseteq ToSet(Filters)
          /\ r.pc \in Reconciled \ {"taskRead", "taskPost"}
      BY <1>1, <2>1, <2>3 DEF NotedAs
    <3>2. o.tasks = owui.tasks
      BY <3>1, OwuiAssumption DEF EditOf, Objects
    <3>. QED
      BY <1>1, <3>1, <3>2 DEF Keeping, Settles, NotedAs
  <2>. QED
    BY <2>2, <2>3 DEF Settles
<1>. QED
  BY <1>2, <1>3, <1>4, <1>5 DEF Keeping, n

(* Its actions are such edits.                                             *)
Edits == \E item, state : EditOf(item, state) /\ OwuiTyped(state) /\ ByAdmin(item, state)

LEMMA AdminEdits ==
  ASSUME DeployInv,
         \/ \E m \in AdminIds : AdminEditsModel(m)
         \/ AdminEditsConnections \/ AdminEditsTasks \/ AdminTogglesFunction
  PROVE  Edits
<1>0. OwuiTyped(owui)
  BY DEF DeployInv
<1>1. CASE \E m \in AdminIds : AdminEditsModel(m)
  <2>1. PICK m \in AdminIds : AdminEditsModel(m)
    BY <1>1
  <2>2. PICK reg : /\ \/ reg = [managed |-> FALSE, params |-> 0, grants |-> "none"]
                      \/ owui.saved[m] # NoModel /\ \/ reg = NoModel
                                                    \/ reg = [owui.saved[m] EXCEPT !.params = 0]
                                                    \/ reg = [owui.saved[m] EXCEPT !.grants = "team"]
                   /\ ByAdmin(m, [owui EXCEPT !.saved[m] = reg])
    BY <2>1, Zenon DEF AdminEditsModel
  <2>3. m \in Ids
    BY OwuiAssumption
  <2>4. owui.saved[m] \in Registration \cup {NoModel}
    BY <1>0, <2>3 DEF OwuiTyped, SavedStates
  <2>5. reg \in Registration \cup {NoModel}
    <3>1. 0 \in Params
      BY DEF Params
    <3>2. CASE reg = [managed |-> FALSE, params |-> 0, grants |-> "none"] \/ reg = NoModel
      <4>1. [managed |-> FALSE, params |-> 0, grants |-> "none"]
              \in [managed : BOOLEAN, params : Params, grants : {"none", "team"}]
        BY <3>1
      <4>. QED
        BY <3>2, <4>1 DEF Registration
    <3>3. ASSUME owui.saved[m] # NoModel,
                 \/ reg = [owui.saved[m] EXCEPT !.params = 0]
                 \/ reg = [owui.saved[m] EXCEPT !.grants = "team"]
          PROVE  reg \in Registration
      <4>1. owui.saved[m] \in [managed : BOOLEAN, params : Params, grants : {"none", "team"}]
        BY <2>4, <3>3 DEF Registration
      <4>2. reg \in [managed : BOOLEAN, params : Params, grants : {"none", "team"}]
        BY <3>1, <3>3, <4>1
      <4>. QED
        BY <4>2 DEF Registration
    <3>. QED
      BY <2>2, <3>2, <3>3
  <2>. DEFINE state == [owui EXCEPT !.saved[m] = reg]
  <2>6. OwuiTyped(state)
    BY <1>0, <2>3, <2>5 DEF OwuiTyped, SavedStates
  <2>7. EditOf(m, state)
    BY <1>0, <2>3, OwuiAssumption DEF OwuiTyped, SavedStates, EditOf, Objects
  <2>. HIDE DEF state
  <2>8. ByAdmin(m, state)
    BY <2>2 DEF state
  <2>. QED
    BY <2>6, <2>7, <2>8 DEF Edits
<1>2. CASE AdminEditsConnections
  <2>. DEFINE state == [owui EXCEPT !.conns.personal = 1 - @]
  <2>1. OwuiTyped(state) /\ EditOf("conns", state)
    BY <1>0, OwuiAssumption DEF OwuiTyped, EditOf, Objects, ConnFields
  <2>2. ByAdmin("conns", state)
    BY <1>2 DEF AdminEditsConnections
  <2>. HIDE DEF state
  <2>. QED
    BY <2>1, <2>2 DEF Edits
<1>3. CASE AdminEditsTasks
  <2>. DEFINE state == [owui EXCEPT !.tasks.external = NoModel]
  <2>1. OwuiTyped(state) /\ EditOf("tasks", state)
    BY <1>0, OwuiAssumption DEF OwuiTyped, EditOf, Objects, TaskFields
  <2>2. ByAdmin("tasks", state)
    BY <1>3 DEF AdminEditsTasks
  <2>. HIDE DEF state
  <2>. QED
    BY <2>1, <2>2 DEF Edits
<1>4. CASE AdminTogglesFunction
  <2>1. PICK f \in ToSet(Filters) : /\ "exists" \in owui.functions[f]
                                    /\ ByAdmin(f, Function(f, Flip(owui.functions[f])))
    BY <1>4 DEF AdminTogglesFunction
  <2>. DEFINE state == Function(f, Flip(owui.functions[f]))
  <2>2. "exists" \in Flip(owui.functions[f])
    BY <2>1 DEF Flip
  <2>3. state = [owui EXCEPT !.functions[f] = Flip(owui.functions[f])]
    BY DEF Function
  <2>. HIDE DEF state
  <2>4. OwuiTyped(state) /\ EditOf(f, state)
    BY <1>0, <2>1, <2>2, <2>3, OwuiAssumption DEF OwuiTyped, EditOf, Objects
  <2>. QED
    BY <2>1, <2>4 DEF Edits, state
<1>. QED
  BY <1>1, <1>2, <1>3, <1>4

-----------------------------------------------------------------------------
(* The steps of the programs.                                              *)
LEMMA Now ==
  ASSUME DeployInv, NEW p \in Programs
  PROVE  /\ DOMAIN run[p] = Fields /\ Typed(run[p]) /\ Planned(p, run[p])
         /\ Toggling(owui, run[p]) /\ Agrees(owui, run[p]) /\ Settles(owui, run[p])
         /\ OwuiTyped(owui)
BY DEF DeployInv, PairInv, RunsInv, Sound, Keeping

LEMMA AtIs ==
  ASSUME NEW p, NEW pc
  PROVE  /\ pc \in Ended => At(p, pc) = AtStart(pc)
         /\ pc \notin Ended \cup {"taskRead"} => At(p, pc) = [run[p] EXCEPT !.pc = pc]
         /\ At(p, "taskRead") = [AtStart("taskRead") EXCEPT !.models = run[p].models,
                                   !.settings = run[p].settings, !.edited = run[p].edited]
BY DEF At, Ended

LEMMA HarmlessSame ==
  ASSUME NEW p, NEW o, NEW r, o.saved = owui.saved, o.functions = owui.functions,
         o.conns.personal = owui.conns.personal, r.pc # "ready"
  PROVE  Harmless(p, o, r)
BY DEF Harmless

LEMMA ReadsMove ==
  ASSUME DeployInv, NEW p, NEW r, Keeping(p, owui, r), Reads(p, r),
         r.pc = "ready" => p = "init" /\ run[p].pc = "routing"
  PROVE  Moves(p)
<1>1. OwuiTyped(owui)
  BY DEF DeployInv
<1>2. Harmless(p, owui, r)
  BY DEF Harmless
<1>. QED
  BY <1>1, <1>2 DEF Moves

LEMMA WritesMove ==
  ASSUME NEW p, NEW o, NEW r, OwuiTyped(o), Keeping(p, o, r), Harmless(p, o, r), Writes(p, o, r)
  PROVE  Moves(p)
BY DEF Moves

LEMMA EndsMove ==
  ASSUME DeployInv, NEW p, Reads(p, At(p, "off"))
  PROVE  Moves(p)
<1>1. At(p, "off") = AtStart("off")
  BY AtIs DEF Ended
<1>2. Keeping(p, owui, AtStart("off"))
  BY StartTyped, UnloadedKeeps DEF Unloaded, Ended
<1>. QED
  BY <1>1, <1>2, StartTyped, ReadsMove

LEMMA StartMoves ==
  ASSUME DeployInv, StartInit \/ PublishStep
  PROVE  Moves("init") \/ Moves("publish")
<1>1. CASE StartInit
  <2>. DEFINE r == [AtStart("settings") EXCEPT !.models = files["models_config"]]
  <2>1. Typed(r) /\ r.pc = "settings"
    BY DEF Typed, AtStart, SavedStates, ConnFields, TaskFields
  <2>2. Reads("init", r)
    BY <1>1 DEF StartInit
  <2>. HIDE DEF r
  <2>. QED
    BY <2>1, <2>2, UnloadedKeeps, ReadsMove DEF Unloaded
<1>2. CASE StartPublish
  BY <1>2, StartTyped, UnloadedKeeps, ReadsMove DEF StartPublish, Unloaded
<1>3. CASE LoadModels
  <2>. DEFINE r == [At("publish", "settings") EXCEPT !.models = files["models_config"]]
  <2>1. DOMAIN run["publish"] = Fields /\ Typed(run["publish"])
    BY Now DEF Programs
  <2>2. At("publish", "settings") = [run["publish"] EXCEPT !.pc = "settings"]
    BY AtIs DEF Ended
  <2>3. Typed(r) /\ r.pc = "settings"
    BY <2>1, <2>2 DEF Typed, Fields
  <2>4. Reads("publish", r)
    BY <1>3 DEF LoadModels
  <2>. HIDE DEF r
  <2>. QED
    BY <2>3, <2>4, UnloadedKeeps, ReadsMove DEF Unloaded
<1>. QED
  BY <1>1, <1>2, <1>3 DEF PublishStep

(* A record before its program has looked.                                 *)
LEMMA EarlyKeeps ==
  ASSUME NEW p, NEW o, NEW r, Typed(r), r.pc \in {"retire", "filters", "models"},
         PolicyIsValid(r.models, r.settings), p = "publish" => r.pc = "models"
  PROVE  Keeping(p, o, r)
BY DEF Keeping, Planned, Toggling, Agrees, Settles, Reconciled

LEMMA LoadMoves ==
  ASSUME DeployInv, NEW p \in Programs, LoadSettings(p)
  PROVE  Moves(p)
<1>1. CASE /\ files["model_settings"].digest = run[p].models
           /\ PolicyIsValid(run[p].models, files["model_settings"])
  <2>. DEFINE pc == IF p = "init" THEN "retire" ELSE "models"
              r == [At(p, pc) EXCEPT !.settings = files["model_settings"],
                                     !.filters = IF p = "init" THEN Filters ELSE <<>>]
  <2>1. Reads(p, r)
    BY <1>1 DEF LoadSettings
  <2>2. At(p, pc) = [run[p] EXCEPT !.pc = pc]
    BY AtIs DEF Ended
  <2>3. DOMAIN run[p] = Fields /\ Typed(run[p])
    BY Now
  <2>4. /\ r.pc = pc /\ r.models = run[p].models /\ r.settings = files["model_settings"]
        /\ r.saved = run[p].saved /\ r.conns = run[p].conns /\ r.tasks = run[p].tasks
        /\ r.filters \in {Filters, <<>>}
    BY <2>2, <2>3 DEF Fields
  <2>. HIDE DEF r
  <2>5. Filters \in Seq(ToSet(Filters)) /\ <<>> \in Seq(ToSet(Filters))
    BY OwuiAssumption
  <2>7. Typed(r)
    BY <2>3, <2>4, <2>5 DEF Typed
  <2>6. Keeping(p, owui, r)
    BY <1>1, <2>4, <2>7, EarlyKeeps DEF Programs
  <2>. QED
    BY <2>1, <2>4, <2>6, ReadsMove
<1>2. CASE Reads(p, At(p, "off"))
  BY <1>2, EndsMove
<1>. QED
  BY <1>1, <1>2 DEF LoadSettings

(* init and its functions.                                                 *)
LEMMA NextFilterKeeps ==
  ASSUME DeployInv, NEW o, run["init"].pc \in {"filters", "toggle"}, run["init"].filters # <<>>
  PROVE  Keeping("init", o, NextFilter) /\ NextFilter.pc # "ready"
<1>. DEFINE r == run["init"]
            pc == IF Len(r.filters) = 1 THEN "models" ELSE "filters"
<1>1. DOMAIN r = Fields /\ Typed(r) /\ Planned("init", r)
  BY Now DEF Programs
<1>2. At("init", pc) = [r EXCEPT !.pc = pc]
  BY AtIs DEF Ended
<1>3. NextFilter = [[r EXCEPT !.pc = pc] EXCEPT !.filters = Tail(r.filters)]
  BY <1>1, <1>2 DEF NextFilter, Fields
<1>4. Tail(r.filters) \in Seq(ToSet(Filters))
  BY <1>1 DEF Typed
<1>5. PolicyIsValid(r.models, r.settings)
  BY <1>1 DEF Planned, Unloaded, Ended
<1>6. /\ Typed(NextFilter) /\ NextFilter.pc = pc
      /\ NextFilter.models = r.models /\ NextFilter.settings = r.settings
  BY <1>1, <1>3, <1>4 DEF Typed, Fields
<1>. QED
  BY <1>5, <1>6, EarlyKeeps

(* init past the retired function, removed or not.                         *)
LEMMA RetiredKeeps ==
  ASSUME DeployInv, run["init"].pc = "retire"
  PROVE  /\ At("init", "filters").pc = "filters"
         /\ \A o : Keeping("init", o, At("init", "filters"))
<1>. DEFINE r == run["init"]
            n == At("init", "filters")
<1>1. DOMAIN r = Fields /\ Typed(r) /\ Planned("init", r)
  BY Now DEF Programs
<1>2. n = [r EXCEPT !.pc = "filters"]
  BY AtIs DEF Ended
<1>3. /\ n.pc = "filters" /\ n.models = r.models /\ n.settings = r.settings
      /\ n.saved = r.saved /\ n.conns = r.conns /\ n.tasks = r.tasks /\ n.filters = r.filters
  BY <1>1, <1>2 DEF Fields
<1>4. Typed(n) /\ PolicyIsValid(n.models, n.settings)
  BY <1>1, <1>3 DEF Typed, Planned, Unloaded, Ended
<1>. HIDE DEF n
<1>5. \A o : Keeping("init", o, n)
  BY <1>3, <1>4, EarlyKeeps
<1>. QED
  BY <1>3, <1>5 DEF n

LEMMA FunctionMoves ==
  ASSUME DeployInv, RemoveFunction \/ SkipFunction \/ CreateFunction \/ ToggleFunction
  PROVE  Moves("init")
<1>. DEFINE r == run["init"]
            f == Head(r.filters)
<1>0. /\ DOMAIN r = Fields /\ Typed(r) /\ Planned("init", r) /\ Toggling(owui, r)
      /\ OwuiTyped(owui)
  BY Now DEF Programs
<1>1. CASE RemoveFunction
  <2>. DEFINE o == Function(RetiredFilter, {})
              n == At("init", "filters")
  <2>1. o = [owui EXCEPT !.functions[RetiredFilter] = {}]
    BY DEF Function
  <2>2. OwuiTyped(o) /\ o.saved = owui.saved /\ o.conns = owui.conns
        /\ \A g \in ToSet(Filters) : o.functions[g] = owui.functions[g]
    BY <1>0, <2>1, OwuiAssumption DEF OwuiTyped
  <2>3. r.pc = "retire" /\ (Writes("init", o, n) \/ Reads("init", n))
    BY <1>1 DEF RemoveFunction
  <2>4. n.pc = "filters" /\ \A state : Keeping("init", state, n)
    BY <2>3, RetiredKeeps
  <2>. HIDE DEF o, n
  <2>5. CASE Writes("init", o, n)
    <3>1. Harmless("init", o, n)
      BY <2>2, <2>4 DEF Harmless
    <3>. QED
      BY <2>2, <2>4, <2>5, <3>1, WritesMove
  <2>6. CASE Reads("init", n)
    BY <2>4, <2>6, ReadsMove
  <2>. QED
    BY <2>3, <2>5, <2>6
<1>2. CASE SkipFunction
  BY <1>2, NextFilterKeeps, ReadsMove DEF SkipFunction
<1>3. CASE CreateFunction
  <2>. DEFINE o == Function(f, {"exists"})
              n == At("init", "toggle")
  <2>1. n = [r EXCEPT !.pc = "toggle"] /\ o = [owui EXCEPT !.functions[f] = {"exists"}]
    BY AtIs DEF Ended, Function
  <2>2. r.pc = "filters" /\ r.filters # <<>> /\ "exists" \notin owui.functions[f]
        /\ Writes("init", o, n)
    BY <1>3 DEF CreateFunction
  <2>3. f \in ToSet(Filters)
    BY <1>0, <2>2 DEF Typed
  <2>4. /\ OwuiTyped(o) /\ o.saved = owui.saved /\ o.conns = owui.conns
        /\ o.functions[f] = {"exists"}
        /\ \A g \in ToSet(Filters) \ {f} : o.functions[g] = owui.functions[g]
    BY <1>0, <2>1, <2>3 DEF OwuiTyped
  <2>5. "active" \notin owui.functions[f]
    BY <1>0, <2>2, <2>3 DEF OwuiTyped
  <2>6. /\ n.pc = "toggle" /\ n.filters = r.filters /\ n.models = r.models
        /\ n.settings = r.settings /\ n.saved = r.saved /\ n.conns = r.conns /\ n.tasks = r.tasks
    BY <1>0, <2>1 DEF Fields
  <2>. HIDE DEF o, n
  <2>7. Typed(n) /\ Planned("init", n)
    BY <1>0, <2>2, <2>6 DEF Typed, Planned, Unloaded, Ended
  <2>8. Toggling(o, n)
    BY <2>2, <2>4, <2>6 DEF Toggling
  <2>9. Agrees(o, n) /\ Settles(o, n)
    BY <2>6 DEF Agrees, Settles, Reconciled
  <2>10. Harmless("init", o, n)
    BY <2>4, <2>5, <2>6 DEF Harmless
  <2>. QED
    BY <2>2, <2>4, <2>7, <2>8, <2>9, <2>10, WritesMove DEF Keeping
<1>4. CASE ToggleFunction
  <2>. DEFINE o == Function(f, Flip(owui.functions[f]))
  <2>1. o = [owui EXCEPT !.functions[f] = Flip(owui.functions[f])]
    BY DEF Function
  <2>2. r.pc = "toggle" /\ Writes("init", o, NextFilter)
    BY <1>4 DEF ToggleFunction
  <2>3. r.filters # <<>> /\ "exists" \in owui.functions[f]
        /\ (f \notin r.edited => "active" \notin owui.functions[f])
    BY <1>0, <2>2 DEF Toggling
  <2>4. f \in ToSet(Filters)
    BY <1>0, <2>3 DEF Typed
  <2>5. "exists" \in Flip(owui.functions[f])
    BY <2>3 DEF Flip
  <2>6. /\ OwuiTyped(o) /\ o.saved = owui.saved /\ o.conns = owui.conns
        /\ \A g \in ToSet(Filters) \ {f} : o.functions[g] = owui.functions[g]
    BY <1>0, <2>1, <2>4, <2>5 DEF OwuiTyped
  <2>. HIDE DEF o
  <2>7. Keeping("init", o, NextFilter) /\ NextFilter.pc # "ready"
    BY <2>2, <2>3, NextFilterKeeps
  <2>8. Harmless("init", o, NextFilter)
    BY <2>3, <2>6, <2>7 DEF Harmless
  <2>. QED
    BY <2>2, <2>6, <2>7, <2>8, WritesMove
<1>. QED
  BY <1>1, <1>2, <1>3, <1>4

-----------------------------------------------------------------------------
(* reconcile.                                                              *)
LEMMA ReadModelsMoves ==
  ASSUME DeployInv, NEW p \in Programs, ReadModels(p)
  PROVE  Moves(p)
<1>. DEFINE r == [At(p, "plan") EXCEPT !.saved = owui.saved, !.edited = @ \ (Ids \cup {"program"})]
<1>1. /\ DOMAIN run[p] = Fields /\ Typed(run[p]) /\ Planned(p, run[p]) /\ OwuiTyped(owui)
  BY Now
<1>2. At(p, "plan") = [run[p] EXCEPT !.pc = "plan"]
  BY AtIs DEF Ended
<1>3. run[p].pc = "models" /\ Reads(p, r)
  BY DEF ReadModels
<1>4. /\ r.pc = "plan" /\ r.saved = owui.saved /\ r.models = run[p].models
      /\ r.settings = run[p].settings /\ r.conns = run[p].conns /\ r.tasks = run[p].tasks
      /\ r.filters = run[p].filters
  BY <1>1, <1>2 DEF Fields
<1>. HIDE DEF r
<1>5. Typed(r) /\ Planned(p, r)
  BY <1>1, <1>3, <1>4 DEF Typed, Planned, OwuiTyped, Unloaded, Ended, Reconciled
<1>6. Toggling(owui, r) /\ Agrees(owui, r) /\ Settles(owui, r)
  BY <1>4 DEF Toggling, Agrees, Settles, Reconciled
<1>. QED
  BY <1>3, <1>4, <1>5, <1>6, ReadsMove DEF Keeping

(* What is to be deleted is not shipped, and only a publish has it.        *)
LEMMA StaleIsNotShipped ==
  ASSUME NEW p, PolicyIsValid(run[p].models, run[p].settings)
  PROVE  Stale(p) \cap Ships(run[p]) = {} /\ Stale(p) \subseteq Saved(run[p].saved)
BY DEF PolicyIsValid, Stale, ExcludedOrRetired, Shipped, Ships

LEMMA DeletesAreStale ==
  ASSUME NEW p, NEW k, Call("delete", k) \in Calls(p)
  PROVE  k \in DOMAIN Names /\ Names[k] \in Stale(p)
<1>. DEFINE r == WithSettingsRead(p)
<1>1. \A c \in When(ConnectionConfig(r.conns, r.settings) # r.conns, Call("conns", 0))
              \cup When(r.defaults # r.settings.default, Call("defaults", 0))
              \cup When(TaskConfig(r.tasks, r.settings) # r.tasks, Call("tasks", 0)) :
         c.kind # "delete"
  BY DEF When, Call
<1>2. \A c \in {Call("save", j) : j \in Updates(p)} : c.kind # "delete"
  BY DEF Call
<1>3. Call("delete", k).kind = "delete" /\ Call("delete", k).at = k
  BY DEF Call
<1>4. Call("delete", k) \in {Call("delete", j) : j \in {i \in DOMAIN Names : Names[i] \in Stale(p)}}
  BY <1>1, <1>2, <1>3 DEF Calls
<1>5. PICK j \in {i \in DOMAIN Names : Names[i] \in Stale(p)} : Call("delete", k) = Call("delete", j)
  BY <1>4
<1>. QED
  BY <1>5 DEF Call

LEMMA PlanMoves ==
  ASSUME DeployInv, NEW p \in Programs, PlanGoesOn(p)
  PROVE  Moves(p)
<1>. DEFINE w == WithSettingsRead(p)
            backup == IF p = "publish" THEN Saved(run[p].saved) ELSE {}
            r == [w EXCEPT !.pc = "write", !.todo = Calls(p), !.backup = backup]
<1>1. /\ DOMAIN run[p] = Fields /\ Typed(run[p]) /\ Planned(p, run[p]) /\ OwuiTyped(owui)
      /\ Agrees(owui, run[p])
  BY Now
<1>2. /\ run[p].pc = "plan" /\ Reads(p, r) /\ (Stale(p) # {} => p = "publish")
  BY DEF PlanGoesOn
<1>3. /\ r.pc = "write" /\ r.todo = Calls(p) /\ r.backup = backup
      /\ r.models = run[p].models /\ r.settings = run[p].settings /\ r.saved = run[p].saved
      /\ r.conns = owui.conns /\ r.tasks = owui.tasks /\ r.filters = run[p].filters
      /\ r.edited = run[p].edited \ {"conns", "tasks"}
  BY <1>1 DEF Fields, WithSettingsRead
<1>. HIDE DEF r, w
<1>4. Typed(r)
  BY <1>1, <1>3 DEF Typed, OwuiTyped
<1>5. PolicyIsValid(run[p].models, run[p].settings)
  BY <1>1, <1>2 DEF Planned, Unloaded, Ended
<1>6. Planned(p, r)
  <2>1. ASSUME NEW k \in DOMAIN Names, Call("delete", k) \in r.todo
        PROVE  p = "publish" /\ Names[k] \in r.backup /\ Names[k] \notin Ships(r)
    <3>1. Names[k] \in Stale(p)
      BY <1>3, <2>1, DeletesAreStale
    <3>. QED
      BY <1>2, <1>3, <1>5, <3>1, StaleIsNotShipped DEF Ships
  <2>. QED
    BY <1>3, <1>5, <2>1 DEF Planned, Reconciled
<1>7. Agrees(owui, r)
  <2>1. ASSUME NEW m \in Ids, r.edited \cap {m, "program"} = {}
        PROVE  run[p].edited \cap {m, "program"} = {}
    BY <1>3, <2>1, OwuiAssumption DEF Objects
  <2>. QED
    BY <1>1, <1>2, <1>3, <2>1 DEF Agrees, Ships
<1>8. Toggling(owui, r) /\ Settles(owui, r)
  BY <1>3 DEF Toggling, Settles, Reconciled
<1>. QED
  BY <1>2, <1>3, <1>4, <1>6, <1>7, <1>8, ReadsMove DEF Keeping

(* A call is made: it is no longer to do, and the rest of the record stays. *)
LEMMA CalledIs ==
  ASSUME DeployInv, NEW p \in Programs, NEW call, Calling(p, call)
  PROVE  LET r == Called(p, call)
         IN  /\ r.pc = "write" /\ r.todo = run[p].todo \ {call} /\ r.todo # run[p].todo
             /\ r.models = run[p].models /\ r.settings = run[p].settings
             /\ r.saved = run[p].saved /\ r.conns = run[p].conns /\ r.tasks = run[p].tasks
             /\ r.filters = run[p].filters /\ r.backup = run[p].backup
             /\ r.edited = run[p].edited
             /\ Typed(r) /\ Planned(p, r) /\ PolicyIsValid(run[p].models, run[p].settings)
             /\ run[p].pc = "write" /\ call \in run[p].todo
<1>. DEFINE r == Called(p, call)
<1>1. DOMAIN run[p] = Fields /\ Typed(run[p]) /\ Planned(p, run[p])
  BY Now
<1>2. run[p].pc = "write" /\ call \in run[p].todo
  BY DEF Calling
<1>3. r = [run[p] EXCEPT !.todo = run[p].todo \ {call}]
  BY DEF Called
<1>. HIDE DEF r
<1>4. /\ r.pc = "write" /\ r.todo = run[p].todo \ {call}
      /\ r.models = run[p].models /\ r.settings = run[p].settings
      /\ r.saved = run[p].saved /\ r.conns = run[p].conns /\ r.tasks = run[p].tasks
      /\ r.filters = run[p].filters /\ r.backup = run[p].backup
      /\ r.edited = run[p].edited
  BY <1>1, <1>2, <1>3 DEF Fields
<1>5. Typed(r) /\ Planned(p, r) /\ PolicyIsValid(run[p].models, run[p].settings)
  BY <1>1, <1>2, <1>4 DEF Typed, Planned, Ships, Unloaded, Ended
<1>6. r.todo # run[p].todo
  BY <1>2, <1>4
<1>. QED
  BY <1>2, <1>4, <1>5, <1>6 DEF r

(* What keeps of a record in the middle of its calls.                      *)
LEMMA CallKeeps ==
  ASSUME DeployInv, NEW p \in Programs, NEW call, Calling(p, call), NEW o,
         Agrees(o, Called(p, call))
  PROVE  Keeping(p, o, Called(p, call))
<1>1. Typed(Called(p, call)) /\ Planned(p, Called(p, call)) /\ Called(p, call).pc = "write"
  BY CalledIs
<1>2. Toggling(o, Called(p, call)) /\ Settles(o, Called(p, call))
  BY <1>1 DEF Toggling, Settles, Reconciled
<1>. QED
  BY <1>1, <1>2 DEF Keeping

(* The registration that is saved.                                         *)
LEMMA SavedAsIs ==
  ASSUME DeployInv, NEW p \in Programs, run[p].pc = "write", NEW k \in DOMAIN run[p].models,
         run[p].models[k].id \in Ids
  PROVE  SavedAs(p, run[p].models[k]) \in Registration
<1>. DEFINE e == run[p].models[k]
<1>1. Sound(run[p]) /\ Typed(run[p]) /\ Planned(p, run[p])
  BY Now DEF DeployInv, PairInv, RunsInv
<1>2. PolicyIsValid(run[p].models, run[p].settings)
  BY <1>1 DEF Planned, Unloaded, Ended
<1>3. run[p].settings # NoSettings
  BY <1>2 DEF PolicyIsValid, NoSettings
<1>4. PICK j \in DOMAIN Registries : run[p].models = EmitOwui(Registries[j])
  BY <1>1, <1>3 DEF Sound, OfOneRegistry
<1>5. Registries[j] \in ToSet(Registries) /\ e \in ToSet(EmitOwui(Registries[j]))
  BY <1>4 DEF ToSet
<1>6. e.params \in Params
  BY <1>5 DEF Params
<1>7. run[p].saved[e.id] # NoModel => run[p].saved[e.id].grants \in {"none", "team"}
  BY <1>1 DEF Typed, SavedStates, Registration
<1>8. [managed |-> TRUE, params |-> e.params,
       grants |-> IF run[p].saved[e.id] = NoModel THEN "none" ELSE run[p].saved[e.id].grants]
        \in [managed : BOOLEAN, params : Params, grants : {"none", "team"}]
  BY <1>6, <1>7
<1>. QED
  BY <1>8 DEF SavedAs, Registration

LEMMA SaveMoves ==
  ASSUME DeployInv, NEW p \in Programs, SaveModel(p)
  PROVE  Moves(p)
<1>1. PICK k \in DOMAIN run[p].models :
        LET e == run[p].models[k]
        IN  /\ Calling(p, Call("save", k))
            /\ IF (run[p].saved[e.id] = NoModel) = (owui.saved[e.id] = NoModel)
                 THEN Writes(p, [owui EXCEPT !.saved[e.id] = SavedAs(p, e)],
                             Called(p, Call("save", k)))
                 ELSE Reads(p, At(p, "off"))
  BY DEF SaveModel
<1>. DEFINE e == run[p].models[k]
            r == Called(p, Call("save", k))
            o == [owui EXCEPT !.saved[e.id] = SavedAs(p, e)]
<1>2. CASE Reads(p, At(p, "off"))
  BY <1>2, EndsMove
<1>3. CASE (run[p].saved[e.id] = NoModel) = (owui.saved[e.id] = NoModel) /\ Writes(p, o, r)
  <2>1. Calling(p, Call("save", k)) /\ OwuiTyped(owui) /\ Agrees(owui, run[p])
    BY <1>1, Now
  <2>2. /\ r.pc = "write" /\ run[p].pc = "write" /\ r.models = run[p].models
        /\ r.saved = run[p].saved /\ r.edited = run[p].edited /\ r.conns = run[p].conns
    BY <2>1, CalledIs
  <2>3. /\ o.saved = [owui.saved EXCEPT ![e.id] = SavedAs(p, e)]
        /\ o.conns = owui.conns /\ o.functions = owui.functions
        /\ o.tasks = owui.tasks /\ DOMAIN o = DOMAIN owui
    BY <2>1 DEF OwuiTyped
  <2>4. e.id \in Ships(run[p])
    BY DEF Ships
  <2>. HIDE DEF r, o
  <2>5. e.id \in Ids => SavedAs(p, e) \in Registration
    BY <2>2, SavedAsIs
  <2>6. \A m \in Ids : /\ m # e.id => o.saved[m] = owui.saved[m]
                       /\ m = e.id => o.saved[m] = SavedAs(p, e) /\ o.saved[m] # NoModel
    BY <2>1, <2>3, <2>5, OwuiAssumption DEF OwuiTyped, SavedStates
  <2>7. o.saved \in SavedStates
    BY <2>1, <2>3, <2>5 DEF OwuiTyped, SavedStates
  <2>8. OwuiTyped(o)
    BY <2>1, <2>3, <2>7 DEF OwuiTyped
  <2>9. run[p].saved[e.id] # NoModel => SavedAs(p, e).grants = run[p].saved[e.id].grants
    BY DEF SavedAs
  <2>10. Agrees(o, r)
    <3>1. ASSUME NEW m \in Ids, r.edited \cap {m, "program"} = {}
          PROVE  /\ o.saved[m] # NoModel /\ r.saved[m] # NoModel => o.saved[m].grants = r.saved[m].grants
                 /\ m \notin Ships(r) => o.saved[m] \in {r.saved[m], NoModel}
      <4>1. CASE m = e.id
        BY <2>2, <2>4, <2>6, <2>9, <4>1 DEF Ships
      <4>2. CASE m # e.id
        BY <2>1, <2>2, <2>6, <3>1, <4>2 DEF Agrees, Ships
      <4>. QED
        BY <4>1, <4>2
    <3>2. r.edited \cap {"conns", "program"} = {} => o.conns.personal = r.conns.personal
      BY <2>1, <2>2, <2>3 DEF Agrees
    <3>. QED
      BY <3>1, <3>2 DEF Agrees
  <2>11. Keeping(p, o, r)
    BY <2>1, <2>10, CallKeeps DEF r
  <2>12. Harmless(p, o, r)
    <3>1. ASSUME NEW m \in Ids, owui.saved[m] # NoModel, run[p].edited \cap {m, "program"} = {}
          PROVE  o.saved[m].grants = owui.saved[m].grants
      <4>1. CASE m = e.id
        <5>1. run[p].saved[m] # NoModel
          BY <1>3, <3>1, <4>1
        <5>2. owui.saved[m].grants = run[p].saved[m].grants
          BY <2>1, <2>2, <3>1, <5>1 DEF Agrees
        <5>. QED
          BY <2>6, <2>9, <4>1, <5>1, <5>2
      <4>2. CASE m # e.id
        BY <2>6, <4>2
      <4>. QED
        BY <4>1, <4>2
    <3>. QED
      BY <2>2, <2>3, <2>6, <3>1 DEF Harmless
  <2>. QED
    BY <1>3, <2>8, <2>11, <2>12, WritesMove
<1>. QED
  BY <1>1, <1>2, <1>3

LEMMA DeleteMoves ==
  ASSUME DeployInv, NEW p \in Programs, DeleteModel(p)
  PROVE  Moves(p)
<1>1. PICK k \in DOMAIN Names :
        /\ Calling(p, Call("delete", k))
        /\ IF owui.saved[Names[k]] # NoModel
             THEN Writes(p, [owui EXCEPT !.saved[Names[k]] = NoModel],
                         Called(p, Call("delete", k)))
             ELSE Reads(p, At(p, "off"))
  BY DEF DeleteModel
<1>. DEFINE r == Called(p, Call("delete", k))
            o == [owui EXCEPT !.saved[Names[k]] = NoModel]
<1>2. CASE Reads(p, At(p, "off"))
  BY <1>2, EndsMove
<1>3. CASE Writes(p, o, r)
  <2>1. /\ Calling(p, Call("delete", k)) /\ OwuiTyped(owui) /\ Agrees(owui, run[p])
        /\ Planned(p, run[p])
    BY <1>1, Now
  <2>2. /\ r.pc = "write" /\ run[p].pc = "write" /\ r.models = run[p].models
        /\ r.saved = run[p].saved /\ r.edited = run[p].edited /\ r.conns = run[p].conns
        /\ r.todo # run[p].todo /\ Call("delete", k) \in run[p].todo
    BY <2>1, CalledIs
  <2>3. /\ o.saved = [owui.saved EXCEPT ![Names[k]] = NoModel]
        /\ o.conns = owui.conns /\ o.functions = owui.functions
        /\ o.tasks = owui.tasks /\ DOMAIN o = DOMAIN owui
    BY <2>1 DEF OwuiTyped
  <2>. HIDE DEF r, o
  <2>4. p = "publish" /\ Names[k] \in run[p].backup /\ Names[k] \notin Ships(run[p])
    BY <2>1, <2>2 DEF Planned
  <2>5. \A m \in Ids : /\ m # Names[k] => o.saved[m] = owui.saved[m]
                       /\ m = Names[k] => o.saved[m] = NoModel
    BY <2>1, <2>3 DEF OwuiTyped, SavedStates
  <2>6. o.saved \in SavedStates
    BY <2>1, <2>3 DEF OwuiTyped, SavedStates
  <2>7. OwuiTyped(o)
    BY <2>1, <2>3, <2>6 DEF OwuiTyped
  <2>8. Agrees(o, r)
    BY <2>1, <2>2, <2>3, <2>5 DEF Agrees, Ships
  <2>9. Keeping(p, o, r)
    BY <2>1, <2>8, CallKeeps DEF r
  <2>10. Harmless(p, o, r)
    BY <2>2, <2>3, <2>4, <2>5 DEF Harmless
  <2>. QED
    BY <1>3, <2>7, <2>9, <2>10, WritesMove
<1>. QED
  BY <1>1, <1>2, <1>3

(* A post that leaves the registrations and the functions alone.           *)
LEMMA PostMoves ==
  ASSUME DeployInv, NEW p \in Programs,
         PostConnections(p) \/ PostDefaults(p) \/ PostTasks(p)
  PROVE  Moves(p)
<1>1. PICK kind \in {"conns", "defaults", "tasks"} :
        /\ Calling(p, Call(kind, 0))
        /\ \/ kind = "conns" /\ Writes(p, [owui EXCEPT !.conns =
                  ConnectionConfig(run[p].conns, run[p].settings)], Called(p, Call(kind, 0)))
           \/ kind = "defaults" /\ Writes(p, [owui EXCEPT !.defaults = run[p].settings.default],
                                          Called(p, Call(kind, 0)))
           \/ kind = "tasks" /\ Writes(p, [owui EXCEPT !.tasks =
                  TaskConfig(run[p].tasks, run[p].settings)], Called(p, Call(kind, 0)))
  BY DEF PostConnections, PostDefaults, PostTasks
<1>. DEFINE r == Called(p, Call(kind, 0))
<1>2. /\ OwuiTyped(owui) /\ Agrees(owui, run[p]) /\ Typed(run[p])
  BY Now
<1>3. /\ r.pc = "write" /\ run[p].pc = "write" /\ r.models = run[p].models
      /\ r.saved = run[p].saved /\ r.edited = run[p].edited /\ r.conns = run[p].conns
  BY <1>1, CalledIs
<1>. HIDE DEF r
<1>4. ASSUME NEW o, OwuiTyped(o), o.saved = owui.saved, o.functions = owui.functions,
             o.conns = owui.conns \/ o.conns.personal = run[p].conns.personal, Writes(p, o, r)
      PROVE  Moves(p)
  <2>1. run[p].edited \cap {"conns", "program"} = {} => o.conns.personal = owui.conns.personal
    BY <1>2, <1>3, <1>4 DEF Agrees
  <2>2. Agrees(o, r)
    BY <1>2, <1>3, <1>4, <2>1 DEF Agrees, Ships
  <2>3. Keeping(p, o, r)
    BY <1>1, <2>2, CallKeeps DEF r
  <2>4. Harmless(p, o, r)
    BY <1>3, <1>4, <2>1 DEF Harmless
  <2>. QED
    BY <1>4, <2>3, <2>4, WritesMove
<1>5. CASE kind = "conns"
  <2>. DEFINE c == ConnectionConfig(run[p].conns, run[p].settings)
              o == [owui EXCEPT !.conns = c]
  <2>1. DOMAIN c = ConnFields /\ c.personal = run[p].conns.personal
    BY <1>2 DEF ConnectionConfig, Typed, ConnFields
  <2>2. Writes(p, o, r)
    BY <1>1, <1>5 DEF r
  <2>. HIDE DEF c
  <2>3. OwuiTyped(o) /\ o.saved = owui.saved /\ o.functions = owui.functions /\ o.conns = c
    BY <1>2, <2>1 DEF OwuiTyped
  <2>. HIDE DEF o
  <2>. QED
    BY <1>4, <2>1, <2>2, <2>3
<1>6. CASE kind = "defaults"
  <2>. DEFINE o == [owui EXCEPT !.defaults = run[p].settings.default]
  <2>1. Writes(p, o, r)
    BY <1>1, <1>6 DEF r
  <2>2. OwuiTyped(o) /\ o.saved = owui.saved /\ o.functions = owui.functions
        /\ o.conns = owui.conns
    BY <1>2 DEF OwuiTyped
  <2>. HIDE DEF o
  <2>. QED
    BY <1>4, <2>1, <2>2
<1>7. CASE kind = "tasks"
  <2>. DEFINE t == TaskConfig(run[p].tasks, run[p].settings)
              o == [owui EXCEPT !.tasks = t]
  <2>1. DOMAIN t = TaskFields
    BY <1>2 DEF TaskConfig, Typed, TaskFields
  <2>2. Writes(p, o, r)
    BY <1>1, <1>7 DEF r
  <2>. HIDE DEF t
  <2>3. OwuiTyped(o) /\ o.saved = owui.saved /\ o.functions = owui.functions
        /\ o.conns = owui.conns
    BY <1>2, <2>1 DEF OwuiTyped
  <2>. HIDE DEF o
  <2>. QED
    BY <1>4, <2>2, <2>3
<1>. QED
  BY <1>1, <1>5, <1>6, <1>7

(* The verification of init; a publish ends with it.                       *)
LEMMA VerifyMoves ==
  ASSUME DeployInv, NEW p \in Programs, Verify(p)
  PROVE  Moves(p)
<1>1. CASE Reads(p, At(p, "off"))
  BY <1>1, EndsMove
<1>2. CASE ~Reads(p, At(p, "off"))
  <2>1. /\ p = "init" /\ run[p].pc = "write" /\ Reads(p, At(p, "taskRead"))
        /\ \A k \in DOMAIN run[p].models :
             InLine(owui.saved[run[p].models[k].id], run[p].models[k])
        /\ Saved(owui.saved) \cap ExcludedOrRetired(p) = {}
        /\ owui.conns = ConnectionConfig(run[p].conns, run[p].settings)
        /\ owui.defaults = run[p].settings.default
        /\ \A m \in Shipped(p) : IsLocal(m)
    BY <1>2 DEF Verify, Checks
  <2>. DEFINE r == At(p, "taskRead")
  <2>2. /\ DOMAIN run[p] = Fields /\ Typed(run[p]) /\ Planned(p, run[p]) /\ Agrees(owui, run[p])
        /\ OwuiTyped(owui)
    BY Now
  <2>3. PolicyIsValid(run[p].models, run[p].settings)
    BY <2>1, <2>2 DEF Planned, Unloaded, Ended
  <2>4. r = [AtStart("taskRead") EXCEPT !.models = run[p].models,
               !.settings = run[p].settings, !.edited = run[p].edited]
    BY AtIs
  <2>5. /\ r.pc = "taskRead" /\ r.models = run[p].models /\ r.settings = run[p].settings
        /\ r.edited = run[p].edited /\ Typed(r)
    BY <2>4, StartTyped DEF AtStart, Typed
  <2>. HIDE DEF r
  <2>6. Planned(p, r)
    BY <2>1, <2>3, <2>5 DEF Planned
  <2>7. Toggling(owui, r) /\ Agrees(owui, r)
    BY <2>5 DEF Toggling, Agrees
  <2>8. ASSUME r.edited \subseteq ToSet(Filters) \cup {"tasks"}
        PROVE  Verified(owui, r)
    <3>1. Ships(r) = Shipped(p) /\ Ships(r) = Ships(run[p])
      BY <2>5 DEF Ships, Shipped
    <3>2. ASSUME NEW m \in Saved(owui.saved) \ Ships(r)
          PROVE  ~owui.saved[m].managed /\ m \notin r.settings.excluded
      <4>1. m \in Ids /\ owui.saved[m] # NoModel
        BY <3>2 DEF Saved
      <4>2. run[p].edited \cap {m, "program"} = {}
        BY <2>5, <2>8, <4>1, OwuiAssumption DEF Objects
      <4>3. owui.saved[m] = run[p].saved[m]
        BY <2>1, <2>2, <3>1, <3>2, <4>1, <4>2 DEF Agrees
      <4>4. m \notin ExcludedOrRetired(p) /\ m \in Saved(run[p].saved)
        BY <2>1, <3>2, <4>1, <4>3 DEF Saved
      <4>. QED
        BY <2>5, <3>1, <3>2, <4>3, <4>4 DEF ExcludedOrRetired
    <3>3. owui.conns.main.ids = r.settings.main /\ owui.conns.task.ids = {r.settings.task}
      BY <2>1, <2>2, <2>5 DEF ConnectionConfig, Typed, ConnFields
    <3>4. owui.conns.main.ids \cup owui.conns.task.ids = Ships(r)
      BY <2>3, <2>5, <3>3 DEF PolicyIsValid, Ships
    <3>5. \A m \in Ships(r) : \/ m \in owui.conns.main.ids /\ owui.conns.main.local
                              \/ m \in owui.conns.task.ids /\ owui.conns.task.local
      BY <2>1, <3>1 DEF IsLocal
    <3>. QED
      BY <2>1, <2>5, <3>2, <3>4, <3>5 DEF Verified
  <2>9. Settles(owui, r)
    BY <2>5, <2>8 DEF Settles
  <2>10. Reads(p, r)
    BY <2>1 DEF r
  <2>. QED
    BY <2>5, <2>6, <2>7, <2>9, <2>10, ReadsMove DEF Keeping
<1>. QED
  BY <1>1, <1>2

-----------------------------------------------------------------------------
(* init after reconcile.                                                   *)
LEMMA ReconciledKeeps ==
  ASSUME DeployInv, run["init"].pc \in Reconciled, NEW o, NEW r, Typed(r),
         r.pc \in Reconciled, r.models = run["init"].models, r.settings = run["init"].settings,
         r.edited \cup {"tasks"} = run["init"].edited \cup {"tasks"},
         o.saved = owui.saved, o.conns = owui.conns, o.defaults = owui.defaults,
         r.pc \notin {"taskRead", "taskPost"} /\ r.edited \subseteq ToSet(Filters) =>
           o.tasks.internal = r.settings.task /\ o.tasks.external = r.settings.task
  PROVE  Keeping("init", o, r)
<1>1. Planned("init", run["init"]) /\ Settles(owui, run["init"])
  BY Now DEF Programs
<1>2. Planned("init", r)
  BY <1>1 DEF Planned, Unloaded, Ended, Reconciled
<1>3. Toggling(o, r) /\ Agrees(o, r)
  BY DEF Toggling, Agrees, Reconciled
<1>4. ASSUME r.edited \subseteq ToSet(Filters) \cup {"tasks"}
      PROVE  Verified(o, r)
  <2>1. run["init"].edited \subseteq ToSet(Filters) \cup {"tasks"}
    BY <1>4
  <2>2. Verified(owui, run["init"])
    BY <1>1, <2>1 DEF Settles
  <2>. QED
    BY <2>2 DEF Verified, Ships
<1>5. Settles(o, r)
  BY <1>4 DEF Settles
<1>. QED
  BY <1>2, <1>3, <1>5 DEF Keeping

(* It goes to its next step with the record it has.                        *)
LEMMA OnwardIs ==
  ASSUME DeployInv, run["init"].pc \in Reconciled, NEW pc \in Reconciled \ {"taskRead"}
  PROVE  LET r == At("init", pc)
         IN  /\ r = [run["init"] EXCEPT !.pc = pc] /\ r.pc = pc /\ r.models = run["init"].models
             /\ r.settings = run["init"].settings /\ r.edited = run["init"].edited
             /\ Typed(r) /\ DOMAIN r = Fields
<1>1. DOMAIN run["init"] = Fields /\ Typed(run["init"])
  BY Now DEF Programs
<1>2. At("init", pc) = [run["init"] EXCEPT !.pc = pc]
  BY AtIs DEF Reconciled, Ended
<1>. QED
  BY <1>1, <1>2 DEF Fields, Typed

LEMMA ReadTaskMoves ==
  ASSUME DeployInv, ReadTaskConfig
  PROVE  Moves("init")
<1>. DEFINE pc == IF InitTasks(owui.tasks) = owui.tasks THEN "search" ELSE "taskPost"
            a == At("init", pc)
            r == [a EXCEPT !.tasks = owui.tasks, !.edited = @ \ {"tasks"}]
<1>0. run["init"].pc = "taskRead" /\ Reads("init", r) /\ OwuiTyped(owui)
  BY Now DEF ReadTaskConfig, Programs
<1>1. /\ a.pc = pc /\ a.models = run["init"].models /\ a.settings = run["init"].settings
      /\ a.edited = run["init"].edited /\ Typed(a) /\ DOMAIN a = Fields
  BY <1>0, OnwardIs DEF Reconciled
<1>. HIDE DEF a
<1>2. /\ r.pc = pc /\ r.models = run["init"].models /\ r.settings = run["init"].settings
      /\ r.edited = run["init"].edited \ {"tasks"} /\ Typed(r)
  BY <1>0, <1>1 DEF Fields, Typed, OwuiTyped
<1>3. InitTasks(owui.tasks) = owui.tasks =>
        owui.tasks.internal = run["init"].settings.task
          /\ owui.tasks.external = run["init"].settings.task
  BY <1>0 DEF InitTasks, TaskConfig, OwuiTyped, TaskFields
<1>. HIDE DEF r
<1>4. Keeping("init", owui, r)
  BY <1>0, <1>2, <1>3, ReconciledKeeps DEF Reconciled
<1>. QED
  BY <1>0, <1>2, <1>4, ReadsMove

LEMMA PostTaskMoves ==
  ASSUME DeployInv, PostTaskConfig
  PROVE  Moves("init")
<1>. DEFINE t == InitTasks(run["init"].tasks)
            o == [owui EXCEPT !.tasks = t]
            r == At("init", "search")
<1>0. run["init"].pc = "taskPost" /\ Writes("init", o, r) /\ OwuiTyped(owui) /\ Typed(run["init"])
  BY Now DEF PostTaskConfig, Programs
<1>1. /\ r.pc = "search" /\ r.models = run["init"].models /\ r.settings = run["init"].settings
      /\ r.edited = run["init"].edited /\ Typed(r)
  BY <1>0, OnwardIs DEF Reconciled
<1>2. /\ t.internal = run["init"].settings.task /\ t.external = run["init"].settings.task
      /\ DOMAIN t = TaskFields
  BY <1>0 DEF InitTasks, TaskConfig, Typed, TaskFields
<1>. HIDE DEF t, r
<1>3. /\ OwuiTyped(o) /\ o.saved = owui.saved /\ o.functions = owui.functions
      /\ o.conns = owui.conns /\ o.tasks = t /\ o.defaults = owui.defaults
  BY <1>0, <1>2 DEF OwuiTyped
<1>. HIDE DEF o
<1>4. Keeping("init", o, r)
  BY <1>0, <1>1, <1>2, <1>3, ReconciledKeeps DEF Reconciled
<1>. QED
  BY <1>0, <1>1, <1>3, <1>4, HarmlessSame, WritesMove

LEMMA PushMoves ==
  ASSUME DeployInv, PushSearch \/ PushOllama \/ PushEmbedding
  PROVE  Moves("init")
<1>1. CASE Reads("init", At("init", "off"))
  BY <1>1, EndsMove
<1>2. CASE ~Reads("init", At("init", "off"))
  <2>1. PICK pc \in {"ollama", "embedding", "routing"} :
          /\ run["init"].pc \in {"search", "ollama", "embedding"}
          /\ \/ Reads("init", At("init", pc))
             \/ \E setting : Writes("init", Pushed(setting), At("init", pc))
    BY <1>2 DEF PushSearch, PushOllama, PushEmbedding
  <2>. DEFINE r == At("init", pc)
  <2>2. /\ r.pc = pc /\ r.models = run["init"].models /\ r.settings = run["init"].settings
        /\ r.edited = run["init"].edited /\ Typed(r)
    BY <2>1, OnwardIs DEF Reconciled
  <2>3. OwuiTyped(owui) /\ Settles(owui, run["init"])
    BY Now DEF Programs
  <2>4. r.edited \subseteq ToSet(Filters) =>
          owui.tasks.internal = r.settings.task /\ owui.tasks.external = r.settings.task
    BY <2>1, <2>2, <2>3 DEF Settles, Reconciled
  <2>. HIDE DEF r
  <2>5. ASSUME NEW o, o.saved = owui.saved, o.conns = owui.conns, o.defaults = owui.defaults,
               o.tasks = owui.tasks
        PROVE  Keeping("init", o, r)
    BY <2>1, <2>2, <2>4, <2>5, ReconciledKeeps DEF Reconciled
  <2>6. CASE Reads("init", r)
    BY <2>2, <2>5, <2>6, ReadsMove
  <2>7. CASE \E setting : Writes("init", Pushed(setting), r)
    <3>1. PICK setting : Writes("init", Pushed(setting), r)
      BY <2>7
    <3>. DEFINE o == Pushed(setting)
    <3>2. o = [owui EXCEPT !.pushed = @ \cup {setting}]
      BY DEF Pushed
    <3>. HIDE DEF o
    <3>3. /\ OwuiTyped(o) /\ o.saved = owui.saved /\ o.functions = owui.functions
          /\ o.conns = owui.conns /\ o.tasks = owui.tasks /\ o.defaults = owui.defaults
      BY <2>3, <3>2 DEF OwuiTyped
    <3>4. Keeping("init", o, r)
      BY <2>5, <3>3
    <3>5. Harmless("init", o, r)
      BY <2>1, <2>2, <3>3, HarmlessSame
    <3>6. Writes("init", o, r)
      BY <3>1 DEF o
    <3>. QED
      BY <3>3, <3>4, <3>5, <3>6, WritesMove
  <2>. QED
    BY <2>1, <2>6, <2>7 DEF r
<1>. QED
  BY <1>1, <1>2

LEMMA RoutingMoves ==
  ASSUME DeployInv, AssertRouting
  PROVE  Moves("init")
<1>1. CASE Reads("init", At("init", "off"))
  BY <1>1, EndsMove
<1>2. CASE run["init"].pc = "routing" /\ Reads("init", At("init", "ready"))
  <2>1. At("init", "ready") = AtStart("ready")
    BY AtIs DEF Ended
  <2>2. Keeping("init", owui, AtStart("ready"))
    BY StartTyped, UnloadedKeeps DEF Unloaded, Ended
  <2>. QED
    BY <1>2, <2>1, <2>2, ReadsMove
<1>. QED
  BY <1>1, <1>2 DEF AssertRouting, Checks

-----------------------------------------------------------------------------
(* Every step.                                                             *)
LEMMA ProgramMoves ==
  ASSUME DeployInv,
         InitStep \/ PublishStep \/ \E p \in Programs : ReconcileStep(p)
  PROVE  \E p \in Programs : Moves(p)
<1>1. CASE InitStep
  <2>1. CASE StartInit
    BY <2>1, StartMoves DEF Programs
  <2>2. CASE RemoveFunction \/ SkipFunction \/ CreateFunction \/ ToggleFunction
    BY <2>2, FunctionMoves DEF Programs
  <2>3. CASE \/ ReadTaskConfig \/ PostTaskConfig \/ PushSearch \/ PushOllama
             \/ PushEmbedding \/ AssertRouting
    BY <2>3, ReadTaskMoves, PostTaskMoves, PushMoves, RoutingMoves DEF Programs
  <2>. QED
    BY <1>1, <2>1, <2>2, <2>3 DEF InitStep
<1>2. CASE PublishStep
  BY <1>2, StartMoves DEF Programs
<1>3. CASE \E p \in Programs : ReconcileStep(p)
  <2>1. PICK p \in Programs : ReconcileStep(p)
    BY <1>3
  <2>2. PlanEnds(p) => Moves(p)
    BY EndsMove DEF PlanEnds
  <2>. QED
    BY <2>1, <2>2, LoadMoves, ReadModelsMoves, PlanMoves, SaveMoves, DeleteMoves, PostMoves,
       VerifyMoves DEF ReconcileStep
<1>. QED
  BY <1>1, <1>2, <1>3

Kinds ==
  \/ \E p \in Programs : Moves(p)
  \/ UNCHANGED <<owui, run, faults>>
  \/ \E p \in Programs : Stops(p)
  \/ GeneratorStops
  \/ RemovalFails
  \/ Edits

LEMMA NextKinds ==
  ASSUME DeployInv, [OwuiNext]_owuiVars
  PROVE  Kinds
<1>1. CASE InitStep \/ PublishStep \/ \E p \in Programs : ReconcileStep(p)
  BY <1>1, ProgramMoves DEF Kinds
<1>2. CASE \/ \E m \in AdminIds : AdminEditsModel(m)
           \/ AdminEditsConnections \/ AdminEditsTasks \/ AdminTogglesFunction
  BY <1>2, AdminEdits DEF Kinds
<1>3. CASE GenerateStep \/ UNCHANGED owuiVars \/ (EditRegistry /\ UNCHANGED <<owui, run, faults>>)
  BY <1>3 DEF Kinds, GenerateStep
<1>4. CASE GeneratorStops \/ RemovalFails \/ \E p \in Programs : Stops(p)
  BY <1>4 DEF Kinds
<1>. QED
  BY <1>1, <1>2, <1>3, <1>4 DEF OwuiNext

LEMMA NextDeploy ==
  ASSUME DeployInv, [OwuiNext]_owuiVars
  PROVE  DeployInv'
<1>0. PairInv' /\ Kinds
  BY NextPair, NextKinds DEF DeployInv
<1>. SUFFICES faults' \in Nat /\ OwuiTyped(owui') /\ \A q \in Programs : Keeping(q, owui', run'[q])
  BY <1>0 DEF DeployInv, Keeping, OwuiTyped, Typed, Planned, Toggling, Agrees, Settles, Verified
<1>1. CASE \E p \in Programs : Moves(p)
  BY <1>1, MovesKeep
<1>2. CASE UNCHANGED <<owui, run, faults>>
  BY <1>2 DEF DeployInv
<1>3. CASE \E p \in Programs : Stops(p)
  <2>1. PICK p \in Programs : Stops(p)
    BY <1>3
  <2>2. At(p, "off") = AtStart("off")
    BY AtIs DEF Ended
  <2>3. Keeping(p, owui, AtStart("off"))
    BY StartTyped, UnloadedKeeps DEF Unloaded, Ended
  <2>4. DOMAIN run = Programs
    BY DEF DeployInv, PairInv, RunsInv
  <2>5. owui' = owui /\ run' = [run EXCEPT ![p] = AtStart("off")] /\ faults' = faults + 1
    BY <2>1, <2>2 DEF Stops
  <2>. QED
    BY <2>3, <2>4, <2>5 DEF DeployInv
<1>4. CASE GeneratorStops
  BY <1>4 DEF DeployInv, GeneratorStops
<1>6. CASE RemovalFails
  <2>1. /\ run["init"].pc = "retire" /\ owui' = owui /\ faults' = faults + 1
        /\ run' = [run EXCEPT !["init"] = At("init", "filters")] /\ DOMAIN run = Programs
    BY <1>6 DEF RemovalFails, DeployInv, PairInv, RunsInv
  <2>2. Keeping("init", owui, At("init", "filters"))
    BY <2>1, RetiredKeeps
  <2>. QED
    BY <2>1, <2>2 DEF DeployInv
<1>5. CASE Edits
  <2>1. PICK item, state : EditOf(item, state) /\ OwuiTyped(state) /\ ByAdmin(item, state)
    BY <1>5 DEF Edits
  <2>2. owui' = state /\ run' = [p \in Programs |-> Noted(p, item)] /\ faults' = faults + 1
    BY <2>1 DEF ByAdmin
  <2>. QED
    BY <2>1, <2>2, EditKeeps DEF DeployInv
<1>. QED
  BY <1>0, <1>1, <1>2, <1>3, <1>4, <1>5, <1>6 DEF Kinds

(* What a step of a program is to the other one and to the administrator.  *)
LEMMA MoveEffect ==
  ASSUME DeployInv, NEW p \in Programs, Moves(p)
  PROVE  /\ Harmless(p, owui', run'[p])
         /\ \A q \in Programs \ {p} : run'[q].todo = run[q].todo /\ run'[q].pc = run[q].pc
<1>1. PICK r, o : /\ Harmless(p, o, r)
                  /\ (Reads(p, r) /\ o = owui) \/ Writes(p, o, r)
  BY DEF Moves
<1>2. DOMAIN run = Programs
  BY DEF DeployInv, PairInv, RunsInv
<1>3. CASE Reads(p, r) /\ o = owui
  BY <1>1, <1>2, <1>3 DEF Reads
<1>4. CASE Writes(p, o, r)
  <2>1. owui' = o /\ run' = [q \in Programs |-> IF q = p THEN r ELSE Noted(q, "program")]
    BY <1>4 DEF Writes
  <2>2. \A q \in Programs : NotedAs(q, "program", Noted(q, "program"))
    BY NotedIs
  <2>. QED
    BY <1>1, <2>1, <2>2 DEF NotedAs
<1>. QED
  BY <1>1, <1>3, <1>4

(* A registration that one of the programs deletes is no shipped one and is
   in the backup of the publish that prunes it: init never deletes, whatever
   was saved, edited or deleted between its plan and its calls.            *)
THEOREM DeletedWasBackedUpHolds == OwuiSpec => DeletedWasBackedUp
<1>1. DeployInv /\ [OwuiNext]_owuiVars =>
        [\A m \in Ids : owui.saved[m] # NoModel /\ owui'.saved[m] = NoModel =>
           \/ faults' # faults
           \/ /\ ByProgram("publish")
              /\ m \in run["publish"].backup
              /\ m \notin Shipped("publish")]_owuiVars
  <2>. SUFFICES ASSUME DeployInv, [OwuiNext]_owuiVars,
                       NEW m \in Ids, owui.saved[m] # NoModel, owui'.saved[m] = NoModel,
                       faults' = faults
                PROVE  /\ ByProgram("publish") /\ m \in run["publish"].backup
                       /\ m \notin Shipped("publish")
    OBVIOUS
  <2>1. faults' # faults + 1
    BY DEF DeployInv
  <2>2. PICK p \in Programs : Moves(p)
    BY <2>1, NextKinds DEF Kinds, Stops, GeneratorStops, RemovalFails, Edits, ByAdmin
  <2>3. Harmless(p, owui', run'[p])
    BY <2>2, MoveEffect
  <2>. QED
    BY <2>3 DEF Harmless, ByProgram, Shipped, Ships
<1>. QED
  BY <1>1, InitDeploy, NextDeploy, PTL DEF OwuiSpec, DeletedWasBackedUp

(* No call of a program takes the grants of a registration, changes another
   provider's connection or switches a filter off, unless somebody edited
   that item, or the other program wrote, after the program had looked.    *)
THEOREM ForeignKeptHolds == OwuiSpec => ForeignKept
<1>. DEFINE Kept(p) ==
       /\ \A m \in Ids :
            owui.saved[m] # NoModel /\ owui'.saved[m] # NoModel /\ ByProgram(p)
              /\ run[p].edited \cap {m, "program"} = {}
              => owui'.saved[m].grants = owui.saved[m].grants
       /\ ByProgram(p) /\ run[p].edited \cap {"conns", "program"} = {}
            => owui'.conns.personal = owui.conns.personal
       /\ \A f \in ToSet(Filters) :
            p = "init" /\ f \notin run[p].edited
              /\ "active" \in owui.functions[f] => "active" \in owui'.functions[f]
<1>1. DeployInv /\ [OwuiNext]_owuiVars =>
        [faults' = faults => \A p \in Programs : run'[p] # run[p] => Kept(p)]_owuiVars
  <2>. SUFFICES ASSUME DeployInv, [OwuiNext]_owuiVars, faults' = faults,
                       NEW p \in Programs, run'[p] # run[p]
                PROVE  Kept(p)
    OBVIOUS
  <2>1. faults' # faults + 1
    BY DEF DeployInv
  <2>2. PICK q \in Programs : Moves(q)
    BY <2>1, NextKinds DEF Kinds, Stops, GeneratorStops, RemovalFails, Edits, ByAdmin
  <2>3. Harmless(q, owui', run'[q])
    BY <2>2, MoveEffect
  <2>4. CASE p = q
    BY <2>3, <2>4 DEF Harmless
  <2>5. CASE p # q
    <3>1. ~ByProgram(p)
      BY <2>2, <2>5, MoveEffect DEF ByProgram
    <3>2. p = "init" => owui'.functions = owui.functions
      BY <2>3, <2>5 DEF Harmless, Programs
    <3>. QED
      BY <3>1, <3>2
  <2>. QED
    BY <2>4, <2>5
<1>. QED
  BY <1>1, InitDeploy, NextDeploy, PTL DEF OwuiSpec, ForeignKept

(* When init reports that it is complete, Open WebUI is in the policy that
   init loaded: what the verification found, and the task configuration
   posted after it, have not been touched if nobody edited in between.     *)
THEOREM ReadyIsInPolicyHolds == OwuiSpec => ReadyIsInPolicy
<1>1. DeployInv /\ [OwuiNext]_owuiVars =>
        [run["init"].pc # "ready" /\ run'["init"].pc = "ready"
           /\ run["init"].edited \subseteq ToSet(Filters)
           => InPolicy(run["init"].models, run["init"].settings)]_owuiVars
  <2>. SUFFICES ASSUME DeployInv, [OwuiNext]_owuiVars,
                       run["init"].pc # "ready", run'["init"].pc = "ready",
                       run["init"].edited \subseteq ToSet(Filters)
                PROVE  InPolicy(run["init"].models, run["init"].settings)
    OBVIOUS
  <2>. DEFINE r == run["init"]
  <2>1. r.pc = "routing"
    <3>1. CASE \E p \in Programs : Moves(p)
      BY <3>1, MoveEffect DEF Harmless, Programs
    <3>2. CASE \E p \in Programs : Stops(p)
      <4>1. PICK p \in Programs : Stops(p)
        BY <3>2
      <4>2. run' = [run EXCEPT ![p] = AtStart("off")] /\ DOMAIN run = Programs
        BY <4>1, AtIs DEF Stops, Ended, DeployInv, PairInv, RunsInv
      <4>. QED
        BY <4>2, StartTyped DEF Programs
    <3>3. CASE Edits
      <4>1. PICK item : run' = [p \in Programs |-> Noted(p, item)]
        BY <3>3 DEF Edits, ByAdmin
      <4>2. NotedAs("init", item, Noted("init", item))
        BY NotedIs DEF Programs
      <4>. QED
        BY <4>1, <4>2 DEF NotedAs, Programs
    <3>4. CASE RemovalFails
      BY <3>4, RetiredKeeps DEF RemovalFails, DeployInv, PairInv, RunsInv
    <3>. QED
      BY <3>1, <3>2, <3>3, <3>4, NextKinds DEF Kinds, GeneratorStops
  <2>2. Settles(owui, r)
    BY Now DEF Programs
  <2>3. /\ Verified(owui, r)
        /\ owui.tasks.internal = r.settings.task /\ owui.tasks.external = r.settings.task
    BY <2>1, <2>2 DEF Settles, Reconciled
  <2>. QED
    BY <2>3 DEF InPolicy, Verified, Visible, IsLocal, Ships
<1>. QED
  BY <1>1, InitDeploy, NextDeploy, PTL DEF OwuiSpec, ReadyIsInPolicy
=============================================================================
