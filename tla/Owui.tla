-------------------------------- MODULE Owui --------------------------------
(***************************************************************************)
(* The deployment of Open WebUI (openwebui-init/init.py,                   *)
(* reconcile_models.py, publish_models.py).  Two programs bring its saved  *)
(* state in line with the files of configgen over its HTTP API: `init`, at *)
(* every start of the stack, and `publish`, by hand.  An administrator     *)
(* edits the same state through the UI, each call may fail and each        *)
(* program may be killed between two calls.                                *)
(***************************************************************************)
EXTENDS Configgen

CONSTANTS
  Filters,        \* the functions that init.py ensures, a sequence
  RetiredFilter,  \* the one it removes
  InitialSaved,   \* what Open WebUI may hold before the first start
  Embedding,      \* EMBEDDING_MODEL is set
  BackendIsValid, \* OWUI_DDGS_BACKEND passes, or is not used
  AdminIds,       \* bound: the registrations that the administrator edits
  MaxFaults       \* bound on faults

VARIABLES
  owui,           \* the state of Open WebUI
  run,            \* the two programs
  faults          \* edits by the administrator, failing calls, kills

owuiVars == <<registry, files, generator, owui, run, faults>>

Programs == {"init", "publish"}
Ids      == ToSet(Names)

(* A saved registration: whether meta.mlx_local_stack_managed, what the rest
   of its projection is (that of an entry that configgen emits, or 0:
   something of the administrator's), its grants.                           *)
Params == {0} \cup UNION {{e.params : e \in ToSet(EmitOwui(r))} : r \in ToSet(Registries)}
Registration == [managed : BOOLEAN, params : Params, grants : {"none", "team"}]
Saved(s) == {m \in Ids : s[m] # NoModel}

(* What is edited: a model, a function, or one of these.                    *)
Objects == {"conns", "tasks", "program"}

ASSUME OwuiAssumption ==
  /\ Filters \in Seq(ToSet(Filters)) /\ RetiredFilter \notin ToSet(Filters)
  /\ ToSet(Filters) \cap (Ids \cup Objects) = {} /\ Ids \cap Objects = {}
  /\ NoModel \notin Registration
  /\ InitialSaved \subseteq [Ids -> Registration \cup {NoModel}]
  /\ AdminIds \subseteq Ids

(* Of the connections: the allowlist of the main and of the task entry, if
   they are there and local, and the administrator's own entry.            *)
NoEntry == [ids |-> {}, local |-> FALSE]
NoSettings == [digest |-> <<>>, main |-> {}, task |-> NoModel, excluded |-> {}, default |-> NoModel]

AtStart(pc) ==
  [pc |-> pc, models |-> <<>>, settings |-> NoSettings,
   saved |-> [m \in Ids |-> NoModel],
   conns |-> [main |-> NoEntry, task |-> NoEntry, personal |-> 0],
   defaults |-> NoModel, tasks |-> [internal |-> NoModel, external |-> NoModel, auto |-> FALSE],
   filters |-> <<>>, todo |-> {}, backup |-> {}, edited |-> {}]

OwuiInit ==
  /\ ConfiggenInit
  /\ \E s \in InitialSaved :
       owui = [saved |-> s,
               conns |-> [main |-> NoEntry, task |-> NoEntry, personal |-> 0],
               defaults |-> NoModel,
               tasks |-> [internal |-> NoModel, external |-> NoModel, auto |-> FALSE],
               functions |-> [f \in ToSet(Filters) \cup {RetiredFilter} |->
                                IF f = RetiredFilter THEN {"exists"} ELSE {}],
               pushed |-> {}]
  /\ run = [p \in Programs |-> AtStart("off")]
  /\ faults = 0

-----------------------------------------------------------------------------
(* What was changed after a program had looked: an item of the
   administrator's, or anything by the other program.                      *)
Ended == {"off", "ready"}
Early == Ended \cup {"load", "settings", "retire", "filters", "toggle", "models"}

Noted(q, item) ==
  IF run[q].pc \in Early /\ ~(item \in ToSet(Filters) /\ run[q].pc \notin Ended)
    THEN run[q] ELSE [run[q] EXCEPT !.edited = @ \cup {item}]

(* Steps of a program: it reads, or it writes.                             *)
Reads(p, r) ==
  /\ run' = [run EXCEPT ![p] = r]
  /\ UNCHANGED <<registry, files, generator, owui, faults>>

Writes(p, state, r) ==
  /\ owui' = state
  /\ run' = [q \in Programs |-> IF q = p THEN r ELSE Noted(q, "program")]
  /\ UNCHANGED <<registry, files, generator, faults>>

(* The program at its next step.  When it has ended nothing of it is left;
   after reconcile only the policy is still in use.                        *)
At(p, pc) ==
  CASE pc \in Ended     -> AtStart(pc)
    [] pc = "taskRead" -> [AtStart(pc) EXCEPT !.models = run[p].models,
                             !.settings = run[p].settings, !.edited = run[p].edited]
    [] OTHER           -> [run[p] EXCEPT !.pc = pc]

(* runserver.sh or `docker compose up` starts init, which goes on to load;
   publish first runs `configgen check`.                                   *)
StartInit ==
  /\ run["init"].pc \in Ended
  /\ Reads("init", [AtStart("settings") EXCEPT !.models = files["models_config"]])

StartPublish ==
  /\ run["publish"].pc \in Ended
  /\ CheckPasses
  /\ Reads("publish", AtStart("load"))

(* load_desired reads models_config.json and then model_settings.json ...  *)
LoadModels ==
  /\ run["publish"].pc = "load"
  /\ Reads("publish", [At("publish", "settings") EXCEPT !.models = files["models_config"]])

(* ... and checks the digest and the policy; init starts with its filters. *)
PolicyIsValid(models, s) ==
  /\ s.main # {} /\ s.task # NoModel
  /\ {models[k].id : k \in DOMAIN models} = s.main \cup {s.task}
  /\ (s.main \cup {s.task}) \cap s.excluded = {}
  /\ s.default \in s.main

(* Mutant: the two files are not bound to each other.                      *)
LoadSettingsUnbound(p) ==
  /\ run[p].pc = "settings"
  /\ Reads(p, [At(p, IF p = "init" THEN "retire" ELSE "models")
                 EXCEPT !.settings = files["model_settings"],
                        !.filters = IF p = "init" THEN Filters ELSE <<>>])

LoadSettings(p) ==
  /\ run[p].pc = "settings"
  /\ IF /\ files["model_settings"].digest = run[p].models
        /\ PolicyIsValid(run[p].models, files["model_settings"])
       THEN Reads(p, [At(p, IF p = "init" THEN "retire" ELSE "models")
                        EXCEPT !.settings = files["model_settings"],
                               !.filters = IF p = "init" THEN Filters ELSE <<>>])
       ELSE Reads(p, At(p, "off"))

-----------------------------------------------------------------------------
(* init: the functions.                                                    *)

Function(f, flags) == [owui EXCEPT !.functions[f] = flags]

NextFilter ==
  [At("init", IF Len(run["init"].filters) = 1 THEN "models" ELSE "filters")
     EXCEPT !.filters = Tail(@)]

(* remove_function, before the others; one that is not there is no error  *)
RemoveFunction ==
  /\ run["init"].pc = "retire"
  /\ IF "exists" \in owui.functions[RetiredFilter]
       THEN Writes("init", Function(RetiredFilter, {}), At("init", "filters"))
       ELSE Reads("init", At("init", "filters"))

(* ... and a delete that fails is printed: init goes on, and it stays.     *)
RemovalFails ==
  /\ run["init"].pc = "retire"
  /\ faults < MaxFaults
  /\ faults' = faults + 1
  /\ run' = [run EXCEPT !["init"] = At("init", "filters")]
  /\ UNCHANGED <<registry, files, generator, owui>>

(* ensure_function: one that exists is left as it is ...                   *)
SkipFunction ==
  /\ run["init"].pc = "filters"
  /\ run["init"].filters # <<>>
  /\ "exists" \in owui.functions[Head(run["init"].filters)]
  /\ Reads("init", NextFilter)

(* ... one that does not is created, and then toggled: active and global,
   two calls, here in one step.                                            *)
CreateFunction ==
  /\ run["init"].pc = "filters"
  /\ run["init"].filters # <<>>
  /\ "exists" \notin owui.functions[Head(run["init"].filters)]
  /\ Writes("init", Function(Head(run["init"].filters), {"exists"}), At("init", "toggle"))

Flip(flags) == IF "active" \in flags THEN flags \ {"active"} ELSE flags \cup {"active"}

ToggleFunction ==
  LET f == Head(run["init"].filters)
  IN  /\ run["init"].pc = "toggle"
      /\ Writes("init", Function(f, Flip(owui.functions[f])), NextFilter)

-----------------------------------------------------------------------------
(* reconcile.                                                              *)

(* read_state: the saved models, the connections, the defaults, the tasks.  *)
ReadModels(p) ==
  /\ run[p].pc = "models"
  /\ Reads(p, [At(p, "plan") EXCEPT !.saved = owui.saved, !.edited = @ \ (Ids \cup {"program"})])

(* The connections, the defaults and the task configuration, in one step
   with the plan.                                                          *)
WithSettingsRead(p) ==
  [run[p] EXCEPT !.conns = owui.conns, !.defaults = owui.defaults, !.tasks = owui.tasks,
                 !.edited = @ \ {"conns", "tasks"}]

(* What is not to be registered: the policy's exclusions, and registrations
   that the stack once made and ships no longer.                           *)
Shipped(p) == {run[p].models[k].id : k \in DOMAIN run[p].models}

(* Mutant: only what the policy names.                                     *)
ExcludedByName(p) == run[p].settings.excluded

ExcludedOrRetired(p) ==
  run[p].settings.excluded
    \cup {m \in Saved(run[p].saved) : run[p].saved[m].managed /\ m \notin Shipped(p)}

Stale(p) == Saved(run[p].saved) \cap ExcludedOrRetired(p)

(* projection(m) = projection(remote).                                     *)
InLine(reg, entry) == reg # NoModel /\ reg.managed /\ reg.params = entry.params

(* Mutant: what is registered is not looked at again.                      *)
MissingOnly(p) ==
  {k \in DOMAIN run[p].models : run[p].saved[run[p].models[k].id] = NoModel}

Updates(p) ==
  {k \in DOMAIN run[p].models : ~InLine(run[p].saved[run[p].models[k].id], run[p].models[k])}

(* connection_config: the two allowlists; other entries are kept.          *)
ConnectionConfig(conns, s) ==
  [conns EXCEPT !.main = [ids |-> s.main, local |-> TRUE],
                !.task = [ids |-> {s.task}, local |-> TRUE]]

TaskConfig(tasks, s) == [tasks EXCEPT !.internal = s.task, !.external = s.task]

(* The calls that reconcile makes: the models to save and the registrations
   to delete, by their place, and the objects that are not as they should be. *)
Call(kind, at) == [kind |-> kind, at |-> at]
When(cond, call) == IF cond THEN {call} ELSE {}

Calls(p) ==
  LET r == WithSettingsRead(p)
  IN  {Call("save", k) : k \in Updates(p)}
      \cup {Call("delete", k) : k \in {j \in DOMAIN Names : Names[j] \in Stale(p)}}
      \cup When(ConnectionConfig(r.conns, r.settings) # r.conns, Call("conns", 0))
      \cup When(r.defaults # r.settings.default, Call("defaults", 0))
      \cup When(TaskConfig(r.tasks, r.settings) # r.tasks, Call("tasks", 0))

(* Their order.                                                            *)
Rank == [save |-> 1, delete |-> 2, conns |-> 3, defaults |-> 4, tasks |-> 5]
Earlier(c, d) == Rank[c.kind] < Rank[d.kind] \/ (c.kind = d.kind /\ c.at < d.at)

(* A dry run of publish ends here, and so does init, or a publish without
   --prune, when there are stale registrations ...                         *)
PlanEnds(p) ==
  /\ run[p].pc = "plan"
  /\ p = "publish" \/ Stale(p) # {}
  /\ Reads(p, At(p, "off"))

(* Mutant: init prunes as well.                                            *)
PlanPrunes(p) ==
  /\ run[p].pc = "plan"
  /\ Reads(p, [WithSettingsRead(p) EXCEPT
       !.pc = "write",
       !.todo = Calls(p),
       !.backup = IF p = "publish" THEN Saved(run[p].saved) ELSE {}])

(* ... else the calls are made, by a publish after its backup; a publish
   that applies with --prune has calls to delete among them.               *)
PlanGoesOn(p) ==
  /\ run[p].pc = "plan"
  /\ Stale(p) # {} => p = "publish"
  /\ Reads(p, [WithSettingsRead(p) EXCEPT
       !.pc = "write",
       !.todo = Calls(p),
       !.backup = IF p = "publish" THEN Saved(run[p].saved) ELSE {}])

Calling(p, call) ==
  /\ run[p].pc = "write"
  /\ call \in run[p].todo /\ \A c \in run[p].todo : ~Earlier(c, call)
Called(p, call) == [run[p] EXCEPT !.todo = @ \ {call}]

(* Mutant: those that are shipped.                                         *)
SavedAsShipped(p, entry) == [managed |-> TRUE, params |-> entry.params, grants |-> "none"]

(* access_grants: those it had when it was read, or else the shipped (none). *)
SavedAs(p, entry) ==
  [managed |-> TRUE, params |-> entry.params,
   grants |-> IF run[p].saved[entry.id] = NoModel THEN "none" ELSE run[p].saved[entry.id].grants]

(* A create of one that is there by now, an update or a delete of one that
   is gone, is an HTTP error.                                              *)
SaveModel(p) ==
  \E k \in DOMAIN run[p].models :
    LET e == run[p].models[k]
    IN  /\ Calling(p, Call("save", k))
        /\ IF (run[p].saved[e.id] = NoModel) = (owui.saved[e.id] = NoModel)
             THEN Writes(p, [owui EXCEPT !.saved[e.id] = SavedAs(p, e)], Called(p, Call("save", k)))
             ELSE Reads(p, At(p, "off"))

DeleteModel(p) ==
  \E k \in DOMAIN Names :
    /\ Calling(p, Call("delete", k))
    /\ IF owui.saved[Names[k]] # NoModel
         THEN Writes(p, [owui EXCEPT !.saved[Names[k]] = NoModel], Called(p, Call("delete", k)))
         ELSE Reads(p, At(p, "off"))

(* Whole objects are posted, made of what was read.                        *)
PostConnections(p) ==
  /\ Calling(p, Call("conns", 0))
  /\ Writes(p, [owui EXCEPT !.conns = ConnectionConfig(run[p].conns, run[p].settings)],
            Called(p, Call("conns", 0)))

PostDefaults(p) ==
  /\ Calling(p, Call("defaults", 0))
  /\ Writes(p, [owui EXCEPT !.defaults = run[p].settings.default],
            Called(p, Call("defaults", 0)))

PostTasks(p) ==
  /\ Calling(p, Call("tasks", 0))
  /\ Writes(p, [owui EXCEPT !.tasks = TaskConfig(run[p].tasks, run[p].settings)],
            Called(p, Call("tasks", 0)))

(* /api/models: what the allowlists let through, and its connection type.  *)
Visible == owui.conns.main.ids \cup owui.conns.task.ids
IsLocal(m) == \/ m \in owui.conns.main.ids /\ owui.conns.main.local
              \/ m \in owui.conns.task.ids /\ owui.conns.task.local

(* The verification reads it all again, here in one step; a difference ends
   the program.                                                            *)
Checks(p, pc, ok, next) ==
  /\ run[p].pc = pc
  /\ Reads(p, At(p, IF ok THEN next ELSE "off"))

Verify(p) ==
  /\ run[p].todo = {}
  /\ Checks(p, "write",
       /\ \A k \in DOMAIN run[p].models :
            InLine(owui.saved[run[p].models[k].id], run[p].models[k])
       /\ Saved(owui.saved) \cap ExcludedOrRetired(p) = {}
       /\ owui.conns = ConnectionConfig(run[p].conns, run[p].settings)
       /\ owui.defaults = run[p].settings.default
       /\ owui.tasks.internal = run[p].settings.task
       /\ owui.tasks.external = run[p].settings.task
       /\ Shipped(p) \subseteq Visible
       /\ Visible \cap ExcludedOrRetired(p) = {}
       /\ \A m \in Shipped(p) : IsLocal(m),
       IF p = "init" THEN "taskRead" ELSE "off")

-----------------------------------------------------------------------------
(* init: the task configuration, the other settings, the routing.          *)

InitTasks(tasks) == [TaskConfig(tasks, run["init"].settings) EXCEPT !.auto = TRUE]

ReadTaskConfig ==
  /\ run["init"].pc = "taskRead"
  /\ Reads("init", [At("init", IF InitTasks(owui.tasks) = owui.tasks THEN "search" ELSE "taskPost")
                      EXCEPT !.tasks = owui.tasks, !.edited = @ \ {"tasks"}])

PostTaskConfig ==
  /\ run["init"].pc = "taskPost"
  /\ Writes("init", [owui EXCEPT !.tasks = InitTasks(run["init"].tasks)],
            At("init", "search"))

(* Web search, Ollama and the embeddings: each is read, merged and posted,
   and what does not read back is a warning.  A search backend that is
   refused ends init; without an embedding model there is no third push.   *)
Pushed(setting) == [owui EXCEPT !.pushed = @ \cup {setting}]

PushSearch ==
  /\ run["init"].pc = "search"
  /\ IF BackendIsValid THEN Writes("init", Pushed("search"), At("init", "ollama"))
                       ELSE Reads("init", At("init", "off"))

PushOllama ==
  /\ run["init"].pc = "ollama"
  /\ Writes("init", Pushed("ollama"), At("init", "embedding"))

PushEmbedding ==
  /\ run["init"].pc = "embedding"
  /\ IF Embedding THEN Writes("init", Pushed("embedding"), At("init", "routing"))
                  ELSE Reads("init", At("init", "routing"))

(* assert_task_model_routing: the live task configuration and the models,
   here in one step.                                                       *)
TaskModelOf(m, tasks) ==
  LET wanted == IF IsLocal(m) THEN tasks.internal ELSE tasks.external
  IN  IF wanted \in Visible THEN wanted ELSE m

AssertRouting ==
  Checks("init", "routing",
         \A m \in Visible \ {run["init"].settings.task} :
           TaskModelOf(m, owui.tasks) = run["init"].settings.task,
         "ready")

-----------------------------------------------------------------------------
(* Failures, and the administrator.                                        *)

(* A call fails, or the program is killed.                                 *)
Stops(p) ==
  /\ run[p].pc \notin Ended
  /\ faults < MaxFaults
  /\ faults' = faults + 1
  /\ run' = [run EXCEPT ![p] = At(p, "off")]
  /\ UNCHANGED <<registry, files, generator, owui>>

GeneratorStops ==
  /\ faults < MaxFaults
  /\ faults' = faults + 1
  /\ StopGenerate
  /\ UNCHANGED <<owui, run>>

ByAdmin(item, state) ==
  /\ faults < MaxFaults
  /\ faults' = faults + 1
  /\ owui' = state
  /\ run' = [p \in Programs |-> Noted(p, item)]
  /\ UNCHANGED <<registry, files, generator>>

(* The administrator registers a model, edits one, shares it, or drops it. *)
AdminEditsModel(m) ==
  \E reg \in {[managed |-> FALSE, params |-> 0, grants |-> "none"]}
             \cup (IF owui.saved[m] = NoModel THEN {}
                   ELSE {NoModel, [owui.saved[m] EXCEPT !.params = 0],
                         [owui.saved[m] EXCEPT !.grants = "team"]}) :
    /\ reg # owui.saved[m]
    /\ reg # NoModel /\ ~reg.managed => owui.saved[m] = NoModel
    /\ ByAdmin(m, [owui EXCEPT !.saved[m] = reg])

AdminEditsConnections == ByAdmin("conns", [owui EXCEPT !.conns.personal = 1 - @])

AdminEditsTasks == ByAdmin("tasks", [owui EXCEPT !.tasks.external = NoModel])

AdminTogglesFunction ==
  \E f \in ToSet(Filters) :
    /\ "exists" \in owui.functions[f]
    /\ ByAdmin(f, Function(f, Flip(owui.functions[f])))

InitStep ==
  \/ StartInit \/ RemoveFunction \/ SkipFunction \/ CreateFunction \/ ToggleFunction
  \/ ReadTaskConfig \/ PostTaskConfig \/ PushSearch \/ PushOllama \/ PushEmbedding
  \/ AssertRouting

PublishStep == StartPublish \/ LoadModels

ReconcileStep(p) ==
  \/ LoadSettings(p) \/ ReadModels(p) \/ PlanEnds(p) \/ PlanGoesOn(p)
  \/ SaveModel(p) \/ DeleteModel(p) \/ PostConnections(p) \/ PostDefaults(p) \/ PostTasks(p)
  \/ Verify(p)

GenerateStep == (StartGenerate \/ WriteFiles) /\ UNCHANGED <<owui, run, faults>>

OwuiNext ==
  \/ InitStep \/ PublishStep
  \/ \E p \in Programs : ReconcileStep(p) \/ Stops(p)
  \/ GenerateStep \/ GeneratorStops \/ RemovalFails
  \/ EditRegistry /\ UNCHANGED <<owui, run, faults>>
  \/ \E m \in AdminIds : AdminEditsModel(m)
  \/ AdminEditsConnections \/ AdminEditsTasks \/ AdminTogglesFunction

(* A program that lives goes on.  The operator generates when the files are
   behind the registry, starts the stack again and again, and prunes.      *)
Prunes == PlanGoesOn("publish")

OwuiFairness ==
  /\ WF_owuiVars(GenerateStep)
  /\ WF_owuiVars(InitStep)
  /\ \A p \in Programs : WF_owuiVars(ReconcileStep(p))
  /\ WF_owuiVars(PublishStep)
  /\ SF_owuiVars(Prunes)

OwuiSpec == OwuiInit /\ [][OwuiNext]_owuiVars /\ OwuiFairness

-----------------------------------------------------------------------------
(* "Mismatched generated OpenWebUI files" (reconcile_models.py:55): whatever
   `configgen generate` did between the two reads, a program that goes on to
   write has models and settings of one registry.                          *)
Loaded(p) == run[p].settings # NoSettings

LoadedPairIsAPolicy ==
  \A p \in Programs : Loaded(p) =>
    \E k \in DOMAIN Registries : /\ run[p].models = EmitOwui(Registries[k])
                                 /\ run[p].settings = EmitOwuiSettings(Registries[k])

(* "review and use publish_models.py --prune with a backup"
   (reconcile_models.py:177): a registration that a program deletes was not
   shipped, and is in the backup of the publish that prunes it, whatever was
   saved or deleted in between.                                            *)
ByProgram(p) == run'[p].todo # run[p].todo

DeletedWasBackedUp ==
  [][\A m \in Ids : owui.saved[m] # NoModel /\ owui'.saved[m] = NoModel =>
       \/ faults' # faults
       \/ /\ ByProgram("publish")
          /\ m \in run["publish"].backup
          /\ m \notin Shipped("publish")]_owuiVars

(* What is the administrator's stays: no program takes the grants of a
   registration, changes a connection of another provider, or switches a
   filter off, but for an edit that came after the program had looked.     *)
ForeignKept ==
  [][faults' = faults => \A p \in Programs : run'[p] # run[p] =>
       /\ \A m \in Ids :
            owui.saved[m] # NoModel /\ owui'.saved[m] # NoModel /\ ByProgram(p)
              /\ run[p].edited \cap {m, "program"} = {}
              => owui'.saved[m].grants = owui.saved[m].grants
       /\ ByProgram(p) /\ run[p].edited \cap {"conns", "program"} = {}
            => owui'.conns.personal = owui.conns.personal
       /\ \A f \in ToSet(Filters) :
            p = "init" /\ f \notin run[p].edited
              /\ "active" \in owui.functions[f] => "active" \in owui'.functions[f]]_owuiVars

(* What a start is for: every shipped model registered as shipped, nothing
   excluded or once shipped, and every task call on the task model.        *)
InPolicy(models, s) ==
  LET ids == {models[k].id : k \in DOMAIN models}
  IN  /\ \A k \in DOMAIN models : InLine(owui.saved[models[k].id], models[k])
      /\ \A m \in Saved(owui.saved) \ ids : ~owui.saved[m].managed /\ m \notin s.excluded
      /\ Visible = ids
      /\ \A m \in ids : IsLocal(m)
      /\ owui.defaults = s.default
      /\ owui.tasks.internal = s.task /\ owui.tasks.external = s.task

(* "Init complete" (init.py:446) means that the policy init loaded is live,
   unless someone wrote after init had read.                               *)
ReadyIsInPolicy ==
  [][run["init"].pc # "ready" /\ run'["init"].pc = "ready"
       /\ run["init"].edited \subseteq ToSet(Filters)
       => InPolicy(run["init"].models, run["init"].settings)]_owuiVars

(* However the programs were killed and the administrator interfered, the
   starts and the prunes that follow bring the last registry into force.   *)
StackConverges ==
  <>[](LET r == Registries[Len(Registries)]
       IN  registry = Len(Registries) => InPolicy(EmitOwui(r), EmitOwuiSettings(r)))
=============================================================================
