------------------------------ MODULE Configgen ------------------------------
(***************************************************************************)
(* configgen: the model registry main_models.yaml and the files generated  *)
(* from it.  `generate` loads the registry once and then writes one file   *)
(* after the other, so a maintainer's edit, a second look by `check` or a  *)
(* reader of the files may come between any two writes, and the generator  *)
(* may be stopped there.                                                   *)
(***************************************************************************)
EXTENDS Naturals, Sequences, FiniteSets, SequencesExt

CONSTANTS
  Names,        \* model names, a sequence: the order of the registry
  Registries,   \* the registries the maintainer saves, one after the other
  NoModel       \* no model, no file

ASSUME ConfiggenAssumption ==
  Len(Registries) \in Nat \ {0} /\ DOMAIN Registries = 1 .. Len(Registries)

(* A registry gives each name a role: main, task, candidate, router (no
   presentation), none (not in it) or invalid (an entry that load_source
   refuses: a missing field, an unknown role or family); its sampling; and
   the openwebui block: menu (NoMenu: every main model), retired, default.  *)
NoMenu == <<"every main model">>

VARIABLES
  registry,     \* index in Registries: main_models.yaml
  files,        \* target -> what its file holds
  generator     \* the running `generate`: the files it has yet to write

configgenVars == <<registry, files, generator>>

WithRole(r, roles) == SelectSeq(Names, LAMBDA m : r.role[m] \in roles)
Live(r) == {m \in ToSet(Names) : r.role[m] # "none"}

(* load_source: an entry or a tombstone of a live model it refuses.        *)
Loads(r) ==
  /\ \A m \in ToSet(Names) : r.role[m] # "invalid"
  /\ r.default = NoModel \/ r.role[r.default] \in {"main", "task", "candidate"}
  /\ r.retired \cap Live(r) = {}

(* _main_models: the menu, which must be of distinct main models.          *)
MenuIsValid(r) ==
  r.menu # NoMenu => /\ r.menu # <<>> /\ IsInjective(r.menu)
                     /\ ToSet(r.menu) \subseteq ToSet(WithRole(r, {"main"}))

MainModels(r) == IF r.menu = NoMenu THEN WithRole(r, {"main"}) ELSE r.menu

(* emit_owui: the menu and the task model, each with its parameters.       *)
EmitOwui(r) ==
  [k \in DOMAIN (MainModels(r) \o WithRole(r, {"task"})) |->
     LET m == (MainModels(r) \o WithRole(r, {"task"}))[k]
     IN  [id |-> m, params |-> r.sampling[m]]]

(* emit_owui_settings.  A model digest is the content it is a digest of.   *)
DefaultModel(r) ==
  IF r.default # NoModel THEN r.default
  ELSE IF MainModels(r) = <<>> THEN NoModel ELSE Head(MainModels(r))

Excluded(r) ==
  {m \in ToSet(Names) : /\ r.role[m] \in {"main", "candidate", "router"}
                        /\ m \notin ToSet(MainModels(r))} \cup r.retired

TaskModel(r) ==
  LET tasks == WithRole(r, {"task"})
  IN  IF tasks = <<>> THEN NoModel ELSE Head(tasks)

EmitOwuiSettings(r) ==
  [digest   |-> EmitOwui(r),
   main     |-> ToSet(MainModels(r)),
   task     |-> TaskModel(r),
   excluded |-> Excluded(r),
   default  |-> DefaultModel(r)]

SettingsAreValid(r) ==
  /\ Len(WithRole(r, {"task"})) <= 1
  /\ DefaultModel(r) \in ToSet(MainModels(r)) \cup {NoModel}

(* The carriers: models with their sampling, and the task model apart.  The
   clients get the main models, the benchmark the candidates too.          *)
Advertised(r, roles) == {<<m, r.sampling[m]>> : m \in ToSet(WithRole(r, roles))}

Opencode(r) ==
  [models |-> Advertised(r, {"main"}), task |-> Advertised(r, {"task"})]

OpencodeBench(r) ==
  [models |-> Advertised(r, {"main", "candidate"}), task |-> TaskModel(r)]

OpencodeBenchV2(r) == Advertised(r, {"main", "candidate"})

Aider(r) == [models |-> Advertised(r, {"main"}), task |-> TaskModel(r)]

AiderBench(r) ==
  [models |-> Advertised(r, {"main", "candidate"}), task |-> TaskModel(r)]

Vscode(r) == ToSet(WithRole(r, {"main"}))

(* TARGETS, BENCH_TARGETS and DEPLOYMENT_TARGETS in the order of _render; a
   file is written in one step with the carriers that come before it.      *)
Targets == {"clients", "models_config", "bench", "model_settings"}
Batches == <<{"clients", "models_config"}, {"bench", "model_settings"}>>

Content(target, r) ==
  CASE target = "clients"        -> <<Opencode(r), Aider(r), Vscode(r)>>
    [] target = "models_config"  -> EmitOwui(r)
    [] target = "bench"          -> <<OpencodeBench(r), OpencodeBenchV2(r), AiderBench(r)>>
    [] target = "model_settings" -> EmitOwuiSettings(r)

(* _render: every content is computed before a file is touched.            *)
Renders(r) == Loads(r) /\ MenuIsValid(r) /\ SettingsAreValid(r)

CheckPasses == /\ Renders(Registries[registry])
               /\ \A t \in Targets : files[t] = Content(t, Registries[registry])

Idle == [todo |-> <<>>, of |-> 0]

ConfiggenInit ==
  /\ registry = 1
  /\ files = [t \in Targets |-> Content(t, Registries[1])]
  /\ generator = Idle

(* The maintainer saves the next registry.                                 *)
EditRegistry ==
  /\ registry < Len(Registries)
  /\ registry' = registry + 1
  /\ UNCHANGED <<files, generator>>

(* `configgen generate` loads the registry and renders; a registry that it
   refuses ends it before it writes.                                       *)
StartGenerate ==
  /\ generator = Idle
  /\ Renders(Registries[registry])
  /\ ~CheckPasses
  /\ generator' = [todo |-> Batches, of |-> registry]
  /\ UNCHANGED <<registry, files>>

(* _generate: the next files are replaced.                                 *)
WriteFiles ==
  /\ generator.todo # <<>>
  /\ files' = [t \in Targets |-> IF t \in Head(generator.todo)
                                   THEN Content(t, Registries[generator.of]) ELSE files[t]]
  /\ generator' = IF Len(generator.todo) = 1 THEN Idle
                  ELSE [generator EXCEPT !.todo = Tail(@)]
  /\ UNCHANGED registry

(* It is stopped between two files.                                        *)
StopGenerate ==
  /\ generator # Idle
  /\ generator' = Idle
  /\ UNCHANGED <<registry, files>>
=============================================================================
