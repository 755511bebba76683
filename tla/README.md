# Models and proofs of the local model stack

TLA+ models of the parts of this repository that run unattended or concurrently:
the chain that runs a benchmark campaign, item by item, through crashes, stops
and resumes; the locks that keep campaigns apart; the reviewer that watches a
campaign; the gates that qualify web search and session pinning; the generator of
every client's configuration, the programs that bring Open WebUI in line with it,
and the filters its requests go through. TLC checks the models on small
instances, TLAPS proves the theorems of the `*Proofs` modules for every value
of their constants.

`PROJECT.json` lists the runs, the mutants (for each property a plausible bug of
the code that breaks it), the source lines of every definition, the hazards and
the theorems.

## 1. The system

The repository is a local model-serving stack (router on :8000, model workers;
both are submodules that are not in the tree) with Open WebUI in front of it, an
evaluation harness, `src/benchmark/bench/`, whose core is the *chain*, and the
operator's tools.

### 1.1 The harness

| part | source (`src/benchmark/bench/`) | state | operations | talks to |
|---|---|---|---|---|
| chain process | `chain_core.py` | `chain.json` (progress: loads, invocations, slot attempts, pre-spawn records, transactions; incidents; DNF rows), memory of the current invocation | run a load, run a leg, launch an invocation, answer the item barrier, accept / record incident / restart / stop / resume | probe (barrier files, CANCEL, rows file, manifest), worker and router through `chain_ops.py`, operator (STOP file) |
| slot table | `chain_rows.py` | none: derived from `chain.json`, rows files and sidecars | `load_slots`, which fails closed | read by the chain at every launch and resume |
| incident rules | `chain_incident.py` | none | cause of a failed attempt, cleanup check, DNF row | chain |
| hooks | `chain_hooks.py` | none | `run_before`, `run_after` | called by the chain between two barrier files |
| item barrier | `item_barrier.py` | `.ready .go .done .continue .stop` files of an item | create, wait | probe on one side, chain on the other |
| probe | `arm_runner.py` (`tg1_runner.py` for tg1) | rows file, manifest, evidence | one item after the other, cooperative cancel, abort stamp | chain, worker |
| chain operations | `chain_ops.py` | router and worker processes, server log | start, load, unload, A4 gate, stop, idle predicate, `validate_leg` | chain |
| file-move transactions | `chain_core.py` 1728-1907 | `progress.txns`, directories | intent, moves, commit, replay | every path that takes files out of the inventory |
| receipts | `atomic_publish.py`, `chain_core.py` 1611-1657 | receipt files | publish exclusively, adopt, bind | load lifecycle |
| exclusion locks | `p426_locks.py` | five-odd lock files, flocks | acquire, release | `local_gate.py`, `p426_wave2.py`, chain entries, `p475_kv.py` |
| Wave-2 sequencer | `p426_wave2.py` | state file, receipts | runs chain processes leg by leg | locks, chain |
| p426 leg | `p426_leg.py`, `p426_hooks.py`, `p426_receipt.py`, `p426_reconcile.py` | ledger, tombstones, item DNF records | the `p426_continue` policy | chain, hooks |
| work queue | `workqueue.py` | plan file, state file, control files | run, skip, pause, stop, aggregate | operator, shell jobs |
| process guard, watchdog | `proc_guard.py`, `arm_watchdog.py` | process listings, termination receipts | fence an item's process tree | probe |
| token gate | `token_turn_gate.py`, `progress_gate.py` | budgets of an item's stream | accept, cut | probe |
| generation | `generate.py`, `agent_loop.py` | rows file | chunked generation with resume | worker |
| schedules | `schedules.py` | none | pure | chain |
| analysis and grading | `p426_harvest.py`, `p426_panel.py`, `grade.py`, `stats.py`, ... | none | pure functions of finished files | - |

What is hard here: two processes (chain and probe) that only share files, either
of which may die between any two steps; decisions that must be durable before
they are acted on; timeouts that race answers; retries that must not count
twice; operators who stop, restart and touch files; a reader of the inventory
that refuses anything it does not understand, so that one bad sequence of legal
steps ends a campaign. What makes each part correct:

* chain and probe: what is scored stays scored, from the same row; a rejected
  row is never scored; re-runs and DNF rows are exactly the earned ones; the
  inventory always loads; the leg ends.
* transactions: no file is lost or overwritten, no file moves without a durable
  intent, the inventory changes all at once, every intent is completed.
* locks: conflicting actors never run together, and nobody is refused by a mere
  probe.
* work queue: no job is run twice on its own, a STOP is heeded, and every entry
  comes to an outcome.

### 1.2 The stack and its tools

| part | source (`src/`) | state | operations | talks to |
|---|---|---|---|---|
| configuration generator | `configgen/` | `main_models.yaml`, one file per target | `generate`, `check` | maintainer; `init.py` and `publish_models.py` read two of its files |
| Open WebUI deployment | `openwebui-init/init.py`, `reconcile_models.py`, `publish_models.py` | Open WebUI's registrations, connections, defaults, task settings, functions | start-up, reconcile, publish with `--prune` | Open WebUI's HTTP API, administrator |
| request filters | `openwebui-init/profile_*.py`, `advanced.py`, `_family_defaults.py`, `_splicer.py` | the request body and the markers on it | inlet | the other filters, through the body only |
| campaign reviewer | `scripts/campaign_review.py` | `review.lock`, `state.json`, a run's `events.jsonl` | tick: wait for an orphan, review | launchd, operator, a Codex process |
| end-to-end gate | `scripts/websearch/owui_e2e_gate.py` | rows, router-log offset, `summary.json` | ask, poll, grade, export, clean up | Open WebUI, router log |
| DDGS qualification | `scripts/websearch/ddgs_qualify.py`, `ddgs_instrument.py` | request counter, trace, thread-local search id | sequential searches, burst | engines, from threads of the library |
| SearXNG qualification | `scripts/websearch/searxng_qualify.py` | rows of searches | arms, burst, control | a SearXNG instance |
| session gate | `scripts/session_pinning_gate.py` | worker-log offset, `a4_v2_latest.json` | two turns, bare requests, saved chat | worker log, later runs that take the receipt |

What is hard: programs that are killed between two calls that belong together;
files read while they are generated; an administrator who edits what a program has
read and will write back; logs whose lines land late or are somebody else's;
threads of a library that must be charged to the right search; a child process
in a session of its own that outlives its parent; filters that run in an order
they do not choose. What makes each part correct:

* deployment: what is applied is of one registry, a ready stack is in policy,
  what is deleted was exported, what is the administrator's stays, and the stack
  converges after any crash or edit.
* filters: at most one mode rewrites a request, and what it sends is within the
  vendor's bounds of the model's family.
* reviewer: one reviewer at a time, one thread for the campaign, every review is
  settled.
* gates: an exit status, a receipt or a summary says what happened: every item
  was judged with every line that belongs to it, a round had its control, a
  budget is held whichever thread asks.

## 2. Modules

| module | models | kind |
|---|---|---|
| `SlotChain` | one leg of the M64 chain (`incident_retry`, `new_segment`), its probe, the item barrier, the slot table, crash and resume | component, composition |
| `SlotLedger` | what the leg promises to whoever reads its slots: one outcome for each, that stays | abstract specification |
| `FileTxn` | the file-move transactions and the records they change | component |
| `Inventory` | what the transactions promise: an inventory that changes atomically | abstract specification |
| `ExclusionLocks` | `p426_locks.py` | component |
| `Exclusion` | mutual exclusion with justified refusals, no lock in sight | abstract specification |
| `WorkQueue` | `workqueue.py` with `--state`: one runner, the operator's edits and control files, reboots | component |
| `Configgen` | the registry, the targets' contents, `generate` and its interruptions | component |
| `Owui` | `init.py`, `reconcile_models.py`, `publish_models.py` and the administrator, on top of `Configgen` | component, composition |
| `Filters` | the inlets of the five profiles, Advanced Params and the retired Thinking filter | component |
| `CampaignReview` | `campaign_review.py`: schedulers, reviewer processes, pids | component |
| `E2EGate`, `DdgsQualify`, `SearxngQualify`, `SessionGate` | the four gates | components |
| `SlotChainProofs`, `FileTxnProofs`, `ExclusionLocksProofs`, `WorkQueueProofs`, `CampaignReviewProofs`, `GatesProofs`, `FiltersProofs`, `OwuiProofs` | theorems | proofs |
| `MC*` | instances for TLC; `MCExclusionLocks` puts the locks and the work queue side by side, `MCTools` the reviewer, the gates and the filters | |

### 2.1 SlotChain

`SlotChain` is chain_core's leg loop together with `arm_runner._main` and
`item_barrier`. State and code:

* `doc` is `chain.json` restricted to one leg: the load generation `gen`, the
  invocation records `invs` (status, re-run index, expected and accepted slots),
  the live slot attempts `att`, pre-spawn records `pre`, incidents `inc` and DNF
  rows `dnf`. The code changes its document in memory and writes it at once
  (`write_json`: temp file, fsync, rename); where it acts on another file in
  between, the model has two steps.
* `files` are the rows file and the barrier files of the last invocation: the
  slots that have a row, a `.ready`, a `.go`, a `.done`, a `.continue`, and the one
  stop. Items run in schedule order, so the list an invocation expects is the
  set of its slots, and the next one is the least that is left.
* `probe` is the probe process and its manifest; `cancel` the CANCEL file.
* `chain` is the chain's control point and what it only *remembers* (the hook
  stop it wrote, whether the load was restarted); a crash forgets it.
* `sidecar` is the leg's `.dnf.jsonl`. `stopFile` is the operator's STOP.
* `judged` is a history variable: every verdict `run_after` returned.

Control points: `leg` -> `settle` (-> `sidecar`) -> `launch` -> `spawn` ->
`watch` (-> `judge` -> `signal`) -> `accept` / `incomplete` / `archive_stopped`
-> `after` -> `recover` / `archive` -> `leg`; ends are `done`, `stopped`,
`aborted`; `down` is a dead chain, `resume` -> `sync` the way back.

Barrier order is the code's: the probe's wait looks at `.stop`, then at the ack,
then at the cancel, then at the deadline; the chain persists, then signals; the
pump is skipped once a cancel is pending.

Abstractions: a slot is its position in the leg; rows, tokens, evidence and hashes are
not in the model, their checks are (a row is in the file or not; the manifest
has an abort, a drift or an uncertain cleanup or not). A file-move transaction
is one step here; `FileTxn` shows that this is sound. The worker and the router
appear through their outcomes: a failed recovery aborts, a lost worker makes an
abort a transport incident. Escalation either ends the probe or refuses and
aborts. The probe of an aborted or dead chain is an orphan; the restart is
refused while it lives (`start_router` finds its processes), so `Restart` waits
for its exit.

Faults (`FaultKinds`): crash, crash at the sidecar, STOP, idle cancel, transport
failure of the item, any other failure of the probe, SIGKILL, uncertain cleanup,
drift of the served configuration, loss of the worker, failed recovery, refused
escalation, failing `before_attempt`, cheat, unclear. Bounds: `MaxFaults` in all,
`MaxResumes` restarts.

Properties: `InventoryLoads` (the chain never meets an inventory its own reader
refuses), `DispositionBeforeSignal`, `ProbeNeverPastStop`, `RejectedNeverScored`,
`RerunsEarned`, `DnfExact`, `ScoredIsStable` (action property: within a load
generation a scored slot stays scored from the same row), `ImplementsLedger`,
`LegSettles` (liveness).

`SlotLedger` is the leg as the readers of the slot table see it: `outcome[s]` is
open, the row of one invocation at one re-run index, or a dnf. A step settles
open slots, either with the rows of one invocation, later than every earlier
one, or one slot with a dnf; a restart of the load starts over; the leg is
complete when no slot is open. `Outcome` is the refinement mapping: what
`chain_rows` makes of `chain.json`, so accepting, quarantining, salvaging,
archiving and resuming are each one such step or none.

### 2.2 FileTxn and Inventory

`quarantine`, `archive_stopped` and `archive_load` move an invocation's files
with an intent in `chain.json`, idempotent moves and a commit. `disk[f][d]` is
the content of file `f` in directory `d` (0 is the session directory,
transaction `t` moves to directory `t`); a content stands for its own sha256.
The chain may die between any two steps; `Resume` replays the open transaction
from its start. `Tamper` is the operator who edits, deletes or copies any file
at any time, so that every refusal of `_move_one` is reachable. Under
`Inventory` an invocation leaves, or a whole load leaves and its generation
advances, in one step; the step is the write of the *intent*, since every later
resume rolls it forward.

MANIFEST.json of a quarantine, the record fields other than status and path, and
the post-move hash check (a rename within one file system) are abstracted.

### 2.3 ExclusionLocks and Exclusion

An actor takes the arbiter (bounded wait), probes each opposing lock by taking
it for an instant, takes its own, and releases the arbiter on every path.
flocks belong to an open file: death drops them. A `Hung` process may be
suspended for ever anywhere. `Exclusion` says what this is for: enter only when
nobody conflicting is inside, be turned away by a lock only when somebody
conflicting is inside.

### 2.4 Configgen and Owui

`Configgen`: a registry gives each model name a role, sampling and its place in
Open WebUI; `files` is what each target holds, `generator` the targets a running
`generate` has yet to write. It loads the registry once and writes the files one
by one, so the maintainer's next edit, a kill, or a reader comes between any two.
Contents are kept as far as a reader or a property tells them apart: which
models a client lists, which roles they fill, and for Open WebUI the policy with
the digest of the models file.

`Owui`: `owui` is Open WebUI's saved state (registrations with owner, parameters
and grants; the two managed connections and a personal one; defaults; task
models; functions). `run[p]` is what program `p` has read: its two files, the
registrations, connections, defaults and tasks, and the list of writes still
`todo`; each API call is a step. `edited` is a history: what somebody else
changed since `p` looked. A kill, a failing call (which ends the program, as
`sys.exit` and `raise` do) and an edit of the administrator are faults, at most
`MaxFaults`; so is a delete of the retired function that fails, which `init`
prints before it goes on with the function still there (`RemovalFails`). A start of `init` refuses while a registration that the policy
excludes is still saved; `publish --prune` removes it after exporting it.

What a program has planned to write is a set of calls, `Call(kind, at)`, carried out in
the order of the code (`Rank`: kind first, then the position in the list it came
from).

Properties: `LoadedPairIsAPolicy`, `ReadyIsInPolicy`, `DeletedWasBackedUp`,
`ForeignKept`, `StackConverges`. What a program overwrites because it had read
before somebody's edit is excepted in `ForeignKept` and `ReadyIsInPolicy`: the code
reads, merges and writes whole objects, and promises nothing else. None of the
properties is about the functions being on: a start that dies between creating a
function and toggling it (two steps here) leaves it off, and every later start
finds it and skips it (`init.py:29-33`).

### 2.5 Filters

A model's name is the set of substrings of the family table that it contains, in its last path
component and before it; the body is its sampling keys and its two markers. An
inlet passes, rewrites or raises; `inlets` is any order of the enabled filters.
`OneMode` is about the markers, `FootgunsHeld` about what the accepted body
holds, for names of one family, of none, and of two. A vendor's bounds are the set of
temperatures and the set of penalties it allows; the Qwen3 pin of the repetition
penalty is the set of 1.0 alone. No profile clears a penalty, so the client's own
may be outside of them: what the property asks is that a penalty in a rewritten
body is within the bounds or is exactly what the client sent.

### 2.6 CampaignReview

One step per effect of `run_once` that another scheduler, the reviewer or a death
can come between: tick and lock, the look for an orphan (whose pid may be a
stranger's by now), save the run, spawn, save pid and identity, write the
prompt, wait, finish. A prompt is written only after the reviewer is recorded, so a
scheduler that dies in between leaves a process that never works. Pids are
reused, `ps` may fail, a reviewer hangs or exits by itself.

### 2.7 The gates

`E2EGate`: the router writes lines at any time, late ones and those of other
clients included; the gate charges to an item what landed since its last read.
A row is written to `items.jsonl` (`exported`) one step before it is one of the
`rows` of the summary and the clean-up, and a ^C may come between the two.
`WriteSummary` and the clean-up are in the `finally`, so they run for the errors
main catches, for those it does not, and for ^C; the clean-up only when rc is
0, which is what `DeletedWasExported` says of every deletion. `DdgsQualify`: `Request`
(reserve under the lock, then send), `Recorded`, thread-local `sid`, one engine
instance per search. `SearxngQualify`: any result for each search; the control arm
may be one of the arms, added, or off. `SessionGate`: lines of each request land
at any time up to `MaxUnread`, and the receipt is invalidated first and written last.

### 2.8 WorkQueue

`runner` is the runner's place in its loop and what it read at the top of it: the
plan and the state file. `outcomes` is the state file by entry name, and a name
whose plan entry says it is done is migrated when it is read (`LoadState`).
`ReadQueue` -> the look at STOP, SKIP, PAUSE (`StopSeen`, `SkipSeen`,
`PauseSeen`, `NothingDropped`) -> `Drained`, `Refuse` or `StartJob` -> `JobEnds`,
which reads the state again before it writes. After `PauseLifted` the runner goes on
with what it had read and without another look. Each save writes the state the runner
has read, so what the operator cleared since is overwritten, and a clear made during a
PAUSE is lost. A reboot may come at any point; in a write, which is in place, it may
leave the file without its content. `over` and `sinceStop` are histories.

Properties: `NeverRetried`, `StopHeeded`, `EntrySettles`. The model keeps named
entries with state in a file; entries of one plan have different names. One runner
at a time is assumed, which nothing in the code enforces. A docstring
(`workqueue.py:311`) says that an operator who drops STOP need not first clear a
PAUSE; that is so between two jobs, but a runner that already waits in the PAUSE looks
at STOP only after the PAUSE is lifted and one more job is done. `StopHeeded` states
what holds in both cases.

## 3. Runs

| run | instance | shows |
|---|---|---|
| `exclusion_locks` | locks: 2 gate runs, sequencer, chain leg (may hang); queue: 4 entries, one refused and one migrated, 4 plans with two orders of two jobs, `--max-jobs` 2, 3 acts of operator or machine | the lock properties, refinement of `Exclusion`, bounded wait; the three properties of the queue |
| `slot_chain` | 2 items, 2 re-runs, 4 faults of every kind but STOP and drift, 1 resume | eight leg properties, with the refinement of `SlotLedger` |
| `slot_chain_stop` | 3 items, 1 re-run, 3 faults of every kind but cheat, 2 resumes | with STOP, drift and repeated resumes the inventory still loads, what is scored stays, the leg settles |
| `file_txn` | 2 invocations of one file, 2 transactions, 2 crashes, 2 changes by the operator | transaction properties, refinement of `Inventory`, completion |
| `owui` | 2 registries of 4 models, 1 filter, both programs, 1 fault | the five properties of the deployment |
| `operator_tools` | reviewer: 2 schedulers, 2 pids, 3 runs, 2 faults; E2E gate: 2 of 3 queries, 2 router lines, 1 error; DDGS: 2 searches, 2 workers, 2 engines, budget 3; SearXNG: 1 arm and the control, 2 queries, burst 1; session gate: 2 unread lines; filters: 6 names, 3 bodies, 2 sets of valves, every order | the eleven properties of the tools |
| `slot_chain_sidecar`, `_cheat`, `_judge`, `_dnf`, `e2e_summary`, `review_interrupt` | smallest instance of each | the six findings below |

Why the bounds are enough. Locks: the protocol distinguishes roles only, and
every pair of roles, a pair of one role, and a third party that probes meanwhile
are present. Leg: two items have a first and a last one, an accepted prefix
before a failing slot and a slot after it; three give a prefix, a failing slot and
a rest at once. Two re-runs are the code's `MAX_RERUNS`, two incidents its
`MAX_INCIDENTS`; four faults allow a DNF (two incidents), a strict fail (three
cheats) and a crash in the middle of either. Transactions: the second one starts from
directories the first one left; two changes by the operator put a file at both
ends or at neither.

Deployment: the second registry drops a model that the first had registered,
retires another and keeps a third, and the administrator's edit, a failing call
or a kill falls anywhere in the two programs; a second fault adds only a second
restart. Tools: a third run lets a thread be lost and found again; the budget of 3 is
below the requests of two searches with two engines; two router lines make one late
or foreign; with two queries the control's floor is one answer of two.

Queue: a STOP that meets two PAUSEs, an edit that reorders the plan while a job runs, and a
reboot followed by a relaunch each take at most three acts; two jobs and a second
launch are what a second start of one entry needs. Lifting a PAUSE is not counted.

`exclusion_locks` has the variable `part` for the same purpose as `tool` below.
`operator_tools` checks parts that share no state: the variable `tool` says which
of them a behaviour is about, the others rest. `owui` composes parts that do
interact (generator, two programs, administrator).

The two passing leg runs split the faults. A cheat together with a STOP (or with
a configuration switch during a crash) reaches the second finding, after which
the inventory does not load; each run has one of the two. `sidecar_crash`, the first
finding, is in neither. The other two findings do not disturb the properties
the passing runs check.

`CHECK_DEADLOCK FALSE` is set where the system really stops: a leg that is
`done` or aborted beyond the bounds, a load without further transactions, a tool
that exited, a deployment at rest in its last registry. The
lock protocol never stops and is checked for deadlock, with the queue beside it,
which may rest when no runner lives.

Fairness. `SlotChain`: weak fairness of the chain's own steps and of the probe's
own steps: both are loops that poll with a sleep and never wait without a
timeout. None for faults, the operator or restarts; so `LegSettles` counts a dead
chain nobody restarts as settled. `FileTxn`: weak fairness of moves, commit and
resume; no fairness for crashes, which are bounded. `ExclusionLocks`: weak
fairness of `acquire` and of the clock for processes that are not `Hung`; none
for release, since a run may take as long as it likes. `WorkQueue`: weak fairness of
the living runner's own steps; none for the end of a job, the operator or the
machine, so `EntrySettles` supposes that no job runs for ever and excepts a runner
that ended or is paused. `CampaignReview`: launchd
starts a scheduler every interval and a scheduler's waits have time-outs (weak
fairness of each scheduler's steps), and time passes; none for the reviewer,
which may hang for ever. `Owui`: a living program goes on; the operator starts the
stack again and again, generates when the files are behind the registry and publishes again
(weak fairness); of the prunes, strong fairness, since a publish
that finds the deployment stale is what `init`'s refusal asks the operator for, and
other programs may change the plan in between. None for faults or the administrator.

## 4. Theorems

The proofs are for arbitrary constants: any set of processes and roles, any number of
items and invocations, any registries, queries, logs, faults and bounds. Every
safety property that a passing run checks is stated by a theorem; one of them,
`InventoryAlwaysLoads`, has hypotheses. Assumptions are those of the modules on their own constants:
`BoundsAssumption` (of `SlotChain` and of `FileTxn`: bounds are naturals, there is
an item), `ProcsAssumption` (roles are roles, `NoProc` is no process, hung ones
are processes), `QueueAssumption`, `ReviewAssumption`, `QualifyAssumption`,
`SessionAssumption`, `GateAssumption`, `SearxngAssumption`, `FiltersAssumption`,
`ConfiggenAssumption` and `OwuiAssumption`. TLC evaluates each of them in a
passing run.

### 4.1 Locks, transactions, queue, reviewer

`ExclusionLocksProofs`. `MutualExclusion` is not inductive: that a starter may take
its own lock rests on what it saw of the opponents earlier. The invariant adds
that the arbiter's holder is exactly the one process inside `acquire`, that a
flock is held by whoever is past taking it or is probing it, and that while a
process probes lock `i`, the opposing locks before `i` are free and stay free,
since only the arbiter's holder could take them. `Exclusive`, `RefusalsJustified` and
`Implements` follow from it.

`FileTxnProofs`. The invariant has four parts: types; transactions (only the last may
be open, the chain's list of files to move is within it); records (a record's
directory is that of a committed transaction that moved its files, or home);
files (an untouched file is in one place, which the open transaction or the
record determines). `NeverLost`, `MovesFollowIntents`, `RecordsLeadToFiles` are
consequences; `ChainDestroysNothing` needs only the types, for it holds whatever
the operator did; `Implements` maps every step to a step of `Inventory` or a stutter.

`WorkQueueProofs`. `StopInv`: a job that started in spite of a STOP is the only
one, the STOP is still there and the runner has to look again before the next one.
`KnownInv` and `ReadInv`: an entry that is over has an outcome in the state file, or
is one that the plan says is done; and the runner's copy agrees with that until it
reads again, since only its own steps make an entry over. So what it takes up is
not over. `StopIsHeeded` and `NoRetry` follow.

`CampaignReviewProofs`. That no second reviewer works rests on who holds the lock
(`LockInv`: one scheduler between tick and leave), on pids (`PidInv`: while a
scheduler holds a run in memory, the pid it has is the only one of that run),
and on the record (`RecordInv`: a reviewer with a prompt is the one `state.json` names, since
the prompt is written after it; a scheduler that starts one found none). `ThreadInv`
adds that the thread of every run before the last is in `state.json`, and that of
the last is there or in its events, from where the next start recovers it.
`OneReviewer`, `SingleThread` and `ReviewTypes` follow.

### 4.2 The leg

`SlotChainProofs` has three layers.

*Barrier.* `DispositionBeforeSignal` and `ProbeNeverPastStop` speak of the
barrier files of the last invocation, so the invariant `IInv` says what these files can
be: `ChainInv`, where the chain is tells whether the invocation is running, and a
live probe belongs to a running one; `BarrierInv`, each kind of file follows the one
before it and an item is announced only when all before it have a `.continue`;
`StopInv`, a stop, and a decision that is recorded but not signalled, concern an
item that waits at the barrier; `ProbeInv`, the probe is in the first item without
a row. The order of the items is that of a set of naturals: `LeastIsLeast` and
`LargestIsLargest` are derived from the well-foundedness of inclusion on finite
sets.

*Records.* `Records` classifies every step by what it does to `chain.json`
(`RecordsStep`): the records are kept, a slot gets its dnf row, an invocation is
added, a verdict is added, an invocation counts, an invocation is removed,
attempts are filled in, or the load is restarted. The proofs above it go through these eight
cases, not through the actions.

* `DnfInv`, for `DnfExact`: a launch finds every due slot settled, and an
  invocation that may still get rows or attempts has no slot with a dnf row and
  only attempts of its own slots. So no later step touches what a dnf row's slot
  is scored from: `Latest` depends on the counted rows and decided attempts of
  the slot alone (`LatestSame`).
* `VerdictInv`, for `RerunsEarned` and `RejectedNeverScored`: a rejecting verdict
  never leaves `chain.json`, though the decisions of a removed invocation do; a cheat in
  it was a verdict; every index below that of a verdict, and of a
  running invocation, has a cheat of the same slot.
* `StableInv`, for `ScoredIsStable`: a running invocation has no slot that is
  scored, whichever of its latest records `Latest` chooses.

*Inventory.* `InventoryAlwaysLoads` needs that a slot's attempts and its rows have
different indices, all below that of a running invocation of the slot
(`UniqueInv`); that the verdicts of the running invocation are of different items
and only the last rejects (`OwnInv`); and that a slot that is to be re-run comes
before everything unscored (`FrontierInv`), without which a relaunch would be a
block that attempts it again at the same index. The last one fails when a
cheat's invocation is quarantined, so the theorem supposes what the passing runs
suppose: no crash between the two writes of a dnf row, and no cheat together with
a STOP or a drift. Neither can be dropped: they are the first and second
findings.

*Refinement.* `LegImplementsLedger` has no hypothesis: where the inventory no longer
loads, the leg stops with what it has, which is a stutter of the ledger. Its
invariant `OutcomeInv` cannot use `UniqueInv`, so `LedgerInv` says what remains
in that case too: what is decided as scored has a counted row; a running
invocation's index is above that of every counted row of its slots and not below
that of any attempt; and, *until two attempts share an index*, a row or a re-run is only
behind scored slots.

### 4.3 The gates and the filters

`GatesProofs` has an invariant for each gate.

* DDGS. Attribution: a search's tag is the thread-local of the thread that runs it
  from the call of `_get_engines` on, whatever other threads set. Budget: the
  requests that are out are finite in number and as many as the counter, which is
  raised under the lock only below `--max-requests`.
* Session gate, `SessionInv`: while A4 looks, a line that landed is in a window
  it has read or in the one it will read next (`WindowsHoldAll`); a receipt that
  waits to be published says PASS only of such windows (`ReceiptAside`). So
  `ReceiptIsEarned`.
* E2E gate, `GateInv`: the exported rows are of the items in their order, and the
  rows the gate has are a prefix of them, short of the one that is written and
  not yet appended (`RowsOfItems`); every line read since the first item is in the
  window of an exported row, which passes only if all its lines converged
  (`LinesJudged`); the end of the run without an exception is that of a loop that
  graded every item, and a clean-up is of a run whose rc is 0 (`EndOfRun`). `ExitZeroIsEveryItem` and `DeletedWasExported` follow. The
  summary has no such theorem: that is the fifth finding.
* SearXNG, `SearxngInv`: a failed search counts no result, and a verdict is of
  rows to which nothing is added any more. What is left is arithmetic: the code's
  rounded floor is at least one answer and within a rounding of 80 %.

`FiltersProofs`. `OneMode`: a mode that rewrote the body has left its marker, and each looks
for the markers before it writes; Thinking writes none and is no mode.
`FootgunsHeld` (`RoutedInv`): until a mode rewrites it the body is the client's,
and afterwards it is the client's with one row of one profile over it, for a
family that the model's name names; the rows are compared with the bounds of their
family once, as a lemma.

### 4.4 The deployment

`OwuiProofs`. Every file is of one saved registry at every instant; the digest in the
settings is of the models file of its own registry, and equal digests are equal
models; so a program that goes on has both of one registry (`PairInv`).
`DeployInv` adds, for each program (`Keeping`): what it has planned is of the files it
loaded and of what it has read, its deletes are of what it has backed up and the files do not
ship, and a field it has read and nobody edited since is still what Open WebUI
holds. Every step of a program is then shown to keep this *and* to be
`Harmless`, in one case per handler (`Moves`); `DeletedWasBackedUp`,
`ForeignKept` and `ReadyIsInPolicy` are consequences of `Harmless` and of what
`Keeping` says before the last step.

### 4.5 Only model-checked

The liveness properties `LegSettles`, `IntentsComplete`, `StarterSettles`,
`EntrySettles`, `ReviewSettles` and `StackConverges`: liveness under fairness, and
the enabledness it rests on, are out of this prover's reach. The type invariants of
`SlotChain`, `FileTxn`, `ExclusionLocks` and `CampaignReview` are proved and no longer part of a run.

## 5. Findings

1. `slot_chain_sidecar`: `prepare_resume` reads the slot table (`check_cursor`)
   before it rewrites a missing DNF sidecar, and the reader refuses a missing
   sidecar. A crash between the two writes of `settle_dnf` cannot be resumed,
   though its docstring says a resume re-creates the sidecar.
2. `slot_chain_cheat`: when an invocation with a recorded cheat is stopped or
   quarantined, the rows before the cheat are unscored again, so the relaunch is
   a block from index 0 that attempts the cheated slot a second time at the same
   re-run index; the inventory then has a duplicate attempt and never loads
   again.
3. `slot_chain_judge`: rows written by a probe that is cancelled or fails while
   waiting at `.done` are accepted although `after_attempt` never ran on them.
4. `slot_chain_dnf`: a pre-spawn incident followed by a failure of the same
   probe counts twice; the slot becomes a DNF row without a retry.
5. `e2e_summary`: an exception main does not catch, or ^C, in a later item runs
   the `finally` with rc 0: `summary.json` and the log say PASS of a partial run, and its
   chats are deleted. The exit status does not lie, the artefacts do.
6. `review_interrupt`: ^C of a scheduler that waits for its reviewer clears the
   recorded pid while the reviewer goes on in its own session; the next tick
   resumes the same thread beside it. With nobody interrupted, `SoleReviewer` holds.

## 6. Not modelled, and the plan

Next, in this order:

1. `Receipts`: `atomic_publish.publish_exclusive`, `adopt_receipts`,
   `bind_receipt`, with crashes between link and record.
2. `LoadLifecycle`: `run_load`, `prepare`, `load_worker`, `execute_load`, unload,
   restart, with `SlotLedger` in place of the leg.
3. `Escalation`: `supervise` / `_escalate` / idle predicate with activity.
4. `P426Leg`: the `p426_continue` policy, ledger and tombstones; `Wave2` composed
   with `ExclusionLocks`.
5. `ProcGuard`, `TokenGate`, `Watchdog`, `Generate`: the probe's inside.
6. Pure algorithms: `schedules.py` against a reference definition.

Every safety property that a run checks has its theorem. Theorems planned: what
the new modules need, first that `LoadLifecycle`, composed with `SlotLedger` in
place of the leg, never accepts a load with an open slot.

Of the work queue, not modelled: state kept inline in the plan (without
`--state`), entries without a name, the watcher of an item and the status table.

Of the stack's tools, not modelled: the text of prompts, reports and rows;
identity fingerprints and digests of builds; Zed's settings merge (text surgery on
JSON with comments); the assessor thread of the E2E gate, which only reports; the
temporary SearXNG settings. `eval_harness.py` is two sequential loops that append
a line per request; `hf_sync.py`, `do_backup.py`, `render_settings.py`, the weight
tools and `memtest.py` are one-shot scripts; nothing of theirs is read again.

Not planned: grading, statistics, panels and reports (pure numeric functions of
large files), provenance and identity hashing (the models take the comparison's
outcome), drivers of external tools, shell launchers, and everything outside the
repository (router, workers).
