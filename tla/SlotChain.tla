----------------------------- MODULE SlotChain -----------------------------
(***************************************************************************)
(* One leg of the incident-retry chain (bench/chain_core.py run_block_leg  *)
(* and all it calls) together with the probe it launches (bench/arm_runner *)
(* and bench/item_barrier) and the files they share.  The chain runs the   *)
(* leg's items in invocations of the probe; at every item the probe waits  *)
(* twice at the item barrier, once before the item for `.go` and once      *)
(* after its row for `.continue`, and the chain decides in between.  All   *)
(* decisions are in chain.json before a barrier file acts on them, so the  *)
(* chain may die between any two steps and resume from chain.json, the     *)
(* rows files and the barrier files alone.                                 *)
(*                                                                         *)
(* chain.json is `doc`: the code changes its document in memory and writes *)
(* it at once (write_json), so a change and its write are one step here    *)
(* unless the code acts on a file in between.  File-move transactions are  *)
(* atomic here; FileTxn shows that they are.                               *)
(*                                                                         *)
(* Items run in schedule order, so the list of an invocation, its rows and *)
(* its barrier files are sets of slots.                                    *)
(***************************************************************************)
EXTENDS Integers, Sequences, FiniteSets

CONSTANTS
  N,              \* items of the leg, in schedule order: 1..N
  MaxReruns,      \* chain_rows.MAX_RERUNS
  MaxIncidents,   \* chain_incident.MAX_INCIDENTS
  FaultKinds,     \* what may go wrong in a run
  MaxFaults,      \* how often in all (bound of the model)
  MaxResumes      \* how often the operator restarts the chain (bound of the model)

AllFaults == {"crash", "sidecar_crash", "stop", "idle", "transport", "harness", "kill", "unclean",
              "drift", "worker", "recover", "escalation", "pre_spawn", "cheat", "unclear"}

ASSUME BoundsAssumption ==
  /\ N \in Nat \ {0} /\ MaxReruns \in Nat /\ MaxIncidents \in Nat \ {0}
  /\ FaultKinds \subseteq AllFaults /\ MaxFaults \in Nat /\ MaxResumes \in Nat

Slots == 1..N

VARIABLES
  doc,        \* chain.json: load generation, invocations, slot attempts, pre-spawn records, incidents, dnf rows
  sidecar,    \* slots in the leg's `.dnf.jsonl` sidecar
  files,      \* the last invocation's rows file and barrier files: the slots that have one
  probe,      \* the last invocation's probe process and its manifest
  cancel,     \* the last invocation's CANCEL file: "none" or the reason in it
  chain,      \* the chain process: where it is and what it only remembers
  stopFile,   \* the operator's STOP file exists
  judged,     \* history: every verdict run_after returned in this load generation
  faults,     \* faults so far
  resumes     \* restarts of the chain so far

vars == <<doc, sidecar, files, probe, cancel, chain, stopFile, judged, faults, resumes>>

-----------------------------------------------------------------------------
(* Small helpers *)

Least(S) == CHOOSE x \in S : \A y \in S : x <= y
Largest(S) == CHOOSE x \in S : \A y \in S : y <= x

NoHook == [kind |-> "none", slot |-> 0, disp |-> "none"]
Before(s) == [kind |-> "before", slot |-> s, disp |-> "none"]
After(s, d) == [kind |-> "after", slot |-> s, disp |-> d]

Incident(i, s, early) == [inv |-> i, slot |-> s, pre_spawn |-> early]

NoFiles == [rows |-> {}, ready |-> {}, go |-> {}, done |-> {}, cont |-> {}, stop |-> NoHook]
NewManifest == [hook |-> NoHook, abort |-> "none", clean |-> TRUE, drift |-> FALSE]

May(kind) == kind \in FaultKinds /\ faults < MaxFaults

-----------------------------------------------------------------------------
(* The slot table (chain_rows.load_slots), the only reader of chain.json.  *)

Counted == {"validated", "partial_incident", "hook_stopped"}
Running(d) == Len(d.invs) > 0 /\ d.invs[Len(d.invs)].status = "running"

CountedRows(d) ==
  UNION {{[inv |-> i, slot |-> s, rindex |-> d.invs[i].rindex] : s \in d.invs[i].accepted} :
           i \in {j \in 1..Len(d.invs) : d.invs[j].status \in Counted}}

(* An accepting decision of a running invocation is provisional.           *)
Decided(d) ==
  {a \in d.att : ~(d.invs[a.inv].status = "running" /\ a.disp \in {"accepted", "exhausted"})}

RIndices(d, s) == {r.rindex : r \in {x \in CountedRows(d) \cup Decided(d) : x.slot = s}}

(* Mutant: a counted row wins over the recorded disposition.               *)
LatestRowWins(d, s) ==
  IF RIndices(d, s) = {} THEN "none"
  ELSE IF \E x \in CountedRows(d) : x.slot = s THEN "accepted"
  ELSE (CHOOSE a \in Decided(d) : a.slot = s).disp

(* The disposition of a slot's latest attempt; a counted row without a     *)
(* recorded attempt is an accepted one.                                    *)
Latest(d, s) ==
  IF RIndices(d, s) = {} THEN "none"
  ELSE LET r == Largest(RIndices(d, s))
           recorded == {a \in Decided(d) : a.slot = s /\ a.rindex = r}
       IN IF recorded = {} THEN "accepted" ELSE (CHOOSE a \in recorded : TRUE).disp

RowScored(d) == {s \in Slots : Latest(d, s) \in {"accepted", "exhausted"}}
Scored(d) == RowScored(d) \cup d.dnf
Pending(d) == {s \in Slots : Latest(d, s) = "cheat"}
Blocked(d) == {s \in Slots : Latest(d, s) = "unclear"}

SameKey(a, b) == a.slot = b.slot /\ a.rindex = b.rindex

(* Everything on which load_slots raises ChainRowsError.                   *)
DuplicateRow(d) == \E a, b \in CountedRows(d) : a # b /\ SameKey(a, b)
DuplicateAttempt(d) == \E a, b \in Decided(d) : a # b /\ SameKey(a, b)
MissingRow(d) ==
  \E s \in RowScored(d) :
    ~\E r \in CountedRows(d) : r.slot = s /\ r.rindex = Largest(RIndices(d, s))
RowAndDnf(d) == RowScored(d) \cap d.dnf # {}
CheatAtBound(d) == \E s \in Pending(d) : Largest(RIndices(d, s)) >= MaxReruns
SidecarDiffers(d) == sidecar # d.dnf

InventoryBroken(d) ==
  \/ DuplicateRow(d) \/ DuplicateAttempt(d) \/ MissingRow(d)
  \/ RowAndDnf(d) \/ CheatAtBound(d) \/ SidecarDiffers(d)

-----------------------------------------------------------------------------
Init ==
  /\ doc = [gen |-> 0, invs |-> <<>>, att |-> {}, pre |-> {}, inc |-> {}, dnf |-> {}]
  /\ sidecar = {}
  /\ files = NoFiles
  /\ probe = [state |-> "none", item |-> 0, man |-> NewManifest]
  /\ cancel = "none"
  /\ chain = [pc |-> "leg", hook |-> NoHook, restarted |-> FALSE, why |-> "none"]
  /\ stopFile = FALSE
  /\ judged = {}
  /\ faults = 0 /\ resumes = 0

At(pc) == chain.pc = pc
GoTo(pc) == chain' = [chain EXCEPT !.pc = pc]
Abort(why) == chain' = [chain EXCEPT !.pc = "aborted", !.why = why]

Cur == Len(doc.invs)
Inv == doc.invs[Cur]

-----------------------------------------------------------------------------
(* The chain: the leg loop of run_block_leg                                *)

(* check_stop before a launch.                                             *)
LegTop ==
  /\ At("leg")
  /\ GoTo(IF stopFile THEN "stopped" ELSE "settle")
  /\ UNCHANGED <<doc, sidecar, files, probe, cancel, stopFile, judged, faults, resumes>>

(* settle_dnf: the slots with their last incident recorded and no dnf row. *)
Incidents(d, s) == {i \in d.inc : i.slot = s}

(* Mutant: one incident too many before the dnf row.                       *)
DueLate == {s \in Slots : Cardinality(Incidents(doc, s)) > MaxIncidents /\ s \notin doc.dnf}

Due == {s \in Slots : Cardinality(Incidents(doc, s)) >= MaxIncidents /\ s \notin doc.dnf}
Unsettled == Due \ Scored(doc)

(* The next one becomes a dnf row: chain.json first ...                    *)
WriteDnf ==
  /\ At("settle") /\ Due # {}
  /\ IF InventoryBroken(doc) THEN Abort("inventory") /\ UNCHANGED doc
     ELSE IF Unsettled = {} THEN GoTo("launch") /\ UNCHANGED doc
     ELSE /\ doc' = [doc EXCEPT !.dnf = @ \cup {Least(Unsettled)}]
          /\ GoTo("sidecar")
  /\ UNCHANGED <<sidecar, files, probe, cancel, stopFile, judged, faults, resumes>>

(* ... then the sidecar (sync_dnf_sidecars).                               *)
WriteSidecar ==
  /\ At("sidecar")
  /\ sidecar' = doc.dnf
  /\ GoTo("settle")
  /\ UNCHANGED <<doc, files, probe, cancel, stopFile, judged, faults, resumes>>

NothingDue ==
  /\ At("settle") /\ Due = {}
  /\ GoTo("launch")
  /\ UNCHANGED <<doc, sidecar, files, probe, cancel, stopFile, judged, faults, resumes>>

(* Mutant: a slot whose attempt was rejected is not launched again.        *)
TodoButPending == Slots \ (Scored(doc) \cup Pending(doc))

Todo == Slots \ Scored(doc)

(* Mutant: the re-run index counts from the next one.                      *)
NextInvocationSkips ==
  IF Least(Todo) \in Pending(doc)
  THEN [status |-> "running", rindex |-> Largest(RIndices(doc, Least(Todo))) + 2,
        expect |-> {Least(Todo)}, accepted |-> {}]
  ELSE [status |-> "running", rindex |-> 0, expect |-> Todo, accepted |-> {}]

(* The invocation the slot table calls for: a one-slot re-run when the     *)
(* first unscored slot was a cheat, else every unscored slot from index 0. *)
NextInvocation ==
  IF Least(Todo) \in Pending(doc)
  THEN [status |-> "running", rindex |-> Largest(RIndices(doc, Least(Todo))) + 1,
        expect |-> {Least(Todo)}, accepted |-> {}]
  ELSE [status |-> "running", rindex |-> 0, expect |-> Todo, accepted |-> {}]

(* The slot table is derived; the invocation is in the inventory before    *)
(* its probe exists.                                                       *)
Launch ==
  /\ At("launch")
  /\ \/ /\ InventoryBroken(doc)
        /\ Abort("inventory")
        /\ UNCHANGED <<doc, files, probe, cancel>>
     \/ /\ ~InventoryBroken(doc) /\ Blocked(doc) # {}
        /\ Abort("blocked")
        /\ UNCHANGED <<doc, files, probe, cancel>>
     \/ /\ ~InventoryBroken(doc) /\ Blocked(doc) = {} /\ Todo = {}
        /\ GoTo("done")
        /\ UNCHANGED <<doc, files, probe, cancel>>
     \/ /\ ~InventoryBroken(doc) /\ Blocked(doc) = {} /\ Todo # {}
        /\ doc' = [doc EXCEPT !.invs = Append(@, NextInvocation)]
        /\ files' = NoFiles
        /\ cancel' = "none"
        /\ probe' = [state |-> "none", item |-> 0, man |-> NewManifest]
        /\ chain' = [chain EXCEPT !.pc = "spawn", !.hook = NoHook]
  /\ UNCHANGED <<sidecar, stopFile, judged, faults, resumes>>

Spawn ==
  /\ At("spawn")
  /\ probe' = [probe EXCEPT !.state = "top", !.item = Least(Inv.expect)]
  /\ GoTo("watch")
  /\ UNCHANGED <<doc, sidecar, files, cancel, stopFile, judged, faults, resumes>>

-----------------------------------------------------------------------------
(* The chain: one poll of the item barrier (supervise -> pump_barrier). It *)
(* is skipped once a cancel is pending or a stop was written.              *)

Pumping == At("watch") /\ cancel = "none" /\ files.stop = NoHook /\ Inv.expect # files.cont

(* The item it looks at: the first one that it did not let pass.           *)
Item == Least(Inv.expect \ files.cont)
IsReady == Item \in files.ready /\ Item \notin files.go

(* Mutant: the last item of an invocation is never answered.               *)
AnswerGoButLast ==
  /\ Pumping /\ IsReady /\ Inv.expect \ files.cont # {Item}
  /\ files' = [files EXCEPT !.go = @ \cup {Item}]
  /\ UNCHANGED <<doc, sidecar, probe, cancel, chain, stopFile, judged, faults, resumes>>

(* `.ready` of the next item is there: run_before accepts, `.go`.          *)
AnswerGo ==
  /\ Pumping /\ IsReady
  /\ files' = [files EXCEPT !.go = @ \cup {Item}]
  /\ UNCHANGED <<doc, sidecar, probe, cancel, chain, stopFile, judged, faults, resumes>>

(* run_before fails on infrastructure: persist_pre_spawn records it and    *)
(* the slot's incident together ...                                        *)
PersistPreSpawn ==
  /\ Pumping /\ IsReady
  /\ May("pre_spawn") /\ faults' = faults + 1
  /\ doc' = [doc EXCEPT !.pre = @ \cup {[inv |-> Cur, slot |-> Item]},
                         !.inc = @ \cup {Incident(Cur, Item, TRUE)}]
  /\ chain' = [chain EXCEPT !.pc = "signal", !.hook = Before(Item)]
  /\ UNCHANGED <<sidecar, files, probe, cancel, stopFile, judged, resumes>>

(* `.done` of the item is there: run_after starts.                         *)
ReadDone ==
  /\ Pumping /\ Item \in files.go /\ Item \in files.done
  /\ GoTo("judge")
  /\ UNCHANGED <<doc, sidecar, files, probe, cancel, stopFile, judged, faults, resumes>>

Verdicts ==
  {"accepted"} \cup {v \in {"cheat", "unclear"} : May(v)}

(* Mutant: the bound on re-runs is not looked at.                          *)
DispositionUnbounded(v) == v

(* A cheat at the last permitted re-run is a strict fail.                  *)
Disposition(v) == IF v = "cheat" /\ Inv.rindex >= MaxReruns THEN "exhausted" ELSE v

(* Mutant: an accepting decision is acted on without a record of it.       *)
PersistVerdictRejections ==
  /\ At("judge")
  /\ \E v \in Verdicts :
       LET a == [inv |-> Cur, slot |-> Item, rindex |-> Inv.rindex, disp |-> Disposition(v)]
       IN /\ doc' = IF v = "accepted" THEN doc ELSE [doc EXCEPT !.att = @ \cup {a}]
          /\ judged' = judged \cup {a}
          /\ chain' = [chain EXCEPT !.pc = "signal", !.hook = After(Item, a.disp)]
          /\ faults' = IF v = "accepted" THEN faults ELSE faults + 1
  /\ UNCHANGED <<sidecar, files, probe, cancel, stopFile, resumes>>

(* run_after returns: the slot attempt is persisted ...                    *)
PersistVerdict ==
  /\ At("judge")
  /\ \E v \in Verdicts :
       LET a == [inv |-> Cur, slot |-> Item, rindex |-> Inv.rindex, disp |-> Disposition(v)]
       IN /\ doc' = [doc EXCEPT !.att = @ \cup {a}]
          /\ judged' = judged \cup {a}
          /\ chain' = [chain EXCEPT !.pc = "signal", !.hook = After(Item, a.disp)]
          /\ faults' = IF v = "accepted" THEN faults ELSE faults + 1
  /\ UNCHANGED <<sidecar, files, probe, cancel, stopFile, resumes>>

(* ... and only then the barrier file that acts on it is linked.           *)
Signal ==
  /\ At("signal")
  /\ IF chain.hook.disp \in {"accepted", "exhausted"}
     THEN /\ files' = [files EXCEPT !.cont = @ \cup {chain.hook.slot}]
          /\ chain' = [chain EXCEPT !.pc = "watch", !.hook = NoHook]
     ELSE /\ files' = [files EXCEPT !.stop = chain.hook]
          /\ GoTo("watch")
  /\ UNCHANGED <<doc, sidecar, probe, cancel, stopFile, judged, faults, resumes>>

(* supervise: STOP and the idle predicate write the CANCEL file.           *)
CancelOnStop ==
  /\ At("watch") /\ cancel = "none" /\ stopFile
  /\ cancel' = "STOP"
  /\ UNCHANGED <<doc, sidecar, files, probe, chain, stopFile, judged, faults, resumes>>

CancelIdle ==
  /\ At("watch") /\ cancel = "none"
  /\ May("idle") /\ faults' = faults + 1
  /\ cancel' = "idle"
  /\ UNCHANGED <<doc, sidecar, files, probe, chain, stopFile, judged, resumes>>

(* _escalate gives up: the worker is not the one launched, or unreadable.  *)
EscalationRefused ==
  /\ At("watch") /\ cancel # "none"
  /\ May("escalation") /\ faults' = faults + 1
  /\ Abort("escalation")
  /\ UNCHANGED <<doc, sidecar, files, probe, cancel, stopFile, judged, resumes>>

-----------------------------------------------------------------------------
(* The probe (arm_runner._main): one item after the other                  *)

Become(state) == probe' = [probe EXCEPT !.state = state]
ProbeOnly == UNCHANGED <<doc, sidecar, cancel, chain, stopFile, judged, resumes>>

(* The exception path: the abort is stamped, then the finally block runs.  *)
StampAbort(abort) == probe' = [probe EXCEPT !.state = "closing", !.man.abort = abort]

(* Top of the loop; a cancel is honoured here, else `.ready` is linked.    *)
ProbeReady ==
  /\ probe.state = "top" /\ cancel = "none"
  /\ files' = [files EXCEPT !.ready = @ \cup {probe.item}]
  /\ Become("wait_go")
  /\ ProbeOnly /\ UNCHANGED faults

(* Mutant: any answer of the chain lets the item start.                    *)
ProbeGoOnAnyAnswer ==
  /\ probe.state = "wait_go"
  /\ files.stop # NoHook \/ probe.item \in files.go
  /\ Become("item")
  /\ ProbeOnly /\ UNCHANGED <<files, faults>>

ProbeGo ==
  /\ probe.state = "wait_go"
  /\ files.stop = NoHook /\ probe.item \in files.go
  /\ Become("item")
  /\ ProbeOnly /\ UNCHANGED <<files, faults>>

(* `.stop` is looked at first; the stop is recorded in the manifest.       *)
ProbeStop ==
  /\ probe.state \in {"wait_go", "wait_cont"}
  /\ files.stop # NoHook
  /\ probe' = [probe EXCEPT !.state = "closing", !.man.hook = files.stop]
  /\ ProbeOnly /\ UNCHANGED <<files, faults>>

(* The item runs and its row joins the rows file (rewritten atomically).   *)
ProbeRow ==
  /\ probe.state = "item"
  /\ files' = [files EXCEPT !.rows = @ \cup {probe.item}]
  /\ Become("row")
  /\ ProbeOnly /\ UNCHANGED faults

ProbeDone ==
  /\ probe.state = "row"
  /\ files' = [files EXCEPT !.done = @ \cup {probe.item}]
  /\ Become("wait_cont")
  /\ ProbeOnly /\ UNCHANGED faults

ProbeContinue ==
  /\ probe.state = "wait_cont"
  /\ files.stop = NoHook /\ probe.item \in files.cont
  /\ probe' = IF files.rows = Inv.expect THEN [probe EXCEPT !.state = "closing"]
              ELSE [probe EXCEPT !.state = "top", !.item = Least(Inv.expect \ files.rows)]
  /\ ProbeOnly /\ UNCHANGED <<files, faults>>

(* Mutant: the barrier is given no cancel to poll.                         *)
ProbeCancelledAtTop ==
  /\ cancel # "none"
  /\ probe.state \in {"top", "item"}
  /\ StampAbort("cancelled")
  /\ ProbeOnly /\ UNCHANGED <<files, faults>>

(* A cancel ends a wait that nothing else ended, an item and the loop top. *)
ProbeCancelled ==
  /\ cancel # "none"
  /\ \/ probe.state \in {"top", "item"}
     \/ probe.state = "wait_go" /\ files.stop = NoHook /\ probe.item \notin files.go
     \/ probe.state = "wait_cont" /\ files.stop = NoHook /\ probe.item \notin files.cont
  /\ StampAbort("cancelled")
  /\ ProbeOnly /\ UNCHANGED <<files, faults>>

(* A transport failure of the item, which the adapter classifies.          *)
ProbeTransport ==
  /\ probe.state = "item"
  /\ May("transport") /\ faults' = faults + 1
  /\ StampAbort("transport")
  /\ ProbeOnly /\ UNCHANGED files

(* Any other abort, which has no cause: a harness error in the item or     *)
(* after its row, the barrier's timeout while it waits.                    *)
ProbeHarness ==
  /\ \/ probe.state \in {"top", "item", "row"}
     \/ probe.state = "wait_go" /\ files.stop = NoHook /\ probe.item \notin files.go
     \/ probe.state = "wait_cont" /\ files.stop = NoHook /\ probe.item \notin files.cont
  /\ May("harness") /\ faults' = faults + 1
  /\ StampAbort("harness")
  /\ ProbeOnly /\ UNCHANGED files

(* An orphan's barrier wait always ends: the timeout needs no fault.       *)
OrphanTimeout ==
  /\ chain.pc \in {"down", "aborted"}
  /\ \/ probe.state = "wait_go" /\ files.stop = NoHook /\ probe.item \notin files.go
     \/ probe.state = "wait_cont" /\ files.stop = NoHook /\ probe.item \notin files.cont
  /\ StampAbort("harness")
  /\ ProbeOnly /\ UNCHANGED <<files, faults>>

(* The finally block: the served configuration is checked once more, the   *)
(* manifest is saved, the process ends.                                    *)
ProbeExit ==
  /\ probe.state = "closing"
  /\ \E drift, unclean \in BOOLEAN :
       /\ drift => May("drift")
       /\ unclean => May("unclean")
       /\ ~(drift /\ unclean)
       /\ probe' = [probe EXCEPT !.state = "exited", !.man.drift = drift, !.man.clean = ~unclean]
       /\ faults' = IF drift \/ unclean THEN faults + 1 ELSE faults
  /\ ProbeOnly /\ UNCHANGED files

(* SIGKILL, out of memory: no stamp, no cleanup receipt.                   *)
ProbeKilled ==
  /\ probe.state \notin {"none", "exited"}
  /\ May("kill") /\ faults' = faults + 1
  /\ probe' = [probe EXCEPT !.state = "exited", !.man.abort = "killed", !.man.clean = FALSE]
  /\ ProbeOnly /\ UNCHANGED files

ProbeStep ==
  \/ ProbeReady \/ ProbeGo \/ ProbeStop \/ ProbeRow \/ ProbeDone \/ ProbeContinue
  \/ ProbeCancelled \/ OrphanTimeout \/ ProbeExit
ProbeFault == ProbeTransport \/ ProbeHarness \/ ProbeKilled

-----------------------------------------------------------------------------
(* The chain: the probe has exited (run_invocation after supervise)        *)

(* The rows an invocation must have for the stop the chain remembers.      *)
ImpliedPrefix(hook) ==
  CASE hook.kind = "none"   -> Inv.expect
    [] hook.kind = "before" -> {s \in Inv.expect : s < hook.slot}
    [] hook.kind = "after"  -> {s \in Inv.expect : s <= hook.slot}

(* validate_leg and hook_manifest_problems find nothing.                   *)
Valid ==
  /\ probe.man.abort = "none" /\ ~probe.man.drift
  /\ files.rows = ImpliedPrefix(chain.hook)
  /\ probe.man.hook = chain.hook

Validate ==
  /\ At("watch") /\ probe.state = "exited"
  /\ GoTo(IF Valid THEN "accept" ELSE IF cancel = "STOP" THEN "archive_stopped" ELSE "incomplete")
  /\ UNCHANGED <<doc, sidecar, files, probe, cancel, stopFile, judged, faults, resumes>>

CountRows(status) == [doc.invs EXCEPT ![Cur].status = status, ![Cur].accepted = files.rows]

(* accept_invocation: the rows count from here on.                         *)
Accept ==
  /\ At("accept")
  /\ doc' = [doc EXCEPT !.invs = CountRows(IF chain.hook = NoHook THEN "validated" ELSE "hook_stopped")]
  /\ GoTo("after")
  /\ UNCHANGED <<sidecar, files, probe, cancel, stopFile, judged, faults, resumes>>

(* after_invocation: every counted row that has no attempt gets one.       *)
WithAttempts ==
  LET known == {<<a.slot, a.rindex>> : a \in doc.att}
  IN [doc EXCEPT !.att = @ \cup
        {a \in [inv : {Cur}, slot : files.rows, rindex : {Inv.rindex}, disp : {"accepted"}] :
           <<a.slot, a.rindex>> \notin known}]

(* The rest of accept_invocation; a retry needs a certain cleanup and, for *)
(* a pre-spawn incident, the recovery of the worker.                       *)
AfterAccept ==
  /\ At("after") /\ Inv.status \in {"validated", "hook_stopped"}
  /\ doc' = WithAttempts
  /\ \/ chain.hook = NoHook /\ GoTo("leg")
     \/ chain.hook.disp = "unclear" /\ Abort("blocked")
     \/ /\ chain.hook # NoHook /\ chain.hook.disp # "unclear"
        /\ IF ~probe.man.clean THEN Abort("cleanup")
           ELSE GoTo(IF chain.hook.kind = "before" THEN "recover" ELSE "leg")
  /\ UNCHANGED <<sidecar, files, probe, cancel, stopFile, judged, faults, resumes>>

(* Mutant: the decisions of the invocation stay.                           *)
WithoutItsRecord ==
  [doc EXCEPT !.invs[Cur] = [status |-> "gone", rindex |-> 0, expect |-> {}, accepted |-> {}]]

(* _archive_attempts: the accepting decisions of files that leave the      *)
(* inventory no longer count, a cheat or unclear one stays.                *)
WithoutCurrent ==
  [doc EXCEPT !.invs[Cur] = [status |-> "gone", rindex |-> 0, expect |-> {}, accepted |-> {}],
              !.att = {a \in @ : ~(a.inv = Cur /\ a.disp \in {"accepted", "exhausted"})}]

(* Mutant: every file of the leg's stem is archived, as tg1 does it.       *)
ArchiveStoppedStem ==
  /\ At("archive_stopped")
  /\ doc' = [doc EXCEPT !.invs = [i \in 1..Cur |->
                [status |-> "gone", rindex |-> 0, expect |-> {}, accepted |-> {}]],
                        !.att = {a \in @ : a.disp \notin {"accepted", "exhausted"}}]
  /\ files' = NoFiles
  /\ GoTo("stopped")
  /\ UNCHANGED <<sidecar, probe, cancel, stopFile, judged, faults, resumes>>

(* A STOP that did not leave a valid invocation: archive_stopped.          *)
ArchiveStopped ==
  /\ At("archive_stopped")
  /\ doc' = WithoutCurrent
  /\ files' = NoFiles
  /\ GoTo("stopped")
  /\ UNCHANGED <<sidecar, probe, cancel, stopFile, judged, faults, resumes>>

(* handle_incomplete and classify_incident: the worker and the router      *)
(* first, then the probe's own cause, then an idle cancel.                 *)
IsTransport(workerBad) ==
  workerBad \/ probe.man.abort = "transport" \/ cancel = "idle"

ProperPrefix ==
  /\ files.rows # Inv.expect
  /\ \A s \in files.rows, t \in Inv.expect \ files.rows : s < t

(* record_incident: certain cleanup, a proper prefix of valid rows; those  *)
(* rows count, the slot after them has one more incident.                  *)
RecordIncident(workerBad) ==
  /\ IsTransport(workerBad)
  /\ IF probe.man.clean /\ ProperPrefix /\ ~probe.man.drift
     THEN /\ doc' = [doc EXCEPT !.invs = CountRows("partial_incident"),
                                !.inc = @ \cup {Incident(Cur, Least(Inv.expect \ files.rows), FALSE)}]
          /\ GoTo("after")
     ELSE Abort("incident refused") /\ UNCHANGED doc

(* check_restart_eligible: no transport cause, the whole load restarts     *)
(* once, and only from a certain cleanup.                                  *)
RestartLoad ==
  /\ ~IsTransport(FALSE)
  /\ UNCHANGED doc
  /\ IF ~probe.man.clean THEN Abort("restart refused")
     ELSE IF chain.restarted THEN Abort("incomplete twice")
     ELSE GoTo("archive")

HandleIncomplete ==
  /\ At("incomplete")
  /\ \/ RecordIncident(FALSE) /\ UNCHANGED faults
     \/ RestartLoad /\ UNCHANGED faults
     \/ May("worker") /\ faults' = faults + 1 /\ RecordIncident(TRUE)
  /\ UNCHANGED <<sidecar, files, probe, cancel, stopFile, judged, resumes>>

AfterIncident ==
  /\ At("after") /\ Inv.status = "partial_incident"
  /\ doc' = WithAttempts
  /\ GoTo("recover")
  /\ UNCHANGED <<sidecar, files, probe, cancel, stopFile, judged, faults, resumes>>

(* recover: unload, reload, A4 again; anything that fails there aborts.    *)
Recover ==
  /\ At("recover")
  /\ \/ GoTo("leg") /\ UNCHANGED faults
     \/ May("recover") /\ faults' = faults + 1 /\ Abort("recovery")
  /\ UNCHANGED <<doc, sidecar, files, probe, cancel, stopFile, judged, resumes>>

(* archive_load: every file and record of this load generation leaves the  *)
(* inventory, its dnf rows and their sidecar too; the load starts over.    *)
ArchiveLoad ==
  /\ At("archive")
  /\ doc' = [gen |-> doc.gen + 1, invs |-> <<>>, att |-> {}, pre |-> {}, inc |-> {}, dnf |-> {}]
  /\ sidecar' = {}
  /\ files' = NoFiles
  /\ judged' = {}
  /\ chain' = [chain EXCEPT !.pc = "leg", !.restarted = TRUE]
  /\ UNCHANGED <<probe, cancel, stopFile, faults, resumes>>

-----------------------------------------------------------------------------
(* Crash, STOP and resume                                                  *)

(* The chain process dies; the probe is in a session of its own.           *)
Crash ==
  /\ chain.pc \notin {"down", "aborted", "stopped", "done"}
  /\ May(IF At("sidecar") THEN "sidecar_crash" ELSE "crash") /\ faults' = faults + 1
  /\ chain' = [pc |-> "down", hook |-> NoHook, restarted |-> FALSE, why |-> "none"]
  /\ UNCHANGED <<doc, sidecar, files, probe, cancel, stopFile, judged, resumes>>

OperatorStop ==
  /\ ~stopFile /\ chain.pc \notin {"down", "aborted", "stopped", "done"}
  /\ May("stop") /\ faults' = faults + 1
  /\ stopFile' = TRUE
  /\ UNCHANGED <<doc, sidecar, files, probe, cancel, chain, judged, resumes>>

(* The operator starts the chain again: start_router refuses while a probe *)
(* is alive, and a STOP file would end the run at once.                    *)
Restart ==
  /\ chain.pc \in {"down", "aborted", "stopped"}
  /\ probe.state \in {"none", "exited"}
  /\ resumes < MaxResumes /\ resumes' = resumes + 1
  /\ stopFile' = FALSE
  /\ chain' = [pc |-> "resume", hook |-> NoHook, restarted |-> FALSE, why |-> "none"]
  /\ UNCHANGED <<doc, sidecar, files, probe, cancel, judged, faults>>

(* persisted_stop: where the persisted dispositions of the running         *)
(* invocation say it stopped.                                              *)
Rejected == {a \in doc.att : a.inv = Cur /\ a.disp \in {"cheat", "unclear"}}
PreSpawned == {p \in doc.pre : p.inv = Cur}
LastAccepting ==
  LET mine == {a \in doc.att : a.inv = Cur /\ a.disp \in {"accepted", "exhausted"}}
  IN {a \in mine : \A b \in mine : b.slot <= a.slot}

PersistedStop ==
  IF Rejected # {} THEN LET a == CHOOSE x \in Rejected : TRUE IN After(a.slot, a.disp)
  ELSE IF PreSpawned # {} THEN Before((CHOOSE p \in PreSpawned : TRUE).slot)
  ELSE IF \E a \in LastAccepting : a.slot \notin files.cont
       THEN LET a == CHOOSE x \in LastAccepting : TRUE IN After(a.slot, a.disp)
       ELSE NoHook

(* salvage_hook_stops: the rows are exactly the prefix the stop implies    *)
(* and validate but for an abort.                                          *)
Salvageable ==
  /\ PersistedStop # NoHook
  /\ files.rows = ImpliedPrefix(PersistedStop)
  /\ ~probe.man.drift

Salvaged ==
  [doc EXCEPT !.invs = CountRows(IF /\ PersistedStop.disp \in {"accepted", "exhausted"}
                                    /\ files.rows = Inv.expect
                                 THEN "validated" ELSE "hook_stopped")]

(* prepare_resume: the cursor is checked against the slot table, then the  *)
(* invocation the dead chain left running is salvaged or quarantined.      *)
Resume ==
  /\ At("resume")
  /\ IF InventoryBroken(doc) THEN Abort("inventory") /\ UNCHANGED <<doc, files>>
     ELSE /\ GoTo("sync")
          /\ IF ~Running(doc) THEN UNCHANGED <<doc, files>>
             ELSE IF Salvageable THEN doc' = Salvaged /\ UNCHANGED files
             ELSE doc' = WithoutCurrent /\ files' = NoFiles
  /\ UNCHANGED <<sidecar, probe, cancel, stopFile, judged, faults, resumes>>

SyncSidecars ==
  /\ At("sync")
  /\ sidecar' = IF doc.dnf = {} THEN sidecar ELSE doc.dnf
  /\ GoTo("leg")
  /\ UNCHANGED <<doc, files, probe, cancel, stopFile, judged, faults, resumes>>

-----------------------------------------------------------------------------
ChainStep ==
  \/ LegTop \/ WriteDnf \/ WriteSidecar \/ NothingDue \/ Launch \/ Spawn
  \/ AnswerGo \/ ReadDone \/ PersistVerdict \/ Signal \/ CancelOnStop
  \/ Validate \/ Accept \/ AfterAccept \/ ArchiveStopped \/ HandleIncomplete \/ AfterIncident
  \/ Recover \/ ArchiveLoad \/ Resume \/ SyncSidecars
ChainFault == PersistPreSpawn \/ CancelIdle \/ EscalationRefused \/ Crash

Next == ChainStep \/ ChainFault \/ ProbeStep \/ ProbeFault \/ OperatorStop \/ Restart

Spec == Init /\ [][Next]_vars /\ WF_vars(ChainStep) /\ WF_vars(ProbeStep)

-----------------------------------------------------------------------------
Verdict == {"accepted", "cheat", "unclear", "exhausted"}
Invocations == [status : Counted \cup {"running", "gone"}, rindex : 0..MaxReruns,
                expect : SUBSET Slots, accepted : SUBSET Slots]
Attempts == [inv : Nat, slot : Slots, rindex : 0..MaxReruns, disp : Verdict]
PreSpawns == [inv : Nat, slot : Slots]
IncidentRecords == [inv : Nat, slot : Slots, pre_spawn : BOOLEAN]
Hooks == {NoHook} \cup [kind : {"before"}, slot : Slots, disp : {"none"}]
                 \cup [kind : {"after"}, slot : Slots, disp : Verdict]
Manifests == [hook : Hooks, abort : {"none", "cancelled", "transport", "harness", "killed"},
              clean : BOOLEAN, drift : BOOLEAN]
Points == {"leg", "settle", "sidecar", "launch", "spawn", "watch", "judge", "signal", "accept",
           "incomplete", "archive_stopped", "after", "recover", "archive", "done", "stopped",
           "aborted", "down", "resume", "sync"}
Whys == {"none", "inventory", "blocked", "escalation", "cleanup", "incident refused",
         "restart refused", "incomplete twice", "recovery"}

DocOK ==
  /\ doc \in [gen : Nat, invs : Seq(Invocations), att : SUBSET Attempts, pre : SUBSET PreSpawns,
              inc : SUBSET IncidentRecords, dnf : SUBSET Slots]
  /\ \A i \in 1..Len(doc.invs) : doc.invs[i].status = "running" => i = Len(doc.invs)
  /\ \A r \in doc.att \cup doc.pre \cup doc.inc : r.inv \in 1..Len(doc.invs)
FilesOK ==
  files \in [rows : SUBSET Slots, ready : SUBSET Slots, go : SUBSET Slots,
             done : SUBSET Slots, cont : SUBSET Slots, stop : Hooks]
ProbeOK ==
  probe \in [state : {"none", "top", "wait_go", "item", "row", "wait_cont", "closing", "exited"},
             item : 0..N, man : Manifests]
ChainOK ==
  chain \in [pc : Points, hook : Hooks, restarted : BOOLEAN, why : Whys]
OthersOK ==
  /\ sidecar \subseteq Slots /\ judged \subseteq Attempts
  /\ cancel \in {"none", "STOP", "idle"} /\ stopFile \in BOOLEAN
  /\ faults \in 0..MaxFaults /\ resumes \in 0..MaxResumes

TypeOK == DocOK /\ FilesOK /\ ProbeOK /\ ChainOK /\ OthersOK

(* chain_rows is "the only reader" and fails closed: no run of the chain,  *)
(* whatever it dies of, leaves an inventory its own reader refuses.        *)
InventoryLoads == chain.why # "inventory"

(* "Every disposition is persisted in chain.json BEFORE the barrier file   *)
(* that acts on it" (pump_barrier, chain_core.py:2819): with a signal on   *)
(* disk, the record a resume needs is on disk too.                         *)
DispositionBeforeSignal ==
  Running(doc) =>
    /\ \A s \in files.cont :
         \E a \in doc.att : /\ a.inv = Cur /\ a.slot = s
                           /\ a.disp \in {"accepted", "exhausted"}
    /\ files.stop.kind = "after" =>
         \E a \in doc.att : a.inv = Cur /\ a.slot = files.stop.slot /\ a.disp = files.stop.disp
    /\ files.stop.kind = "before" => [inv |-> Cur, slot |-> files.stop.slot] \in doc.pre

(* R13: a pre-spawn incident stops the probe before it runs the slot, and  *)
(* a rejected item is the last one the probe runs.                         *)
ProbeNeverPastStop ==
  files.stop # NoHook => files.rows = ImpliedPrefix(files.stop) /\ probe.state # "item"

(* The row a slot is scored from, and its attempt.                         *)
Source(d, s) ==
  IF s \in d.dnf THEN [inv |-> 0, rindex |-> 0]
  ELSE LET r == CHOOSE x \in CountedRows(d) : x.slot = s /\ x.rindex = Largest(RIndices(d, s))
       IN [inv |-> r.inv, rindex |-> r.rindex]

(* P201: a row the hooks rejected is never the row a slot is scored from.  *)
RejectedNeverScored ==
  \A j \in judged :
    j.disp \in {"cheat", "unclear"} /\ j.slot \in Scored(doc) /\ ~InventoryBroken(doc)
      => Source(doc, j.slot) # [inv |-> j.inv, rindex |-> j.rindex]

(* P201 / P202: an attempt at re-run index r follows r rejected ones, so   *)
(* a strict fail (`exhausted`) took every permitted re-run.                *)
RerunsEarned ==
  \A j \in judged : \A r \in 0..(j.rindex - 1) :
    \E e \in judged : e.slot = j.slot /\ e.rindex = r /\ e.disp = "cheat"

(* Spec 8.3: a slot is a dnf row only with its last incident recorded, a   *)
(* dnf row and a counted row exclude each other, and a launch never        *)
(* retries a slot whose last incident is recorded.                         *)
DnfExact ==
  /\ \A s \in doc.dnf : Cardinality(Incidents(doc, s)) >= MaxIncidents /\ s \notin RowScored(doc)
  /\ chain.pc = "spawn" =>
       \A s \in Inv.expect : Cardinality(Incidents(doc, s)) < MaxIncidents

(* What is scored stays scored, from the same row, through incidents,      *)
(* re-runs, STOPs, crashes and resumes: only a restarted load starts over. *)
ScoredIsStable ==
  [][doc'.gen = doc.gen =>
       \A s \in Scored(doc) :
         ~InventoryBroken(doc) => s \in Scored(doc') /\ Source(doc', s) = Source(doc, s)]_vars

(* The outcome of a slot for whoever reads the slot table.                 *)
Outcome(d, s) ==
  IF s \notin Scored(d) THEN [kind |-> "open", inv |-> 0, rindex |-> 0]
  ELSE LET from == Source(d, s)
       IN  [kind |-> IF s \in d.dnf THEN "dnf" ELSE "row", inv |-> from.inv, rindex |-> from.rindex]

Ledger == INSTANCE SlotLedger
            WITH outcome <- [s \in Slots |-> Outcome(doc, s)], gen <- doc.gen, done <- At("done")

(* The leg implements the ledger its readers rely on (chain_rows, "the     *)
(* only reader", P201, R17, R18): no slot changes its outcome, each takes  *)
(* it from an invocation that counts as a whole, and the leg is complete   *)
(* only with every slot settled.                                           *)
ImplementsLedger == Ledger!Spec

(* With finitely many faults the leg ends: done, stopped or aborted, or    *)
(* the chain is down until the operator restarts it.                       *)
LegSettles == <>[](chain.pc \in {"done", "aborted", "stopped", "down"})

-----------------------------------------------------------------------------
(* What the repository says of the code and its runs contradict            *)

(* settle_dnf: "a resume re-creates a missing sidecar from chain.json":    *)
(* the chain never stops over a sidecar that lags behind chain.json.       *)
ResumeRecreatesSidecar == chain.why = "inventory" => sidecar = doc.dnf

(* quarantine: "a persisted cheat / unclear disposition stays (it is what  *)
(* makes the slot re-run": the slot's next attempt has the next index.     *)
CheatIsWhatReruns ==
  \A a, b \in doc.att : a # b /\ a.slot = b.slot /\ a.disp = "cheat" => a.rindex # b.rindex

(* chain_hooks: "`after_attempt(slot, done)` runs at the `done` barrier":  *)
(* every row a slot is scored from was judged.                             *)
EveryScoredRowJudged ==
  ~InventoryBroken(doc) =>
    \A s \in RowScored(doc) : \E j \in judged : j.slot = s /\ j.inv = Source(doc, s).inv

(* The chain "retries the SAME slot in a new `retry` invocation; a second  *)
(* incident in a slot is a `transport_dnf` row": its incidents are of      *)
(* different invocations.                                                  *)
DnfWasRetried ==
  \A s \in doc.dnf : Cardinality({i.inv : i \in Incidents(doc, s)}) >= MaxIncidents

=============================================================================
