------------------------------ MODULE E2EGate ------------------------------
(***************************************************************************)
(* The end-to-end web-search gate (scripts/websearch/owui_e2e_gate.py).    *)
(* One item is one saved chat: the tool loop runs in Open WebUI, the gate  *)
(* polls the persisted answer, then charges to the item every router-log   *)
(* line that landed since it last read the log, and grades.  Lines come    *)
(* when the router writes them, late or from another client; calls fail    *)
(* with an exception the gate handles or with one it does not.             *)
(***************************************************************************)
EXTENDS Naturals, Sequences, FiniteSets, FiniteSetsExt, SequencesExt

CONSTANTS
  Category,        \* queries.json: query number -> its category
  PerCategory,     \* --per-category
  Answers,         \* the assistant messages a chat may end with
  Rounds,          \* the router lines a round may leave
  ThinkingBudget, MaxTokens, Cap,   \* of the served model
  KeepChats,       \* --keep-chats
  MaxLines,        \* bound: router lines in a run
  MaxErrors        \* bound: calls that fail, and ^C

ASSUME GateAssumption ==
  /\ IsFiniteSet(DOMAIN Category)
  /\ \A r \in Rounds : r.status \in Nat /\ r.prompt \in Nat /\ r.completion \in Nat
  /\ {ThinkingBudget, MaxTokens, Cap, PerCategory, MaxLines, MaxErrors} \subseteq Nat

VARIABLES
  gate,       \* where the gate is
  items,      \* the selected queries, in corpus order
  chat,       \* query -> its chat in Open WebUI
  answer,     \* query -> what the chat ended with
  routerLog,  \* main_model.log: the lines of this model, with their chat
  offset,     \* lines of it the gate has read
  late,       \* lines of finished rounds the router has yet to write
  overtime,   \* no progress for one derived round, or past the deadline
  rows,       \* the graded items, in order
  exported,   \* items.jsonl: the rows with their whole chats, in order
  summary,    \* summary.json
  exit,       \* exit status, or "running"
  errors

gateVars == <<gate, items, chat, answer, routerLog, offset, late, overtime,
              rows, exported, summary, exit, errors>>

Queries == DOMAIN Category
Current == items[Len(rows) + 1]
NoAnswer == [searches |-> {}, sources |-> 0, completed |-> FALSE, text |-> "none",
             tokens |-> "absent", domains |-> "absent"]

-----------------------------------------------------------------------------
(* Pure parts.                                                             *)

(* select_stratified: PerCategory of each category, fewer when it has fewer. *)
Stratified(S) ==
  \A c \in {Category[q] : q \in Queries} :
    LET pool == {q \in Queries : Category[q] = c}
    IN  Cardinality(S \cap pool) = Min({PerCategory, Cardinality(pool)})

(* ... and the corpus order is kept.                                       *)
Selection ==
  {s \in SeqOf(Queries, Cardinality(Queries)) :
     /\ Stratified(ToSet(s))
     /\ \A j, k \in DOMAIN s : j < k => s[j] < s[k]}

(* Mutant: the budget asked for, whatever room the prompt leaves.          *)
AskedBudget(prompt) == ThinkingBudget

(* resolved_thinking_budget: the server's silent clamp to 0.8 of the room. *)
ResolvedBudget(prompt) ==
  LET room == IF Cap > prompt THEN Min({MaxTokens, Cap - prompt}) ELSE 0
  IN  Min({ThinkingBudget, (room * 8) \div 10})

Converged(r) == r.status = 200 /\ r.completion < ResolvedBudget(r.prompt)

(* final_message_text and _search_ok, then the flags of grade_item.        *)
Passes(msg, rounds) ==
  /\ "list" \in msg.searches                       \* searched: a nonempty result list
  /\ msg.sources > 0
  /\ msg.completed /\ msg.text # "none"            \* answered
  /\ rounds # <<>> /\ \A k \in DOMAIN rounds : Converged(rounds[k])
  /\ msg.text = "cited"
  /\ msg.tokens = "hit" \/ msg.domains = "hit"     \* expectation_hit

NoSummary == [kind |-> "none", rc |-> 0, n |-> 0, pass |-> FALSE]

(* summarize: the verdict of the rows it is given.                         *)
Summarize(rc) == [kind |-> "graded", rc |-> rc, n |-> Len(rows),
                  pass |-> rows # <<>> /\ \A k \in DOMAIN rows : rows[k].pass]

-----------------------------------------------------------------------------
GateInit ==
  /\ gate = "selftest"
  /\ items \in Selection
  /\ chat = [q \in Queries |-> "none"]
  /\ answer = [q \in Queries |-> NoAnswer]
  /\ routerLog = <<>>
  /\ offset = 0
  /\ late = {}
  /\ overtime = FALSE
  /\ rows = <<>>
  /\ exported = <<>>
  /\ summary = NoSummary
  /\ exit = "running"
  /\ errors = 0

(* The known-positive SearXNG self-test; an exception ends the program.    *)
SelfTest ==
  /\ gate = "selftest"
  /\ \/ gate' = "fingerprint" /\ UNCHANGED <<summary, exit>>
     \/ gate' = "exited" /\ summary' = [NoSummary EXCEPT !.kind = "invalid"] /\ exit' = "2"
     \/ gate' = "exited" /\ exit' = "raised" /\ UNCHANGED summary
  /\ UNCHANGED <<items, chat, answer, routerLog, offset, late, overtime, rows, exported, errors>>

(* The fingerprint must be the shipped configuration; then the log's size. *)
Fingerprint ==
  /\ gate = "fingerprint"
  /\ \/ gate' = "next" /\ offset' = Len(routerLog) /\ UNCHANGED exit
     \/ gate' = "exited" /\ exit' \in {"2", "raised"} /\ UNCHANGED offset
  /\ UNCHANGED <<items, chat, answer, routerLog, late, overtime, rows, exported, summary, errors>>

(* run_item: the chat is created, then the completion is asked for.        *)
CreateChat ==
  /\ gate = "next"
  /\ Len(rows) < Len(items)
  /\ chat' = [chat EXCEPT ![Current] = "created"]
  /\ gate' = "complete"
  /\ UNCHANGED <<items, answer, routerLog, offset, late, overtime, rows, exported, summary, exit, errors>>

AskCompletion ==
  /\ gate = "complete"
  /\ chat' = [chat EXCEPT ![Current] = "working"]
  /\ overtime' = FALSE
  /\ gate' = "poll"
  /\ UNCHANGED <<items, answer, routerLog, offset, late, rows, exported, summary, exit, errors>>

PollDone ==
  /\ gate = "poll"
  /\ chat[Current] = "done"
  /\ gate' = "read"
  /\ UNCHANGED <<items, chat, answer, routerLog, offset, late, overtime, rows, exported, summary, exit, errors>>

(* Stalled for one derived round, or past the cap: abort, the chat is kept. *)
Wedged ==
  /\ gate = "poll"
  /\ chat[Current] # "done"
  /\ overtime
  /\ gate' = "finally3"
  /\ UNCHANGED <<items, chat, answer, routerLog, offset, late, overtime, rows, exported, summary, exit, errors>>

(* read_log_from and parse_router_metrics: the lines of the model that have
   landed since the last read, whoever asked for the round.                *)
RouterRounds ==
  LET window == SubSeq(routerLog, offset + 1, Len(routerLog))
  IN  [k \in DOMAIN window |-> window[k].round]

(* Two seconds later: the lines that have landed, the answer, the grade;
   main writes the row to items.jsonl, and flushes it ...                  *)
GradeAndExport ==
  /\ gate = "read"
  /\ exported' = Append(exported, [item |-> Current, from |-> offset, to |-> Len(routerLog),
                                   pass |-> Passes(answer[Current], RouterRounds)])
  /\ offset' = Len(routerLog)
  /\ gate' = "append"
  /\ UNCHANGED <<items, chat, answer, routerLog, late, overtime, rows, summary, exit, errors>>

(* ... before it is one of the rows of the summary and the clean-up.       *)
AppendRow ==
  /\ gate = "append"
  /\ rows' = Append(rows, Last(exported))
  /\ gate' = "next"
  /\ UNCHANGED <<items, chat, answer, routerLog, offset, late, overtime, exported, summary, exit, errors>>

AllGraded ==
  /\ gate = "next"
  /\ Len(rows) = Len(items)
  /\ gate' = "finally0"
  /\ UNCHANGED <<items, chat, answer, routerLog, offset, late, overtime, rows, exported, summary, exit, errors>>

(* A failing call: RuntimeError, URLError, TimeoutError and OSError are an
   abort with rc 3; a KeyError, a JSONDecodeError or ^C go on to `finally`
   with rc still 0 and are raised again after it.  Once the row is written
   only ^C is left.                                                        *)
CallFails ==
  /\ gate \in {"next", "complete", "poll", "read", "append"}
  /\ Len(rows) < Len(items)
  /\ errors < MaxErrors
  /\ errors' = errors + 1
  /\ gate' \in {"finally3", "raising"}
  /\ gate = "append" => gate' = "raising"
  /\ UNCHANGED <<items, chat, answer, routerLog, offset, late, overtime, rows, exported, summary, exit>>

(* Mutant: the clean-up does not ask for rc 0.                             *)
WriteSummaryUnguarded ==
  /\ gate \in {"finally0", "finally3", "raising"}
  /\ summary' = Summarize(IF gate = "finally3" THEN 3 ELSE 0)
  /\ gate' = IF ~KeepChats
               THEN IF gate = "raising" THEN "deleteRaising" ELSE "delete"
               ELSE IF gate = "raising" THEN "leaveRaising" ELSE "leave"
  /\ UNCHANGED <<items, chat, answer, routerLog, offset, late, overtime, rows, exported, exit, errors>>

(* `finally`: the summary of the rows there are, whatever ended the loop.  *)
WriteSummary ==
  /\ gate \in {"finally0", "finally3", "raising"}
  /\ summary' = Summarize(IF gate = "finally3" THEN 3 ELSE 0)
  /\ gate' = IF gate # "finally3" /\ ~KeepChats
               THEN IF gate = "raising" THEN "deleteRaising" ELSE "delete"
               ELSE IF gate = "raising" THEN "leaveRaising" ELSE "leave"
  /\ UNCHANGED <<items, chat, answer, routerLog, offset, late, overtime, rows, exported, exit, errors>>

(* One row's chat; a URLError is logged and its chat stays.                *)
DeleteChat ==
  /\ gate \in {"delete", "deleteRaising"}
  /\ \E k \in DOMAIN rows :
       /\ chat[rows[k].item] = "done"
       /\ chat' = [chat EXCEPT ![rows[k].item] = "deleted"]
  /\ UNCHANGED <<gate, items, answer, routerLog, offset, late, overtime, rows, exported, summary, exit, errors>>

CleanupEnds ==
  /\ gate \in {"delete", "deleteRaising"}
  /\ \/ /\ \A k \in DOMAIN rows : chat[rows[k].item] = "deleted"
        /\ gate' = IF gate = "delete" THEN "leave" ELSE "leaveRaising"
        /\ UNCHANGED errors
     \/ /\ errors < MaxErrors
        /\ errors' = errors + 1
        /\ gate' \in {IF gate = "delete" THEN "leave" ELSE "leaveRaising", "leaveRaising"}
  /\ UNCHANGED <<items, chat, answer, routerLog, offset, late, overtime, rows, exported, summary, exit>>

Leaves ==
  /\ gate \in {"leave", "leaveRaising"}
  /\ exit' = CASE gate = "leaveRaising" -> "raised"
               [] gate = "leave" /\ summary.rc # 0 -> "3"
               [] OTHER -> IF summary.pass THEN "0" ELSE "1"
  /\ gate' = "exited"
  /\ UNCHANGED <<items, chat, answer, routerLog, offset, late, overtime, rows, exported, summary, errors>>

GateStep ==
  \/ SelfTest \/ Fingerprint \/ CreateChat \/ AskCompletion \/ PollDone \/ Wedged
  \/ GradeAndExport \/ AppendRow \/ AllGraded \/ CallFails \/ WriteSummary \/ DeleteChat
  \/ CleanupEnds \/ Leaves

-----------------------------------------------------------------------------
(* The server side.                                                        *)

Lines == Len(routerLog) + Cardinality(late)

(* A worker round of the chat ends; its line is written now or later.      *)
RoundEnds(q) ==
  /\ chat[q] = "working"
  /\ Lines < MaxLines
  /\ \E r \in Rounds : LET line == [chat |-> q, round |-> r]
                       IN  \/ routerLog' = Append(routerLog, line) /\ UNCHANGED late
                           \/ line \notin late /\ late' = late \cup {line} /\ UNCHANGED routerLog
  /\ UNCHANGED <<gate, items, chat, answer, offset, overtime, rows, exported, summary, exit, errors>>

LateLine ==
  /\ \E line \in late : routerLog' = Append(routerLog, line) /\ late' = late \ {line}
  /\ UNCHANGED <<gate, items, chat, answer, offset, overtime, rows, exported, summary, exit, errors>>

(* Another client of the router uses the same model.                       *)
ForeignRound ==
  /\ Lines < MaxLines
  /\ \E r \in Rounds : routerLog' = Append(routerLog, [chat |-> 0, round |-> r])
  /\ UNCHANGED <<gate, items, chat, answer, offset, late, overtime, rows, exported, summary, exit, errors>>

AnswerPersisted(q) ==
  /\ chat[q] = "working"
  /\ chat' = [chat EXCEPT ![q] = "done"]
  /\ \E msg \in Answers : answer' = [answer EXCEPT ![q] = msg]
  /\ UNCHANGED <<gate, items, routerLog, offset, late, overtime, rows, exported, summary, exit, errors>>

ClockPasses ==
  /\ gate = "poll"
  /\ ~overtime
  /\ overtime' = TRUE
  /\ UNCHANGED <<gate, items, chat, answer, routerLog, offset, late, rows, exported, summary, exit, errors>>

(* What happens after the program exits is not followed.                   *)
GateNext ==
  \/ GateStep
  \/ /\ gate # "exited"
     /\ \/ \E q \in Queries : RoundEnds(q) \/ AnswerPersisted(q)
        \/ LateLine \/ ForeignRound \/ ClockPasses

GateSpec == GateInit /\ [][GateNext]_gateVars

-----------------------------------------------------------------------------
(* Exit status 0 is the gate's verdict: every selected item was run and
   passed (owui_e2e_gate.py:26), and no round that ended in the time of the
   run and was read by it, the gate's own or late, went unjudged
   (:18, :384): each line from the start to the last read converged.       *)
ExitZeroIsEveryItem ==
  exit = "0" =>
    /\ [k \in DOMAIN rows |-> rows[k].item] = items
    /\ \A k \in DOMAIN rows : rows[k].pass
    /\ \A k \in (rows[1].from + 1) .. offset :
         /\ routerLog[k].round.status = 200
         /\ routerLog[k].round.completion <
              Min({ThinkingBudget, (Min({MaxTokens, Cap - routerLog[k].round.prompt}) * 8) \div 10})

(* A gate chat is deleted only after its full export, whatever fails between
   the export and the clean-up, and never by an aborted run, whose summary
   has rc 3: what it had asked is kept (:36, :379, :527).                  *)
DeletedWasExported ==
  [][\A q \in Queries : chat[q] # "deleted" /\ chat'[q] = "deleted"
       => /\ \E k \in DOMAIN exported : exported[k].item = q
          /\ summary.kind = "graded" /\ summary.rc = 0]_gateVars

(* "Gate verdict = every item PASS" (:26): a summary.json that says PASS
   with rc 0 is of a run that graded every selected item.                  *)
SummaryCoversItems ==
  summary.pass /\ summary.rc = 0 => summary.n = Len(items)
=============================================================================
