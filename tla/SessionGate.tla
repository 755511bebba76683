---------------------------- MODULE SessionGate ----------------------------
(***************************************************************************)
(* The live session gate (scripts/session_pinning_gate.py): do client      *)
(* session ids reach the worker?  Its instrument is the worker's log, read *)
(* from an offset: A4 runs opencode twice and must see its session on      *)
(* every line, A6 asks three bare requests, A5 two turns of a saved chat.  *)
(* Lines land when the worker writes them; other clients write some too.   *)
(* A4 publishes a4_v2_latest.json, which later runs take as their receipt. *)
(***************************************************************************)
EXTENDS Naturals, Sequences, FiniteSets, SequencesExt

CONSTANTS
  SkipOwui,      \* --skip-owui
  MaxUnread      \* bound: lines landed or coming that the gate has not read

ASSUME SessionAssumption ==
  SkipOwui \in BOOLEAN /\ MaxUnread \in Nat

(* The requests of the gate, in order (main).                              *)
Requests == <<"A4", "A4", "A6", "A6", "A6">> \o IF SkipOwui THEN <<>> ELSE <<"A5", "A5">>

(* What a request of a leg may leave in the log: its session, and whether
   the cached prefix was reused.                                           *)
SessionsOf(leg) == CASE leg = "A4" -> {"ses", "anon"}
                     [] leg = "A6" -> {"anon", "none"}
                     [] leg = "A5" -> {"chat", "anon"}

VARIABLES
  phase,      \* "check", "ask", "wait", "judge", "publish", "verdict", "exited"
  turn,       \* index in Requests
  sid,        \* the session id that the first opencode turn printed, or "none"
  unread,     \* lines in the worker's log past LogTail.offset
  coming,     \* lines of accepted requests still to be written
  taken,      \* A4: the sessions of the rows read for each turn
  codes,      \* A4: whether each opencode exited 0 in time
  passed,     \* A6 and A5: no request has failed its leg
  config,     \* what the router serves
  verified,   \* what it served when A4 began
  pending,    \* the receipt written aside
  latest,     \* a4_v2_latest.json
  result,     \* exit status, or "running"
  landed      \* history: sessions of the lines that landed while A4 looked

sessionVars == <<phase, turn, sid, unread, coming, taken, codes, passed, config,
                 verified, pending, latest, result, landed>>

NoReceipt == [pass |-> FALSE, mine |-> FALSE]

SessionInit ==
  /\ phase = "check"
  /\ turn = 1
  /\ sid = "none"
  /\ unread = <<>>
  /\ coming = <<>>
  /\ taken = <<>>
  /\ codes = <<>>
  /\ passed = TRUE
  /\ config = 0
  /\ verified = 0
  /\ pending = NoReceipt
  /\ latest \in {NoReceipt, [pass |-> TRUE, mine |-> FALSE]}   \* an earlier run's
  /\ result = "running"
  /\ landed = {}

Leg == Requests[turn]
Bounded == Len(unread) + Len(coming) < MaxUnread

(* A line of this request: reuse matters where it is judged.               *)
Line == [session: SessionsOf(Leg), reused: IF turn \in {5, 7} THEN BOOLEAN ELSE {FALSE}]

(* assert_served_config, the carrier, the binary: refused (2 from main, a
   SystemExit from A4) or the configuration that A4 will compare at its end. *)
CheckServed ==
  /\ phase = "check"
  /\ \/ /\ phase' = "ask"
        /\ verified' = config
        /\ unread' = <<>>            \* log.new_rows() before the first turn
        /\ UNCHANGED result
     \/ /\ phase' = "exited"
        /\ result' \in {"2", "raised"}
        /\ UNCHANGED <<verified, unread>>
  /\ UNCHANGED <<turn, sid, coming, taken, codes, passed, config, pending, latest, landed>>

(* Mutant: every turn starts from a clean window.                          *)
AskAfterDiscard ==
  /\ phase = "ask"
  /\ unread' = <<>>
  /\ Len(coming) < MaxUnread
  /\ \E l \in Line : coming' = Append(coming, l)
  /\ phase' = "wait"
  /\ UNCHANGED <<turn, sid, taken, codes, passed, config, verified, pending, latest, result, landed>>

(* A request.  A6 and A5 first drop what the log has (log.new_rows()); the
   second A4 turn does not: "never discard them".                          *)
Ask ==
  /\ phase = "ask"
  /\ unread' = IF Leg = "A4" THEN unread ELSE <<>>
  /\ Len(unread') + Len(coming) < MaxUnread
  /\ \E l \in Line : coming' = Append(coming, l)
  /\ phase' = "wait"
  /\ UNCHANGED <<turn, sid, taken, codes, passed, config, verified, pending, latest, result, landed>>

(* opencode makes more than one request in a turn (tools, titles).         *)
AskMore ==
  /\ phase = "wait"
  /\ Leg = "A4"
  /\ Bounded
  /\ \E l \in Line : coming' = Append(coming, l)
  /\ UNCHANGED <<phase, turn, sid, unread, taken, codes, passed, config, verified, pending, latest, result, landed>>

(* opencode has ended (a timed-out one is killed) and wait_rows, with the
   trailing new_rows, has taken what has landed: nothing if it timed out.
   A bad code or no session id in turn one ends A4.                        *)
TakeA4 ==
  /\ phase = "wait"
  /\ Leg = "A4"
  /\ taken' = Append(taken, {unread[k].session : k \in DOMAIN unread})
  /\ unread' = <<>>
  /\ \E ok \in BOOLEAN : codes' = Append(codes, ok)
  /\ IF turn = 1 THEN sid' \in {"ses", "none"} ELSE UNCHANGED sid
  /\ IF turn = 1 /\ sid' = "ses" /\ codes'[1]
       THEN phase' = "ask" /\ turn' = 2
       ELSE phase' = "judge" /\ turn' = 3
  /\ UNCHANGED <<coming, passed, config, verified, pending, latest, result, landed>>

A4Pass ==
  /\ sid = "ses"
  /\ Len(taken) = 2
  /\ \A k \in 1 .. 2 : codes[k] /\ taken[k] = {sid}

(* The verdict of A4 with its drift check, written to a file aside ...     *)
JudgeA4 ==
  /\ phase = "judge"
  /\ pending' = [pass |-> A4Pass /\ config = verified, mine |-> TRUE]
  /\ phase' = "publish"
  /\ UNCHANGED <<turn, sid, unread, coming, taken, codes, passed, config, verified, latest, result, landed>>

(* ... and renamed into place.                                             *)
PublishA4 ==
  /\ phase = "publish"
  /\ latest' = pending
  /\ phase' = "ask"
  /\ UNCHANGED <<turn, sid, unread, coming, taken, codes, passed, config, verified, pending, result, landed>>

(* A6 and A5 judge the last line of a window, if it has one: an anonymous
   session and reuse on the third request; the chat's and on the second.   *)
LastIsRight ==
  /\ unread # <<>>
  /\ Last(unread).session = IF Leg = "A6" THEN "anon" ELSE "chat"
  /\ turn \in {5, 7} => Last(unread).reused

TakeBareOrChat ==
  /\ phase = "wait"
  /\ Leg # "A4"
  /\ passed' = (passed /\ LastIsRight)
  /\ unread' = <<>>
  /\ IF turn = Len(Requests) THEN phase' = "verdict" /\ UNCHANGED turn
                             ELSE phase' = "ask" /\ turn' = turn + 1
  /\ UNCHANGED <<sid, coming, taken, codes, config, verified, pending, latest, result, landed>>

Verdict ==
  /\ phase = "verdict"
  /\ result' = IF latest.pass /\ passed THEN "0" ELSE "1"
  /\ phase' = "exited"
  /\ UNCHANGED <<turn, sid, unread, coming, taken, codes, passed, config, verified, pending, latest, landed>>

(* A failing call anywhere: no gate.json, and the receipt stays as it was. *)
Raises ==
  /\ phase \in {"ask", "wait", "judge", "publish"}
  /\ result' = "raised"
  /\ phase' = "exited"
  /\ UNCHANGED <<turn, sid, unread, coming, taken, codes, passed, config, verified, pending, latest, landed>>

-----------------------------------------------------------------------------
(* The stack.                                                              *)

Lands(l) ==
  /\ unread' = Append(unread, l)
  /\ landed' = IF turn <= 2 THEN landed \cup {l.session} ELSE landed
  /\ UNCHANGED <<phase, turn, sid, taken, codes, passed, config, verified, pending, latest, result>>

LineLands ==
  /\ phase \in {"ask", "wait", "judge", "publish"}
  /\ coming # <<>>
  /\ coming' = Tail(coming)
  /\ Lands(Head(coming))

OtherClient ==
  /\ phase \in {"ask", "wait", "judge", "publish"}
  /\ Bounded
  /\ Lands([session |-> "anon", reused |-> TRUE])
  /\ UNCHANGED coming

ConfigDrifts ==
  /\ phase \in {"ask", "wait", "judge", "publish"}
  /\ config = 0
  /\ config' = 1
  /\ UNCHANGED <<phase, turn, sid, unread, coming, taken, codes, passed, verified, pending, latest, result, landed>>

SessionNext ==
  \/ CheckServed \/ Ask \/ AskMore \/ TakeA4 \/ JudgeA4 \/ PublishA4 \/ TakeBareOrChat
  \/ Verdict \/ Raises \/ LineLands \/ OtherClient \/ ConfigDrifts

SessionSpec == SessionInit /\ [][SessionNext]_sessionVars

-----------------------------------------------------------------------------
(* A receipt that this run publishes as PASS was earned: from the first turn
   to A4's last read, every line that landed in the worker's log carried the
   session of the run, the late lines of turn one too ("never discard them",
   session_pinning_gate.py:181), and each turn left one of its own.        *)
ReceiptIsEarned ==
  [][latest' # latest /\ latest'.pass =>
       landed = {"ses"} /\ taken = <<{"ses"}, {"ses"}>>]_sessionVars
=============================================================================
