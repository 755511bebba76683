----------------------------- MODULE GatesProofs -----------------------------
(***************************************************************************)
(* Proofs about the gates that an operator runs: DdgsQualify, for any      *)
(* backends, queries, workers, engines and any budget of requests;         *)
(* SessionGate, with and without Open WebUI and for any log; E2EGate, for  *)
(* any items, router log and failures; and SearxngQualify, for any arms,   *)
(* queries and control.                                                    *)
(***************************************************************************)
EXTENDS DdgsQualify, SessionGate, E2EGate, SearxngQualify, SequenceTheorems, FiniteSetTheorems, TLAPS

(* The maps of the threads and of the searches.                            *)
Maps ==
  /\ DOMAIN job = Threads /\ DOMAIN tag = Threads /\ DOMAIN stamp = Jobs
  /\ DOMAIN call = Jobs /\ \A j \in Jobs : DOMAIN call[j] = Engines

(* A thread that runs a search carries its id, so the engines of a search
   carry its id or none yet, and of engines with none no request goes out.  *)
Carried ==
  /\ \A t \in Threads : job[t] # None => tag[t] = job[t]
  /\ \A j \in Jobs : stamp[j] # None => stamp[j] = j
  /\ \A j \in Jobs, e \in Engines : call[j][e] # "none" => stamp[j] # None

AttributionInv == Maps /\ Carried /\ AttributionExact

(* The counter is what has gone out.                                       *)
BudgetInv ==
  /\ Maps
  /\ started \in 0 .. MaxRequests
  /\ IsFiniteSet(Sent)
  /\ Cardinality(Sent) = started

USE DEF qualifyVars

-----------------------------------------------------------------------------
LEMMA InitAttribution == QualifyInit => AttributionInv
BY DEF QualifyInit, AttributionInv, Maps, Carried, AttributionExact

LEMMA NextMaps ==
  ASSUME Maps, [QualifyNext]_qualifyVars
  PROVE  Maps'
<1>1. ASSUME NEW t \in Threads, GetEngines(t) PROVE Maps'
  BY <1>1 DEF GetEngines, Maps
<1>2. ASSUME NEW t \in Threads, Returned(t) PROVE Maps'
  BY <1>2 DEF Returned, Tagged, Maps
<1>3. ASSUME NEW w \in Workers, TakeBurst(w) PROVE Maps'
  BY <1>3 DEF TakeBurst, Tagged, Maps
<1>4. ASSUME NEW j \in Jobs, NEW e \in Engines, Request(j, e) PROVE Maps'
  BY <1>4 DEF Request, Maps
<1>5. ASSUME NEW j \in Jobs, NEW e \in Engines, Recorded(j, e) PROVE Maps'
  BY <1>5 DEF Recorded, Maps
<1>6. CASE AdmitSeq
  BY <1>6 DEF AdmitSeq, Tagged, Maps
<1>7. CASE AdmitBurst \/ StopAdmitting \/ EmitBurst \/ PlanEnds \/ Exit \/ TimeIsUp
  BY <1>7 DEF AdmitBurst, StopAdmitting, EmitBurst, PlanEnds, Exit, TimeIsUp, Maps
<1>8. CASE UNCHANGED qualifyVars
  BY <1>8 DEF Maps
<1>. QED
  BY <1>1, <1>2, <1>3, <1>4, <1>5, <1>6, <1>7, <1>8 DEF QualifyNext

LEMMA NextAttribution ==
  ASSUME AttributionInv, [QualifyNext]_qualifyVars
  PROVE  AttributionInv'
<1>. USE DEF AttributionInv, Carried, AttributionExact
<1>0. Maps /\ Maps'
  BY NextMaps
<1>1. ASSUME NEW t \in Threads, GetEngines(t) PROVE AttributionInv'
  BY <1>0, <1>1 DEF GetEngines, Maps
<1>2. ASSUME NEW t \in Threads, Returned(t) PROVE AttributionInv'
  BY <1>0, <1>2 DEF Returned, Tagged, Maps
<1>3. ASSUME NEW w \in Workers, TakeBurst(w) PROVE AttributionInv'
  BY <1>0, <1>3 DEF TakeBurst, Tagged, Maps
<1>4. ASSUME NEW j \in Jobs, NEW e \in Engines, Request(j, e) PROVE AttributionInv'
  BY <1>0, <1>4 DEF Request, Maps
<1>5. ASSUME NEW j \in Jobs, NEW e \in Engines, Recorded(j, e) PROVE AttributionInv'
  BY <1>0, <1>5 DEF Recorded, Maps
<1>6. CASE AdmitSeq
  BY <1>0, <1>6 DEF AdmitSeq, Tagged, Maps
<1>7. CASE AdmitBurst \/ StopAdmitting \/ EmitBurst \/ PlanEnds \/ Exit \/ TimeIsUp
  BY <1>0, <1>7 DEF AdmitBurst, StopAdmitting, EmitBurst, PlanEnds, Exit, TimeIsUp
<1>8. CASE UNCHANGED qualifyVars
  BY <1>0, <1>8
<1>. QED
  BY <1>1, <1>2, <1>3, <1>4, <1>5, <1>6, <1>7, <1>8 DEF QualifyNext

(* Every recorded request is charged to the search that made it, however   *)
(* many searches the workers run at once and however their threads         *)
(* interleave (ddgs_instrument.py: set_search_id, get_engines).            *)
THEOREM AttributionIsExact == QualifySpec => []AttributionExact
<1>1. QualifyInit => AttributionInv
  BY InitAttribution
<1>2. AttributionInv /\ [QualifyNext]_qualifyVars => AttributionInv'
  BY NextAttribution
<1>3. AttributionInv => AttributionExact
  BY DEF AttributionInv
<1>. QED
  BY <1>1, <1>2, <1>3, PTL DEF QualifySpec

-----------------------------------------------------------------------------
LEMMA InitBudget == QualifyInit => BudgetInv
<1>. SUFFICES ASSUME QualifyInit PROVE BudgetInv
  OBVIOUS
<1>1. Sent = {}
  BY DEF QualifyInit, Sent
<1>2. Maps
  BY InitAttribution DEF AttributionInv
<1>3. started = 0 /\ 0 \in 0 .. MaxRequests
  BY QualifyAssumption DEF QualifyInit
<1>. QED
  BY <1>1, <1>2, <1>3, FS_EmptySet DEF BudgetInv

(* A step that sends no request keeps the set and the counter.             *)
LEMMA SentAsBefore ==
  ASSUME BudgetInv, Maps', Sent' = Sent, started' = started
  PROVE  BudgetInv'
BY DEF BudgetInv

LEMMA NextBudget ==
  ASSUME BudgetInv, [QualifyNext]_qualifyVars
  PROVE  BudgetInv'
<1>0. Maps /\ Maps'
  BY NextMaps DEF BudgetInv
<1>1. ASSUME NEW j \in Jobs, NEW e \in Engines, Request(j, e) PROVE BudgetInv'
  <2>1. CASE started < MaxRequests
    <3>1. call' = [call EXCEPT ![j][e] = "sent"] /\ started' = started + 1 /\ call[j][e] = "none"
      BY <1>1, <2>1 DEF Request
    <3>2. Sent' = Sent \cup {<<j, e>>} /\ <<j, e>> \notin Sent
      BY <1>0, <3>1 DEF Sent, Maps
    <3>3. IsFiniteSet(Sent') /\ Cardinality(Sent') = Cardinality(Sent) + 1
      BY <3>2, FS_AddElement DEF BudgetInv
    <3>4. started + 1 \in 0 .. MaxRequests
      BY <2>1, QualifyAssumption DEF BudgetInv
    <3>. QED
      BY <1>0, <3>1, <3>3, <3>4 DEF BudgetInv
  <2>2. CASE ~(started < MaxRequests)
    <3>1. call' = [call EXCEPT ![j][e] = "refused"] /\ started' = started /\ call[j][e] = "none"
      BY <1>1, <2>2 DEF Request
    <3>2. Sent' = Sent
      BY <1>0, <3>1 DEF Sent, Maps
    <3>. QED
      BY <1>0, <3>1, <3>2, SentAsBefore
  <2>. QED
    BY <2>1, <2>2
<1>2. ASSUME NEW j \in Jobs, NEW e \in Engines, Recorded(j, e) PROVE BudgetInv'
  <2>1. Sent' = Sent /\ started' = started
    BY <1>0, <1>2 DEF Recorded, Sent, Maps
  <2>. QED
    BY <1>0, <2>1, SentAsBefore
<1>3. CASE call' = call /\ started' = started
  BY <1>0, <1>3, SentAsBefore DEF Sent
<1>4. \/ call' = call /\ started' = started
      \/ \E j \in Jobs, e \in Engines : Request(j, e) \/ Recorded(j, e)
  BY DEF QualifyNext, AdmitSeq, AdmitBurst, StopAdmitting, EmitBurst, PlanEnds, Exit, TimeIsUp,
         GetEngines, Returned, TakeBurst
<1>. QED
  BY <1>1, <1>2, <1>3, <1>4

(* The requests that go out never exceed --max-requests, whichever threads *)
(* of a burst ask at the same time (ddgs_instrument.py: reserve_request).  *)
THEOREM BudgetIsHeld == QualifySpec => []BudgetHeld
<1>1. QualifyInit => BudgetInv
  BY InitBudget
<1>2. BudgetInv /\ [QualifyNext]_qualifyVars => BudgetInv'
  BY NextBudget
<1>3. BudgetInv => BudgetHeld
  BY QualifyAssumption DEF BudgetInv, BudgetHeld
<1>. QED
  BY <1>1, <1>2, <1>3, PTL DEF QualifySpec

-----------------------------------------------------------------------------
(* SessionGate: what its log and its receipt are made of.                  *)
Sessions == {"ses", "anon", "none", "chat"}
LogLines == [session: Sessions, reused: BOOLEAN]

SessionTypes ==
  /\ phase \in {"check", "ask", "wait", "judge", "publish", "verdict", "exited"}
  /\ turn \in 1 .. Len(Requests)
  /\ sid \in {"ses", "none"}
  /\ unread \in Seq(LogLines)
  /\ coming \in Seq(LogLines)
  /\ taken \in Seq(SUBSET Sessions)

Taken  == UNION {taken[k] : k \in DOMAIN taken}
Window == {unread[k].session : k \in DOMAIN unread}

(* While A4 looks, a line that landed is in a window already read or waits  *)
(* for the next one; after it, the windows hold all that landed.            *)
WindowsHoldAll ==
  /\ turn = 1 => taken = <<>>
  /\ turn = 2 => Len(taken) = 1
  /\ turn <= 2 => landed = Taken \cup Window
  /\ turn > 2 => landed = Taken

(* The phases of A4's end come after its two turns, and a receipt that      *)
(* waits to be renamed says PASS of the windows that A4 read.               *)
ReceiptAside ==
  /\ phase \in {"judge", "publish", "verdict"} => turn > 2
  /\ phase = "check" => unread = <<>> /\ turn = 1
  /\ phase = "publish" /\ pending.pass => A4Pass

SessionInv == SessionTypes /\ WindowsHoldAll /\ ReceiptAside

LEMMA RequestsAre ==
  /\ Len(Requests) \in Nat /\ Len(Requests) >= 5
  /\ \A t \in 1 .. Len(Requests) : /\ Requests[t] \in {"A4", "A6", "A5"}
                                   /\ Requests[t] = "A4" <=> t <= 2
<1>. DEFINE opencode == <<"A4", "A4", "A6", "A6", "A6">>
            chats    == IF SkipOwui THEN <<>> ELSE <<"A5", "A5">>
            Legs     == {"A4", "A6", "A5"}
<1>0. SkipOwui \in BOOLEAN
  BY SessionAssumption
<1>1. opencode \in Seq(Legs) /\ chats \in Seq(Legs)
  <2>1. opencode \in Seq(Legs)
    OBVIOUS
  <2>2. <<>> \in Seq(Legs)
    OBVIOUS
  <2>3. <<"A5", "A5">> \in Seq(Legs)
    OBVIOUS
  <2>. QED
    BY <2>1, <2>2, <2>3
<1>2. Len(opencode) = 5 /\ (Len(chats) = 0 \/ Len(chats) = 2)
  BY <1>0
<1>3. /\ opencode[1] = "A4" /\ opencode[2] = "A4" /\ opencode[3] = "A6" /\ opencode[4] = "A6"
      /\ opencode[5] = "A6"
  OBVIOUS
<1>4. \A t \in 1 .. Len(chats) : chats[t] = "A5"
  BY <1>0
<1>5. Requests = opencode \o chats
  BY DEF Requests
<1>. HIDE DEF opencode, chats
<1>6. /\ Len(Requests) = 5 + Len(chats)
      /\ \A t \in 1 .. 5 + Len(chats) :
           Requests[t] = IF t <= 5 THEN opencode[t] ELSE chats[t - 5]
  <2>. HIDE DEF Legs
  <2>1. /\ Len(opencode \o chats) = Len(opencode) + Len(chats)
        /\ \A t \in 1 .. Len(opencode) + Len(chats) :
             (opencode \o chats)[t] = IF t <= Len(opencode) THEN opencode[t]
                                                            ELSE chats[t - Len(opencode)]
    BY <1>1, ConcatProperties
  <2>. QED
    BY <1>2, <1>5, <2>1
<1>7. Len(Requests) \in Nat /\ Len(Requests) >= 5
  <2>1. Len(Requests) = 5 + Len(chats)
    BY <1>6
  <2>2. CASE Len(chats) = 0
    BY <2>1, <2>2
  <2>3. CASE Len(chats) = 2
    BY <2>1, <2>3
  <2>. QED
    BY <1>2, <2>2, <2>3
<1>8. ASSUME NEW t \in 1 .. Len(Requests)
      PROVE  /\ Requests[t] \in Legs
             /\ Requests[t] = "A4" <=> t <= 2
  <2>1. CASE t <= 5
    <3>1. t \in {1, 2, 3, 4, 5}
      BY <2>1, <1>7
    <3>2. Requests[t] = opencode[t]
      BY <2>1, <1>6
    <3>. QED
      BY <3>1, <3>2, <1>3
  <2>2. CASE ~(t <= 5)
    <3>1. t - 5 \in 1 .. Len(chats) /\ Requests[t] = chats[t - 5]
      BY <2>2, <1>2, <1>6
    <3>2. Requests[t] = "A5"
      BY <3>1, <1>4
    <3>. QED
      BY <2>2, <3>2
  <2>. QED
    BY <2>1, <2>2
<1>. QED
  BY <1>7, <1>8

LEMMA InitSession == SessionInit => SessionInv
<1>. SUFFICES ASSUME SessionInit PROVE SessionInv
  OBVIOUS
<1>1. Taken = {} /\ Window = {}
  BY DEF SessionInit, Taken, Window
<1>2. SessionTypes
  BY RequestsAre DEF SessionInit, SessionTypes
<1>. QED
  BY <1>1, <1>2 DEF SessionInit, SessionInv, WindowsHoldAll, ReceiptAside

LEMMA TakenGrows ==
  ASSUME taken \in Seq(SUBSET Sessions), NEW w, taken' = Append(taken, w)
  PROVE  Taken' = Taken \cup w
<1>1. /\ DOMAIN taken' = DOMAIN taken \cup {Len(taken) + 1}
      /\ \A k \in DOMAIN taken : k # Len(taken) + 1 /\ taken'[k] = taken[k]
      /\ taken'[Len(taken) + 1] = w
  OBVIOUS
<1>. QED
  BY <1>1 DEF Taken

LEMMA WindowGrows ==
  ASSUME unread \in Seq(LogLines), NEW l \in LogLines, unread' = Append(unread, l)
  PROVE  Window' = Window \cup {l.session} /\ unread' \in Seq(LogLines)
<1>1. /\ DOMAIN unread' = DOMAIN unread \cup {Len(unread) + 1}
      /\ \A k \in DOMAIN unread : k # Len(unread) + 1 /\ unread'[k] = unread[k]
      /\ unread'[Len(unread) + 1] = l
      /\ unread' \in Seq(LogLines)
  OBVIOUS
<1>. QED
  BY <1>1 DEF Window

LEMMA LinesAreTyped == SessionTypes => Line \subseteq LogLines
<1>1. SessionTypes => Leg \in {"A4", "A6", "A5"}
  BY RequestsAre DEF SessionTypes, Leg
<1>2. ASSUME SessionTypes PROVE SessionsOf(Leg) \subseteq Sessions
  BY <1>1, <1>2 DEF SessionsOf, Sessions
<1>. QED
  BY <1>2 DEF Line, LogLines

(* Who takes a line into the window: only the stack, and the session of the *)
(* line goes to `landed' as long as A4 looks.                               *)
LEMMA LandsKeeps ==
  ASSUME SessionInv, phase \in {"ask", "wait", "judge", "publish"}, NEW l \in LogLines, Lands(l),
         coming' \in Seq(LogLines)
  PROVE  SessionInv'
<1>1. Window' = Window \cup {l.session} /\ unread' \in Seq(LogLines)
  BY WindowGrows DEF Lands, SessionInv, SessionTypes
<1>2. Taken' = Taken
  BY DEF Lands, Taken
<1>3. SessionTypes'
  BY <1>1 DEF Lands, SessionInv, SessionTypes
<1>4. WindowsHoldAll'
  BY <1>1, <1>2 DEF Lands, SessionInv, SessionTypes, WindowsHoldAll
<1>5. ReceiptAside'
  BY DEF Lands, SessionInv, ReceiptAside, A4Pass
<1>. QED
  BY <1>3, <1>4, <1>5 DEF SessionInv

LEMMA NextSession ==
  ASSUME SessionInv, [SessionNext]_sessionVars
  PROVE  SessionInv'
<1>. USE DEF SessionInv
<1>0. /\ turn \in 1 .. Len(Requests) /\ turn \in Nat
      /\ Len(Requests) \in Nat /\ Len(Requests) >= 5
      /\ Leg = "A4" <=> turn <= 2
      /\ <<>> \in Seq(LogLines)
  BY RequestsAre DEF SessionTypes, Leg
<1>1. CASE CheckServed
  <2>1. Window' = Window /\ Taken' = Taken
    BY <1>1 DEF CheckServed, ReceiptAside, Window, Taken
  <2>. QED
    BY <1>0, <1>1, <2>1 DEF CheckServed, SessionTypes, WindowsHoldAll, ReceiptAside
<1>2. CASE Ask
  <2>1. PICK l \in Line : coming' = Append(coming, l)
    BY <1>2 DEF Ask
  <2>2. coming' \in Seq(LogLines)
    BY <2>1, LinesAreTyped DEF SessionTypes
  <2>3. /\ Taken' = Taken
        /\ turn <= 2 => Window' = Window
    BY <1>0, <1>2 DEF Ask, Taken, Window
  <2>. QED
    BY <1>0, <1>2, <2>2, <2>3 DEF Ask, SessionTypes, WindowsHoldAll, ReceiptAside
<1>3. CASE AskMore
  <2>1. PICK l \in Line : coming' = Append(coming, l)
    BY <1>3 DEF AskMore
  <2>2. coming' \in Seq(LogLines)
    BY <2>1, LinesAreTyped DEF SessionTypes
  <2>3. Taken' = Taken /\ Window' = Window
    BY <1>3 DEF AskMore, Taken, Window
  <2>. QED
    BY <1>0, <1>3, <2>2, <2>3 DEF AskMore, SessionTypes, WindowsHoldAll, ReceiptAside
<1>4. CASE TakeA4
  <2>1. turn \in {1, 2} /\ taken' = Append(taken, Window) /\ unread' = <<>> /\ landed' = landed
    BY <1>0, <1>4 DEF TakeA4, Window
  <2>2. Window \subseteq Sessions
    <3>1. \A k \in DOMAIN unread : unread[k] \in LogLines
      BY DEF SessionTypes
    <3>. QED
      BY <3>1 DEF Window, LogLines
  <2>3. Taken' = Taken \cup Window /\ taken' \in Seq(SUBSET Sessions) /\ Len(taken') = Len(taken) + 1
    BY <2>1, <2>2, TakenGrows DEF SessionTypes
  <2>4. Window' = {}
    BY <2>1 DEF Window
  <2>5. \/ phase' = "ask" /\ turn' = 2 /\ turn = 1
        \/ phase' = "judge" /\ turn' = 3
    BY <1>4 DEF TakeA4
  <2>6. SessionTypes'
    <3>1. sid' \in {"ses", "none"}
      BY <1>4 DEF TakeA4, SessionTypes
    <3>2. turn' \in 1 .. Len(Requests)
      <4>1. Len(Requests) \in Nat /\ Len(Requests) >= 5
        BY RequestsAre
      <4>2. turn' \in {2, 3}
        BY <2>5
      <4>. QED
        BY <4>1, <4>2
    <3>3. coming' \in Seq(LogLines)
      BY <1>4 DEF TakeA4, SessionTypes
    <3>. QED
      BY <1>0, <2>1, <2>3, <2>5, <3>1, <3>2, <3>3 DEF SessionTypes
  <2>7. WindowsHoldAll'
    <3>1. turn = 1 => Len(taken) = 0
      BY DEF WindowsHoldAll
    <3>. QED
      BY <1>0, <2>1, <2>3, <2>4, <2>5, <3>1 DEF WindowsHoldAll
  <2>8. ReceiptAside'
    BY <2>5 DEF ReceiptAside
  <2>. QED
    BY <2>6, <2>7, <2>8
<1>5. CASE JudgeA4
  <2>1. Window' = Window /\ Taken' = Taken
    BY <1>5 DEF JudgeA4, Window, Taken
  <2>2. A4Pass' <=> A4Pass
    BY <1>5 DEF JudgeA4, A4Pass
  <2>3. pending'.pass => A4Pass
    BY <1>5 DEF JudgeA4
  <2>. QED
    BY <1>5, <2>1, <2>2, <2>3 DEF JudgeA4, SessionTypes, WindowsHoldAll, ReceiptAside
<1>6. CASE PublishA4 \/ Verdict \/ Raises \/ ConfigDrifts
  <2>1. Window' = Window /\ Taken' = Taken /\ (A4Pass' <=> A4Pass)
    BY <1>6 DEF PublishA4, Verdict, Raises, ConfigDrifts, Window, Taken, A4Pass
  <2>2. phase' \in {phase, "ask", "exited"} /\ UNCHANGED <<turn, sid, unread, coming, taken, pending, landed>>
    BY <1>6 DEF PublishA4, Verdict, Raises, ConfigDrifts
  <2>. QED
    BY <2>1, <2>2 DEF SessionTypes, WindowsHoldAll, ReceiptAside
<1>7. CASE TakeBareOrChat
  <2>1. turn > 2 /\ Taken' = Taken /\ unread' = <<>> /\ UNCHANGED <<sid, coming, taken, landed>>
    BY <1>0, <1>7 DEF TakeBareOrChat, Taken
  <2>2. \/ phase' = "verdict" /\ turn' = turn
        \/ phase' = "ask" /\ turn' = turn + 1 /\ turn # Len(Requests)
    BY <1>7 DEF TakeBareOrChat
  <2>3. turn' \in 1 .. Len(Requests) /\ turn' > 2
    BY <1>0, <2>1, <2>2
  <2>. QED
    BY <1>0, <2>1, <2>2, <2>3 DEF SessionTypes, WindowsHoldAll, ReceiptAside
<1>8. CASE LineLands
  <2>1. Head(coming) \in LogLines /\ Tail(coming) \in Seq(LogLines)
    BY <1>8, HeadTailProperties DEF LineLands, SessionTypes
  <2>. QED
    BY <1>8, <2>1, LandsKeeps DEF LineLands
<1>9. CASE OtherClient
  <2>1. [session |-> "anon", reused |-> TRUE] \in LogLines
    BY DEF LogLines, Sessions
  <2>2. coming' \in Seq(LogLines)
    BY <1>9 DEF OtherClient, SessionTypes
  <2>. QED
    BY <1>9, <2>1, <2>2, LandsKeeps DEF OtherClient
<1>10. CASE UNCHANGED sessionVars
  <2>1. Window' = Window /\ Taken' = Taken /\ (A4Pass' <=> A4Pass)
    BY <1>10 DEF sessionVars, Window, Taken, A4Pass
  <2>. QED
    BY <1>10, <2>1 DEF sessionVars, SessionTypes, WindowsHoldAll, ReceiptAside
<1>. QED
  BY <1>1, <1>2, <1>3, <1>4, <1>5, <1>6, <1>7, <1>8, <1>9, <1>10 DEF SessionNext

(* What A4 passes: two windows of the session of the run alone, and, since  *)
(* the windows hold all that landed, nothing else in the log.               *)
LEMMA PassIsEarned ==
  ASSUME SessionInv, A4Pass, turn > 2
  PROVE  landed = {"ses"} /\ taken = <<{"ses"}, {"ses"}>>
<1>1. /\ taken \in Seq(SUBSET Sessions) /\ Len(taken) = 2
      /\ taken[1] = {"ses"} /\ taken[2] = {"ses"}
  BY DEF A4Pass, SessionInv, SessionTypes
<1>2. DOMAIN taken = {1, 2}
  BY <1>1
<1>3. taken = <<{"ses"}, {"ses"}>>
  BY <1>1
<1>4. Taken = {"ses"}
  BY <1>1, <1>2 DEF Taken
<1>. QED
  BY <1>3, <1>4 DEF SessionInv, WindowsHoldAll

LEMMA PublishIsEarned ==
  ASSUME SessionInv, [SessionNext]_sessionVars, latest' # latest, latest'.pass
  PROVE  landed = {"ses"} /\ taken = <<{"ses"}, {"ses"}>>
<1>1. PublishA4
  BY DEF SessionNext, sessionVars, CheckServed, Ask, AskMore, TakeA4, JudgeA4, TakeBareOrChat,
         Verdict, Raises, LineLands, OtherClient, Lands, ConfigDrifts
<1>2. A4Pass /\ turn > 2
  BY <1>1 DEF PublishA4, SessionInv, ReceiptAside
<1>. QED
  BY <1>2, PassIsEarned

(* A receipt that a run publishes as PASS was earned: every line that       *)
(* landed from the first turn to A4's last read was of the session of the   *)
(* run, and each turn left one, however late the lines of the first turn    *)
(* came and whoever else wrote to the log (session_pinning_gate.py:181).    *)
THEOREM PublishedReceiptIsEarned == SessionSpec => ReceiptIsEarned
<1>1. SessionInit => SessionInv
  BY InitSession
<1>2. SessionInv /\ [SessionNext]_sessionVars => SessionInv'
  BY NextSession
<1>3. SessionInv /\ [SessionNext]_sessionVars
        => (latest' # latest /\ latest'.pass => landed = {"ses"} /\ taken = <<{"ses"}, {"ses"}>>)
  BY PublishIsEarned
<1>. QED
  BY <1>1, <1>2, <1>3, PTL DEF SessionSpec, ReceiptIsEarned

-----------------------------------------------------------------------------
(* E2EGate: the lesser of two, which is how the server's clamp is written.  *)
LEMMA MinOfTwo ==
  ASSUME NEW a \in Int, NEW b \in Int
  PROVE  Min({a, b}) = IF a <= b THEN a ELSE b
<1>. DEFINE least == IF a <= b THEN a ELSE b
<1>1. least \in {a, b} /\ \A y \in {a, b} : least <= y
  OBVIOUS
<1>2. \A x \in {a, b} : (\A y \in {a, b} : x <= y) => x = least
  OBVIOUS
<1>. HIDE DEF least
<1>3. Min({a, b}) = least
  BY <1>1, <1>2 DEF Min
<1>. QED
  BY <1>3 DEF least

(* A round that converged stayed below the clamp as the documentation of    *)
(* the gate states it: where the prompt leaves no room nothing converges.   *)
LEMMA ConvergedIsBelowClamp ==
  ASSUME NEW r \in Rounds, Converged(r)
  PROVE  /\ r.status = 200
         /\ r.completion < Min({ThinkingBudget, (Min({MaxTokens, Cap - r.prompt}) * 8) \div 10})
<1>0. r.completion \in Nat /\ r.prompt \in Nat /\ ThinkingBudget \in Nat /\ Cap \in Nat
  BY GateAssumption
<1>1. CASE Cap > r.prompt
  BY <1>1 DEF Converged, ResolvedBudget
<1>2. CASE ~(Cap > r.prompt)
  <2>1. ResolvedBudget(r.prompt) = Min({ThinkingBudget, (0 * 8) \div 10})
    BY <1>2 DEF ResolvedBudget
  <2>2. (0 * 8) \div 10 = 0
    OBVIOUS
  <2>3. ResolvedBudget(r.prompt) = 0
    BY <1>0, <2>1, <2>2, MinOfTwo
  <2>. QED
    BY <1>0, <2>3 DEF Converged
<1>. QED
  BY <1>1, <1>2

LogOf == [chat : Queries \cup {0}, round : Rounds]
GradedRows == [item : Queries, from : Nat, to : Nat, pass : BOOLEAN]

GateTypes ==
  /\ items \in Seq(Queries)
  /\ DOMAIN chat = Queries
  /\ routerLog \in Seq(LogOf)
  /\ late \subseteq LogOf
  /\ offset \in 0 .. Len(routerLog)
  /\ rows \in Seq(GradedRows)
  /\ exported \in Seq(GradedRows)

(* The rows in the file are of the items in order.  The gate has the same,  *)
(* but for one that is in the file and not yet appended.                    *)
Level == {"selftest", "fingerprint", "next", "complete", "poll", "read", "finally0"}

RowsOfItems ==
  /\ Len(rows) <= Len(exported) /\ Len(exported) <= Len(items)
  /\ gate \in {"selftest", "fingerprint"} => exported = <<>>
  /\ gate \in {"complete", "poll", "read"} => Len(rows) < Len(items)
  /\ gate \in Level => Len(exported) = Len(rows)
  /\ gate = "append" => Len(exported) = Len(rows) + 1
  /\ \A k \in DOMAIN rows : rows[k] = exported[k]
  /\ \A k \in DOMAIN exported : exported[k].item = items[k]

(* A line read is in the window of a row, which passes only if it converged. *)
LinesJudged ==
  /\ \A j \in 1 .. offset :
       exported # <<>> /\ j > exported[1].from
         => \E k \in DOMAIN exported : j \in exported[k].from + 1 .. exported[k].to
  /\ \A k \in DOMAIN exported :
       /\ exported[k].to <= offset
       /\ exported[k].pass =>
            \A j \in exported[k].from + 1 .. exported[k].to : Converged(routerLog[j].round)

Complete  == Len(rows) = Len(items)
AllPassed == Complete /\ rows # <<>> /\ \A k \in DOMAIN rows : rows[k].pass

(* What the end of the run knows: rc 0 without an exception is of a loop    *)
(* that graded every item, and its summary is of these rows.                *)
EndOfRun ==
  /\ gate = "finally0" => Complete
  /\ gate \in {"delete", "deleteRaising"} => summary.kind = "graded" /\ summary.rc = 0
  /\ gate \in {"delete", "leave"} /\ summary.rc = 0 /\ summary.pass => AllPassed
  /\ exit # "running" => gate = "exited"
  /\ exit = "0" => AllPassed

GateInv == GateTypes /\ RowsOfItems /\ LinesJudged /\ EndOfRun

LEMMA InitGate == GateInit => GateInv
<1>. SUFFICES ASSUME GateInit PROVE GateInv
  OBVIOUS
<1>1. items \in Seq(Queries)
  <2>1. Cardinality(Queries) \in Nat
    BY GateAssumption, FS_CardinalityType DEF Queries
  <2>2. items \in SeqOf(Queries, Cardinality(Queries))
    BY DEF GateInit, Selection
  <2>3. PICK m \in 0 .. Cardinality(Queries) : items \in [1 .. m -> Queries]
    BY <2>2 DEF SeqOf
  <2>. QED
    BY <2>1, <2>3
<1>2. GateTypes
  BY <1>1 DEF GateInit, GateTypes
<1>3. RowsOfItems /\ LinesJudged /\ EndOfRun
  BY <1>1 DEF GateInit, RowsOfItems, LinesJudged, EndOfRun
<1>. QED
  BY <1>2, <1>3 DEF GateInv

(* The steps of the gate that leave the log, its offset and the rows alone. *)
Aside == UNCHANGED <<items, routerLog, late, offset, rows, exported>>

LEMMA AsideKeepsRows ==
  ASSUME GateInv, Aside, DOMAIN chat' = Queries,
         gate' \in {"selftest", "fingerprint"} => gate \in {"selftest", "fingerprint"},
         gate' \in {"complete", "poll", "read"} => Len(rows) < Len(items),
         gate' \in Level => gate \in Level, gate' = "append" => gate = "append"
  PROVE  GateTypes' /\ RowsOfItems' /\ LinesJudged'
BY DEF Aside, GateInv, GateTypes, RowsOfItems, LinesJudged

LEMMA CurrentIsAQuery ==
  ASSUME GateTypes, Len(rows) < Len(items)
  PROVE  Current \in Queries
BY DEF GateTypes, Current

LEMMA RowsAreTyped ==
  ASSUME GateInv
  PROVE  \A k \in DOMAIN exported : exported[k].from \in Nat /\ exported[k].to \in Nat
<1>1. \A k \in DOMAIN exported : exported[k] \in GradedRows
  BY DEF GateInv, GateTypes
<1>. QED
  BY <1>1 DEF GradedRows

(* A line lands.                                                           *)
LEMMA LogGrows ==
  ASSUME GateInv, NEW line \in LogOf, routerLog' = Append(routerLog, line),
         late' \subseteq LogOf,
         UNCHANGED <<gate, items, chat, offset, rows, exported, summary, exit>>
  PROVE  GateInv'
<1>. USE DEF GateInv
<1>1. /\ routerLog' \in Seq(LogOf) /\ Len(routerLog') = Len(routerLog) + 1
      /\ \A j \in 1 .. Len(routerLog) : routerLog'[j] = routerLog[j]
  BY DEF GateTypes
<1>2. GateTypes'
  BY <1>1 DEF GateTypes
<1>3. \A k \in DOMAIN exported : \A j \in exported[k].from + 1 .. exported[k].to : j \in 1 .. Len(routerLog)
  <2>. SUFFICES ASSUME NEW k \in DOMAIN exported, NEW j \in exported[k].from + 1 .. exported[k].to
                PROVE  j \in 1 .. Len(routerLog)
    OBVIOUS
  <2>1. exported[k].from \in Nat /\ exported[k].to \in Nat
    BY RowsAreTyped
  <2>2. exported[k].to <= offset /\ offset <= Len(routerLog)
    BY DEF GateTypes, LinesJudged
  <2>. QED
    BY <2>1, <2>2 DEF GateTypes
<1>4. LinesJudged'
  BY <1>1, <1>3 DEF LinesJudged
<1>. QED
  BY <1>2, <1>4 DEF RowsOfItems, EndOfRun, Complete, AllPassed

(* A row that passes judged its whole window of the log.                    *)
LEMMA WindowConverged ==
  ASSUME routerLog \in Seq(LogOf), offset \in 0 .. Len(routerLog),
         NEW msg, Passes(msg, RouterRounds)
  PROVE  \A j \in offset + 1 .. Len(routerLog) : Converged(routerLog[j].round)
<1>. DEFINE window == SubSeq(routerLog, offset + 1, Len(routerLog))
<1>1. \A i \in offset + 1 .. Len(routerLog) : routerLog[i] \in LogOf
  OBVIOUS
<1>2. /\ window \in Seq(LogOf)
      /\ Len(window) = IF offset + 1 <= Len(routerLog) THEN Len(routerLog) - (offset + 1) + 1 ELSE 0
      /\ \A i \in 1 .. Len(routerLog) - (offset + 1) + 1 : window[i] = routerLog[offset + 1 + i - 1]
  <2>. HIDE DEF window
  <2>1. offset + 1 \in Int /\ Len(routerLog) \in Int
    OBVIOUS
  <2>. QED
    BY <1>1, <2>1, SubSeqProperties DEF window
<1>. HIDE DEF window
<1>3. RouterRounds = [k \in DOMAIN window |-> window[k].round]
  BY DEF RouterRounds, window
<1>4. \A k \in DOMAIN window : Converged(window[k].round)
  BY <1>3 DEF Passes
<1>5. ASSUME NEW j \in offset + 1 .. Len(routerLog) PROVE Converged(routerLog[j].round)
  <2>1. j - offset \in 1 .. Len(routerLog) - (offset + 1) + 1 /\ offset + 1 + (j - offset) - 1 = j
    OBVIOUS
  <2>2. j - offset \in DOMAIN window /\ window[j - offset] = routerLog[j]
    BY <1>2, <2>1
  <2>. QED
    BY <1>4, <2>2
<1>. QED
  BY <1>5

LEMMA NextGate ==
  ASSUME GateInv, [GateNext]_gateVars
  PROVE  GateInv'
<1>. USE DEF GateInv
<1>1. CASE SelfTest
  <2>1. /\ Aside /\ chat' = chat /\ gate = "selftest" /\ gate' \in {"fingerprint", "exited"}
        /\ exit' # "0"
        /\ exit' # "running" => gate' = "exited"
    BY <1>1 DEF SelfTest, Aside, EndOfRun
  <2>2. GateTypes' /\ RowsOfItems' /\ LinesJudged'
    BY <2>1, AsideKeepsRows DEF GateTypes, Level
  <2>. QED
    BY <1>1, <2>1, <2>2 DEF SelfTest, EndOfRun
<1>2. CASE Fingerprint
  <2>1. rows = <<>> /\ rows' = rows /\ offset' \in 0 .. Len(routerLog)
    BY <1>2 DEF Fingerprint, RowsOfItems, GateTypes
  <2>2. GateTypes' /\ RowsOfItems' /\ LinesJudged'
    BY <1>2, <2>1 DEF Fingerprint, GateTypes, RowsOfItems, LinesJudged
  <2>. QED
    BY <1>2, <2>2 DEF Fingerprint, EndOfRun
<1>3. CASE CreateChat
  <2>1. Aside /\ DOMAIN chat' = Queries /\ gate = "next" /\ gate' = "complete"
        /\ exit' = exit /\ Len(rows) < Len(items)
    BY <1>3 DEF CreateChat, Aside, GateTypes
  <2>2. GateTypes' /\ RowsOfItems' /\ LinesJudged'
    BY <2>1, AsideKeepsRows DEF Level
  <2>. QED
    BY <2>1, <2>2 DEF EndOfRun
<1>4. CASE AskCompletion \/ PollDone \/ Wedged \/ ClockPasses
  <2>1. /\ Aside /\ DOMAIN chat' = Queries /\ exit' = exit
        /\ gate \in {"complete", "poll"} /\ gate' \in {"poll", "read", "finally3"}
    BY <1>4 DEF AskCompletion, PollDone, Wedged, ClockPasses, Aside, GateTypes
  <2>2. GateTypes' /\ RowsOfItems' /\ LinesJudged'
    BY <2>1, AsideKeepsRows DEF RowsOfItems, Level
  <2>. QED
    BY <2>1, <2>2 DEF EndOfRun
<1>5. CASE GradeAndExport
  <2>. DEFINE row == [item |-> Current, from |-> offset, to |-> Len(routerLog),
                      pass |-> Passes(answer[Current], RouterRounds)]
              n   == Len(exported) + 1
  <2>0. n \in Nat /\ n <= Len(items) /\ Len(routerLog) \in Nat /\ offset \in Nat
        /\ Len(rows) + 1 = n
    BY <1>5 DEF GradeAndExport, GateTypes, RowsOfItems, Level
  <2>1. row \in GradedRows
    BY <1>5, <2>0, CurrentIsAQuery DEF GradeAndExport, GradedRows, GateTypes, RowsOfItems, Passes
  <2>2. /\ exported' = Append(exported, row) /\ offset' = Len(routerLog) /\ gate' = "append"
        /\ gate = "read" /\ UNCHANGED <<items, chat, routerLog, late, rows, summary, exit>>
    BY <1>5 DEF GradeAndExport
  <2>3. row.item = items[n] /\ row.item = Current /\ row.from = offset /\ row.to = Len(routerLog)
    BY <2>0 DEF Current
  <2>4. row.pass => \A j \in offset + 1 .. Len(routerLog) : Converged(routerLog[j].round)
    BY <2>0, WindowConverged DEF GateTypes
  <2>. HIDE DEF row
  <2>5. /\ exported' \in Seq(GradedRows) /\ Len(exported') = n
        /\ DOMAIN exported' = DOMAIN exported \cup {n}
        /\ \A k \in DOMAIN exported : k \in Nat /\ k # n /\ exported'[k] = exported[k]
        /\ exported'[n] = row
    BY <2>1, <2>2 DEF GateTypes
  <2>6. GateTypes'
    BY <2>0, <2>2, <2>5 DEF GateTypes
  <2>7. RowsOfItems'
    <3>1. \A k \in DOMAIN rows : k \in DOMAIN exported
      BY DEF RowsOfItems, GateTypes
    <3>2. \A k \in DOMAIN rows' : rows'[k] = exported'[k]
      BY <2>2, <2>5, <3>1 DEF RowsOfItems
    <3>3. \A k \in DOMAIN exported' : exported'[k].item = items'[k]
      BY <2>2, <2>3, <2>5 DEF RowsOfItems
    <3>. QED
      BY <2>0, <2>2, <2>5, <3>2, <3>3 DEF RowsOfItems, Level
  <2>8. LinesJudged'
    <3>1. ASSUME NEW k \in DOMAIN exported'
          PROVE  /\ exported'[k].to <= offset'
                 /\ exported'[k].pass =>
                      \A j \in exported'[k].from + 1 .. exported'[k].to : Converged(routerLog'[j].round)
      <4>1. CASE k = n
        BY <2>0, <2>2, <2>3, <2>4, <2>5, <4>1
      <4>2. CASE k \in DOMAIN exported
        <5>1. exported'[k] = exported[k] /\ exported[k].to \in Nat /\ exported[k].to <= offset /\ offset <= Len(routerLog)
          BY <2>5, <4>2, RowsAreTyped DEF LinesJudged, GateTypes
        <5>. QED
          BY <2>0, <2>2, <4>2, <5>1 DEF LinesJudged
      <4>. QED
        BY <2>5, <3>1, <4>1, <4>2
    <3>2. ASSUME NEW j \in 1 .. offset', j > exported'[1].from
          PROVE  \E k \in DOMAIN exported' : j \in exported'[k].from + 1 .. exported'[k].to
      <4>1. CASE j > offset
        <5>1. j \in exported'[n].from + 1 .. exported'[n].to
          BY <2>0, <2>2, <2>3, <2>5, <4>1
        <5>. QED
          BY <2>5, <5>1
      <4>2. CASE ~(j > offset)
        <5>1. exported # <<>>
          BY <2>0, <2>2, <2>3, <2>5, <3>2, <4>2
        <5>2. 1 \in DOMAIN exported
          BY <5>1 DEF GateTypes
        <5>3. j \in 1 .. offset /\ j > exported[1].from
          BY <2>0, <2>5, <3>2, <4>2, <5>2
        <5>4. PICK k \in DOMAIN exported : j \in exported[k].from + 1 .. exported[k].to
          BY <5>1, <5>3 DEF LinesJudged
        <5>. QED
          BY <2>5, <5>4
      <4>. QED
        BY <4>1, <4>2
    <3>. QED
      BY <3>1, <3>2 DEF LinesJudged
  <2>9. EndOfRun'
    BY <2>2 DEF EndOfRun
  <2>. QED
    BY <2>6, <2>7, <2>8, <2>9
<1>16. CASE AppendRow
  <2>1. /\ UNCHANGED <<items, chat, routerLog, late, offset, exported, summary, exit>>
        /\ gate = "append" /\ gate' = "next" /\ rows' = Append(rows, Last(exported))
    BY <1>16 DEF AppendRow
  <2>2. /\ Len(exported) = Len(rows) + 1 /\ Len(rows) \in Nat
        /\ exported[Len(exported)] \in GradedRows
    BY <2>1 DEF RowsOfItems, GateTypes
  <2>3. Last(exported) = exported[Len(rows) + 1]
    BY <2>2 DEF Last
  <2>4. /\ rows' \in Seq(GradedRows) /\ Len(rows') = Len(rows) + 1
        /\ \A k \in DOMAIN rows' : rows'[k] = exported[k]
    BY <2>1, <2>2, <2>3 DEF GateTypes, RowsOfItems
  <2>5. GateTypes' /\ RowsOfItems' /\ LinesJudged'
    BY <2>1, <2>2, <2>4 DEF GateTypes, RowsOfItems, LinesJudged, Level
  <2>. QED
    BY <2>1, <2>5 DEF EndOfRun
<1>6. CASE AllGraded
  <2>1. /\ Aside /\ chat' = chat /\ exit' = exit /\ gate = "next" /\ gate' = "finally0"
        /\ Len(rows) = Len(items)
    BY <1>6 DEF AllGraded, Aside
  <2>2. GateTypes' /\ RowsOfItems' /\ LinesJudged'
    BY <2>1, AsideKeepsRows DEF GateTypes, Level
  <2>. QED
    BY <2>1, <2>2 DEF EndOfRun, Complete, Aside
<1>7. CASE CallFails
  <2>1. /\ Aside /\ chat' = chat /\ exit' = exit /\ gate # "exited"
        /\ gate' \in {"finally3", "raising"}
    BY <1>7 DEF CallFails, Aside
  <2>2. GateTypes' /\ RowsOfItems' /\ LinesJudged'
    BY <2>1, AsideKeepsRows DEF GateTypes, Level
  <2>. QED
    BY <2>1, <2>2 DEF EndOfRun
<1>8. CASE WriteSummary
  <2>1. /\ Aside /\ chat' = chat /\ exit' = exit
        /\ gate \in {"finally0", "finally3", "raising"}
        /\ gate' \in {"delete", "deleteRaising", "leave", "leaveRaising"}
        /\ gate' = "delete" => gate = "finally0"
        /\ gate' = "deleteRaising" => gate = "raising"
        /\ gate' = "leave" => gate \in {"finally0", "finally3"}
    BY <1>8 DEF WriteSummary, Aside
  <2>2. /\ summary'.kind = "graded"
        /\ summary'.rc = IF gate = "finally3" THEN 3 ELSE 0
        /\ summary'.pass => rows # <<>> /\ \A k \in DOMAIN rows : rows[k].pass
    BY <1>8 DEF WriteSummary, Summarize
  <2>3. gate = "finally0" /\ summary'.pass => AllPassed'
    BY <2>1, <2>2 DEF AllPassed, Complete, EndOfRun, Aside
  <2>4. EndOfRun'
    BY <2>1, <2>2, <2>3 DEF EndOfRun
  <2>5. GateTypes' /\ RowsOfItems' /\ LinesJudged'
    BY <2>1, AsideKeepsRows DEF GateTypes, Level
  <2>. QED
    BY <2>4, <2>5
<1>9. CASE DeleteChat \/ CleanupEnds
  <2>1. /\ Aside /\ DOMAIN chat' = Queries /\ exit' = exit /\ summary' = summary
        /\ gate \in {"delete", "deleteRaising"}
        /\ gate' \in {"delete", "deleteRaising", "leave", "leaveRaising"}
        /\ gate' \in {"delete", "deleteRaising"} => gate' = gate
        /\ gate' = "leave" => gate = "delete"
    BY <1>9 DEF DeleteChat, CleanupEnds, Aside, GateTypes
  <2>2. AllPassed' <=> AllPassed
    BY <2>1 DEF AllPassed, Complete, Aside
  <2>3. EndOfRun'
    BY <2>1, <2>2 DEF EndOfRun
  <2>4. GateTypes' /\ RowsOfItems' /\ LinesJudged'
    BY <2>1, AsideKeepsRows DEF Level
  <2>. QED
    BY <2>3, <2>4
<1>10. CASE Leaves
  <2>1. /\ Aside /\ chat' = chat /\ gate' = "exited" /\ summary' = summary
        /\ exit' = "0" => gate = "leave" /\ summary.rc = 0 /\ summary.pass
    BY <1>10 DEF Leaves, Aside
  <2>2. AllPassed' <=> AllPassed
    BY <2>1 DEF AllPassed, Complete, Aside
  <2>3. GateTypes' /\ RowsOfItems' /\ LinesJudged'
    BY <2>1, AsideKeepsRows DEF GateTypes, Level
  <2>. QED
    BY <2>1, <2>2, <2>3 DEF EndOfRun
<1>11. ASSUME NEW q \in Queries, AnswerPersisted(q) PROVE GateInv'
  <2>1. /\ Aside /\ DOMAIN chat' = Queries /\ UNCHANGED <<gate, summary, exit>>
    BY <1>11 DEF AnswerPersisted, Aside, GateTypes
  <2>2. AllPassed' <=> AllPassed
    BY <2>1 DEF AllPassed, Complete, Aside
  <2>. QED
    BY <2>1, <2>2, AsideKeepsRows DEF RowsOfItems, EndOfRun, Complete, Aside
<1>12. ASSUME NEW q \in Queries, RoundEnds(q) PROVE GateInv'
  <2>1. PICK r \in Rounds : LET line == [chat |-> q, round |-> r]
                            IN  \/ routerLog' = Append(routerLog, line) /\ UNCHANGED late
                                \/ late' = late \cup {line} /\ UNCHANGED routerLog
    BY <1>12 DEF RoundEnds
  <2>2. [chat |-> q, round |-> r] \in LogOf
    BY DEF LogOf
  <2>3. UNCHANGED <<gate, items, chat, offset, rows, exported, summary, exit>>
    BY <1>12 DEF RoundEnds
  <2>4. CASE routerLog' = Append(routerLog, [chat |-> q, round |-> r]) /\ UNCHANGED late
    <3>1. late' \subseteq LogOf
      BY <2>4 DEF GateTypes
    <3>. QED
      BY <2>2, <2>3, <2>4, <3>1, LogGrows
  <2>5. CASE late' = late \cup {[chat |-> q, round |-> r]} /\ UNCHANGED routerLog
    BY <2>2, <2>3, <2>5 DEF GateTypes, RowsOfItems, LinesJudged, EndOfRun, Complete, AllPassed
  <2>. QED
    BY <2>1, <2>4, <2>5
<1>13. CASE LateLine
  <2>1. PICK line \in late : routerLog' = Append(routerLog, line) /\ late' = late \ {line}
    BY <1>13 DEF LateLine
  <2>2. line \in LogOf /\ late' \subseteq LogOf
    BY <2>1 DEF GateTypes
  <2>. QED
    BY <1>13, <2>1, <2>2, LogGrows DEF LateLine
<1>14. CASE ForeignRound
  <2>1. PICK r \in Rounds : routerLog' = Append(routerLog, [chat |-> 0, round |-> r])
    BY <1>14 DEF ForeignRound
  <2>2. [chat |-> 0, round |-> r] \in LogOf
    BY DEF LogOf
  <2>3. late' \subseteq LogOf
    BY <1>14 DEF ForeignRound, GateTypes
  <2>. QED
    BY <1>14, <2>1, <2>2, <2>3, LogGrows DEF ForeignRound
<1>15. CASE UNCHANGED gateVars
  BY <1>15 DEF gateVars, GateTypes, RowsOfItems, LinesJudged, EndOfRun, Complete, AllPassed
<1>. QED
  BY <1>1, <1>2, <1>3, <1>4, <1>5, <1>6, <1>7, <1>8, <1>9, <1>10, <1>11, <1>12, <1>13, <1>14, <1>15, <1>16
     DEF GateNext, GateStep

LEMMA GateInvImplies == GateInv => ExitZeroIsEveryItem
<1>. SUFFICES ASSUME GateInv, exit = "0" PROVE ExitZeroIsEveryItem
  BY DEF ExitZeroIsEveryItem
<1>1. AllPassed
  BY DEF GateInv, EndOfRun
<1>2. /\ DOMAIN rows = DOMAIN items /\ DOMAIN exported = DOMAIN items /\ 1 \in DOMAIN rows
      /\ \A k \in DOMAIN rows : rows[k] = exported[k]
  BY <1>1 DEF GateInv, GateTypes, AllPassed, Complete, RowsOfItems
<1>4. [k \in DOMAIN rows |-> rows[k].item] = items
  <2>1. items = [k \in DOMAIN items |-> items[k]]
    BY DEF GateInv, GateTypes
  <2>. QED
    BY <1>2, <2>1 DEF GateInv, RowsOfItems
<1>3. ASSUME NEW j \in (rows[1].from + 1) .. offset
      PROVE  /\ routerLog[j].round.status = 200
             /\ routerLog[j].round.completion <
                  Min({ThinkingBudget, (Min({MaxTokens, Cap - routerLog[j].round.prompt}) * 8) \div 10})
  <2>1. rows[1] = exported[1] /\ 1 \in DOMAIN exported /\ exported # <<>>
    BY <1>2
  <2>2. rows[1].from \in Nat /\ offset \in Nat /\ offset <= Len(routerLog) /\ Len(routerLog) \in Nat
    BY <2>1, RowsAreTyped DEF GateInv, GateTypes
  <2>3. j \in 1 .. offset /\ j > exported[1].from /\ j \in 1 .. Len(routerLog)
    BY <2>1, <2>2
  <2>4. PICK k \in DOMAIN exported : j \in exported[k].from + 1 .. exported[k].to
    BY <2>1, <2>3 DEF GateInv, LinesJudged
  <2>5. Converged(routerLog[j].round)
    <3>1. exported[k].pass
      BY <1>1, <1>2 DEF AllPassed
    <3>. QED
      BY <2>4, <3>1 DEF GateInv, LinesJudged
  <2>6. routerLog[j].round \in Rounds
    <3>1. routerLog[j] \in LogOf
      BY <2>3 DEF GateInv, GateTypes
    <3>. QED
      BY <3>1 DEF LogOf
  <2>. QED
    BY <2>5, <2>6, ConvergedIsBelowClamp
<1>. QED
  BY <1>1, <1>3, <1>4 DEF ExitZeroIsEveryItem, AllPassed

(* Exit status 0 is of a run that graded every selected item, passed each,  *)
(* and judged every router line from its start to its last read, the late   *)
(* ones and those of other clients too: all stayed below the clamp of the   *)
(* server (owui_e2e_gate.py:18, :26, :384), for any corpus, any answers and *)
(* any order of the log.                                                    *)
THEOREM ExitZeroHolds == GateSpec => []ExitZeroIsEveryItem
<1>1. GateInit => GateInv
  BY InitGate
<1>2. GateInv /\ [GateNext]_gateVars => GateInv'
  BY NextGate
<1>3. GateInv => ExitZeroIsEveryItem
  BY GateInvImplies
<1>. QED
  BY <1>1, <1>2, <1>3, PTL DEF GateSpec

LEMMA DeleteIsOfExported ==
  ASSUME GateInv, [GateNext]_gateVars,
         NEW q \in Queries, chat[q] # "deleted", chat'[q] = "deleted"
  PROVE  /\ \E k \in DOMAIN exported : exported[k].item = q
         /\ summary.kind = "graded" /\ summary.rc = 0
<1>1. CASE DeleteChat
  <2>1. PICK k \in DOMAIN rows : chat' = [chat EXCEPT ![rows[k].item] = "deleted"]
    BY <1>1 DEF DeleteChat
  <2>2. q = rows[k].item
    BY <2>1 DEF GateInv, GateTypes
  <2>3. k \in DOMAIN exported /\ exported[k] = rows[k]
    BY DEF GateInv, GateTypes, RowsOfItems
  <2>. QED
    BY <1>1, <2>2, <2>3 DEF DeleteChat, GateInv, EndOfRun
<1>2. CASE CreateChat
  BY <1>2 DEF CreateChat, GateInv, GateTypes
<1>3. CASE AskCompletion
  BY <1>3 DEF AskCompletion, GateInv, GateTypes
<1>4. ASSUME NEW p \in Queries, AnswerPersisted(p) PROVE FALSE
  BY <1>4 DEF AnswerPersisted, GateInv, GateTypes
<1>5. ASSUME chat' = chat PROVE FALSE
  BY <1>5
<1>6. chat' = chat \/ DeleteChat \/ CreateChat \/ AskCompletion \/ \E p \in Queries : AnswerPersisted(p)
  BY DEF GateNext, GateStep, gateVars, SelfTest, Fingerprint, PollDone, Wedged, GradeAndExport, AppendRow, AllGraded,
         CallFails, WriteSummary, CleanupEnds, Leaves, RoundEnds, LateLine, ForeignRound, ClockPasses
<1>. QED
  BY <1>1, <1>2, <1>3, <1>4, <1>5, <1>6

(* A chat of the gate is deleted only after its full export, whatever fails *)
(* between the two, and never by an aborted run: the summary is written,    *)
(* and its rc is 0, though the items that were asked need not all have been *)
(* graded (owui_e2e_gate.py:36, :379, :527).                                *)
THEOREM DeletedWasExportedHolds == GateSpec => DeletedWasExported
<1>1. GateInit => GateInv
  BY InitGate
<1>2. GateInv /\ [GateNext]_gateVars => GateInv'
  BY NextGate
<1>3. GateInv /\ [GateNext]_gateVars
        => \A q \in Queries : chat[q] # "deleted" /\ chat'[q] = "deleted"
                              => /\ \E k \in DOMAIN exported : exported[k].item = q
                                 /\ summary.kind = "graded" /\ summary.rc = 0
  BY DeleteIsOfExported
<1>. QED
  BY <1>1, <1>2, <1>3, PTL DEF GateSpec, DeletedWasExported

-----------------------------------------------------------------------------
(* SearxngQualify: the floor of the control, and its rate.                  *)
LEMMA FloorAndRate ==
  ASSUME NEW g \in Nat, NEW c \in Nat, g >= Max({1, (8 * c) \div 10})
  PROVE  g >= 1 /\ 5 * g + 4 >= 4 * c
<1>. DEFINE least == (8 * c) \div 10
<1>1. least \in Int /\ 10 * least <= 8 * c /\ 8 * c < 10 * least + 10
  OBVIOUS
<1>. HIDE DEF least
<1>2. \E x \in {1, least} : \A y \in {1, least} : x >= y
  <2>1. CASE least >= 1
    BY <1>1, <2>1
  <2>2. CASE ~(least >= 1)
    BY <1>1, <2>2
  <2>. QED
    BY <2>1, <2>2
<1>3. Max({1, least}) \in {1, least} /\ Max({1, least}) >= 1 /\ Max({1, least}) >= least
  BY <1>2 DEF Max
<1>4. g >= Max({1, least})
  BY DEF least
<1>5. g >= 1 /\ g >= least
  BY <1>1, <1>3, <1>4
<1>. QED
  BY <1>1, <1>5

(* The rows are a sequence that only searches extend, and a failed search   *)
(* counts no result; a verdict is of rows to which nothing is added.        *)
SearxngInv ==
  /\ \E S : answers \in Seq(S)
  /\ \A k \in DOMAIN answers : ~answers[k].ok => answers[k].n = 0
  /\ round # "measuring" => todo = <<>>
  /\ round = "valid" => Control = NoControl \/ ControlValid

LEMMA AnswersGrow ==
  ASSUME SearxngInv, todo # <<>>, NEW row, ~row.ok => row.n = 0,
         answers' = Append(answers, row), round' = round
  PROVE  SearxngInv'
<1>1. PICK S : answers \in Seq(S)
  BY DEF SearxngInv
<1>2. answers \in Seq(S \cup {row})
  BY <1>1, SeqMonotonic
<1>3. /\ answers' \in Seq(S \cup {row})
      /\ DOMAIN answers' = DOMAIN answers \cup {Len(answers) + 1}
      /\ \A k \in DOMAIN answers : k # Len(answers) + 1 /\ answers'[k] = answers[k]
      /\ answers'[Len(answers) + 1] = row
  BY <1>2
<1>4. round = "measuring"
  BY DEF SearxngInv
<1>5. \A k \in DOMAIN answers' : ~answers'[k].ok => answers'[k].n = 0
  BY <1>3 DEF SearxngInv
<1>. QED
  BY <1>3, <1>4, <1>5 DEF SearxngInv

LEMMA InitSearxng == SearxngInit => SearxngInv
<1>. SUFFICES ASSUME SearxngInit PROVE SearxngInv
  OBVIOUS
<1>1. answers \in Seq({}) /\ DOMAIN answers = {}
  BY DEF SearxngInit
<1>. QED
  BY <1>1 DEF SearxngInit, SearxngInv

LEMMA NextSearxng ==
  ASSUME SearxngInv, [SearxngNext]_searxngVars
  PROVE  SearxngInv'
<1>1. CASE SearchFails
  <2>. DEFINE row == FailedRow(Head(todo))
  <2>1. ~row.ok => row.n = 0
    BY DEF FailedRow
  <2>. HIDE DEF row
  <2>. QED
    BY <1>1, <2>1, AnswersGrow DEF SearchFails, row
<1>2. CASE SearchAnswers
  <2>1. PICK p \in Payloads : answers' = Append(answers, ScoredRow(Head(todo), Kept(p)))
    BY <1>2 DEF SearchAnswers
  <2>. DEFINE row == ScoredRow(Head(todo), Kept(p))
  <2>2. row.ok
    BY DEF ScoredRow
  <2>. HIDE DEF row
  <2>. QED
    BY <1>2, <2>1, <2>2, AnswersGrow DEF SearchAnswers, row
<1>3. CASE Conclude
  <2>1. ControlValid' <=> ControlValid
    BY <1>3 DEF Conclude, ControlValid, RowsOf, Nonempty
  <2>. QED
    BY <1>3, <2>1 DEF Conclude, SearxngInv
<1>4. CASE UNCHANGED searxngVars
  BY <1>4 DEF searxngVars, SearxngInv, ControlValid, RowsOf, Nonempty
<1>. QED
  BY <1>1, <1>2, <1>3, <1>4 DEF SearxngNext

LEMMA SearxngInvImplies == SearxngInv => ValidRoundHadControl
<1>. DEFINE control == {k \in DOMAIN answers : answers[k].arm = Control /\ answers[k].mode = "sequential"}
            good    == {k \in control : answers[k].n > 0}
<1>. SUFFICES ASSUME SearxngInv, round = "valid", Control # NoControl
              PROVE  good # {} /\ 5 * Cardinality(good) + 4 >= 4 * Cardinality(control)
  BY DEF ValidRoundHadControl
<1>1. RowsOf(Control, "sequential") = control
  BY DEF RowsOf
<1>2. Nonempty(control) = good
  BY DEF SearxngInv, Nonempty
<1>3. Cardinality(good) >= Max({1, (8 * Cardinality(control)) \div 10})
  BY <1>1, <1>2 DEF SearxngInv, ControlValid
<1>4. IsFiniteSet(DOMAIN answers)
  <2>1. PICK S : answers \in Seq(S)
    BY DEF SearxngInv
  <2>2. DOMAIN answers = 1 .. Len(answers) /\ Len(answers) \in Nat
    BY <2>1
  <2>. QED
    BY <2>2, FS_Interval
<1>5. control \subseteq DOMAIN answers /\ good \subseteq DOMAIN answers
  OBVIOUS
<1>6. IsFiniteSet(control) /\ IsFiniteSet(good)
  BY <1>4, <1>5, FS_Subset
<1>7. Cardinality(control) \in Nat /\ Cardinality(good) \in Nat
  BY <1>6, FS_CardinalityType
<1>. HIDE DEF control, good
<1>8. Cardinality(good) >= 1 /\ 5 * Cardinality(good) + 4 >= 4 * Cardinality(control)
  BY <1>3, <1>7, FloorAndRate
<1>9. good # {}
  BY <1>8, FS_EmptySet
<1>. QED
  BY <1>8, <1>9

(* A round that exits 0 had a control measured one search at a time, which  *)
(* answered, and at four searches of five up to rounding, for any arms, any *)
(* number of queries and whatever the instance answered or refused          *)
(* (searxng_qualify.py:20).                                                 *)
THEOREM ValidRoundHolds == SearxngSpec => []ValidRoundHadControl
<1>1. SearxngInit => SearxngInv
  BY InitSearxng
<1>2. SearxngInv /\ [SearxngNext]_searxngVars => SearxngInv'
  BY NextSearxng
<1>3. SearxngInv => ValidRoundHadControl
  BY SearxngInvImplies
<1>. QED
  BY <1>1, <1>2, <1>3, PTL DEF SearxngSpec
=============================================================================
