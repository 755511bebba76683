---------------------------- MODULE DdgsQualify ----------------------------
(***************************************************************************)
(* The DDGS qualification (scripts/websearch/ddgs_qualify.py) and its      *)
(* instrumentation (ddgs_instrument.py).  Searches run one by one and then *)
(* in a burst of worker threads; DDGS fans each out to engines in threads  *)
(* of its own.  The search id is a thread-local that _get_engines stamps   *)
(* on the engines, one Trace counts and records every request for all.     *)
(***************************************************************************)
EXTENDS Naturals, Sequences, FiniteSets, SequencesExt

CONSTANTS
  Backends,      \* --backends: a sequence
  SeqQueries,    \* the selected queries: a sequence
  BurstQueries,  \* those of them in burst_ids, cut to --burst
  Workers,       \* --burst-workers
  Main,          \* the main thread, which runs the sequential searches
  Engines,       \* engines a backend may fan out to
  MaxRequests,   \* --max-requests
  None           \* no search

ASSUME QualifyAssumption ==
  /\ MaxRequests \in Nat \ {0}
  /\ Main \notin Workers
  /\ IsFiniteSet(Engines)

(* One search: a backend, a mode, a query.                                 *)
Jobs == {[backend |-> b, mode |-> m, query |-> q] :
           b \in ToSet(Backends), m \in {"seq", "burst"},
           q \in ToSet(SeqQueries) \cup ToSet(BurstQueries)}
Threads == Workers \cup {Main}

SearchesOf(b, m, qs) == [k \in DOMAIN qs |-> [backend |-> b, mode |-> m, query |-> qs[k]]]

(* Every search of a complete run, in the order of its rows.               *)
Plan == FlattenSeq([i \in DOMAIN Backends |->
          SearchesOf(Backends[i], "seq", SeqQueries) \o SearchesOf(Backends[i], "burst", BurstQueries)])

VARIABLES
  main,      \* the main thread: "admit", "search", "burst" or "exited"
  next,      \* index in Plan of the search it comes to
  job,       \* thread -> the search it runs, or None
  tag,       \* thread -> _current_sid
  stamp,     \* search -> the sid on its engine instances (None: no engines yet)
  call,      \* search, engine -> the request: none, refused, sent, recorded
  started,   \* TRACE.requests_started
  trace,     \* TRACE.requests: who is charged and who asked
  queue,     \* burst searches that no worker has taken
  ready,     \* futures that are done: their rows
  emitted,   \* searches.jsonl
  timeUp,    \* --max-wall-seconds have passed
  stopped,   \* stop_reason is set
  status     \* exit status, or "running"

qualifyVars == <<main, next, job, tag, stamp, call, started, trace, queue, ready,
                 emitted, timeUp, stopped, status>>

QualifyInit ==
  /\ main = "admit"
  /\ next = 1
  /\ job = [t \in Threads |-> None]
  /\ tag = [t \in Threads |-> None]
  /\ stamp = [j \in Jobs |-> None]
  /\ call = [j \in Jobs |-> [e \in Engines |-> "none"]]
  /\ started = 0
  /\ trace = {}
  /\ queue = <<>>
  /\ ready = {}
  /\ emitted = <<>>
  /\ timeUp = FALSE
  /\ stopped = FALSE
  /\ status = "running"

Exhausted == started >= MaxRequests

-----------------------------------------------------------------------------
(* run_one, by the main thread or a worker.                                *)

(* Mutant: one id for the process.                                         *)
TaggedForAll(t, j) == [u \in Threads |-> j]

(* set_search_id: the id of the calling thread.                            *)
Tagged(t, j) == [tag EXCEPT ![t] = j]

(* get_engines: the instances of this search carry the thread's id.        *)
GetEngines(t) ==
  /\ job[t] # None
  /\ stamp[job[t]] = None
  /\ stamp' = [stamp EXCEPT ![job[t]] = tag[t]]
  /\ UNCHANGED <<main, next, job, tag, call, started, trace, queue, ready, emitted, timeUp, stopped, status>>

(* Mutant: the budget is looked at when a search is admitted, not here.    *)
RequestUnreserved(j, e) ==
  /\ \E t \in Threads : job[t] = j
  /\ stamp[j] # None
  /\ call[j][e] = "none"
  /\ call' = [call EXCEPT ![j][e] = "sent"] /\ started' = started + 1
  /\ UNCHANGED <<main, next, job, tag, stamp, trace, queue, ready, emitted, timeUp, stopped, status>>

(* reserve_request, one step under the lock: counted, or refused.          *)
Request(j, e) ==
  /\ \E t \in Threads : job[t] = j
  /\ stamp[j] # None
  /\ call[j][e] = "none"
  /\ IF started < MaxRequests
       THEN call' = [call EXCEPT ![j][e] = "sent"] /\ started' = started + 1
       ELSE call' = [call EXCEPT ![j][e] = "refused"] /\ UNCHANGED started
  /\ UNCHANGED <<main, next, job, tag, stamp, trace, queue, ready, emitted, timeUp, stopped, status>>

(* The answer or the error of a request that was sent is recorded; DDGS may
   have returned to the search without waiting for it.                     *)
Recorded(j, e) ==
  /\ call[j][e] = "sent"
  /\ call' = [call EXCEPT ![j][e] = "recorded"]
  /\ trace' = trace \cup {[sid |-> stamp[j], by |-> j, engine |-> e]}
  /\ UNCHANGED <<main, next, job, tag, stamp, started, queue, ready, emitted, timeUp, stopped, status>>

(* for_sid: the requests charged to the search when it returns.            *)
RowOf(j) == [job |-> j, requests |-> {x \in trace : x.sid = j}]

(* DDGS.text returned (or raised: an error row); the thread forgets the id. *)
Returned(t) ==
  /\ job[t] # None
  /\ stamp[job[t]] # None
  /\ tag' = Tagged(t, None)
  /\ job' = [job EXCEPT ![t] = None]
  /\ IF t = Main
       THEN emitted' = Append(emitted, RowOf(job[t])) /\ main' = "admit" /\ UNCHANGED ready
       ELSE ready' = ready \cup {RowOf(job[t])} /\ UNCHANGED <<emitted, main>>
  /\ UNCHANGED <<next, stamp, call, started, trace, queue, timeUp, stopped, status>>

-----------------------------------------------------------------------------
(* main.                                                                   *)

AtSeq   == next <= Len(Plan) /\ Plan[next].mode = "seq"
AtBurst == next <= Len(Plan) /\ Plan[next].mode = "burst"

AdmitSeq ==
  /\ main = "admit"
  /\ AtSeq
  /\ ~Exhausted /\ ~timeUp
  /\ job' = [job EXCEPT ![Main] = Plan[next]]
  /\ tag' = Tagged(Main, Plan[next])
  /\ next' = next + 1
  /\ main' = "search"
  /\ UNCHANGED <<stamp, call, started, trace, queue, ready, emitted, timeUp, stopped, status>>

(* The whole burst is submitted at once.                                   *)
AdmitBurst ==
  /\ main = "admit"
  /\ AtBurst
  /\ ~Exhausted /\ ~timeUp
  /\ queue' = SubSeq(Plan, next, next + Len(BurstQueries) - 1)
  /\ main' = "burst"
  /\ UNCHANGED <<next, job, tag, stamp, call, started, trace, ready, emitted, timeUp, stopped, status>>

StopAdmitting ==
  /\ main = "admit"
  /\ AtSeq \/ AtBurst
  /\ Exhausted \/ timeUp
  /\ stopped' = TRUE
  /\ main' = "summary"
  /\ UNCHANGED <<next, job, tag, stamp, call, started, trace, queue, ready, emitted, timeUp, status>>

TakeBurst(w) ==
  /\ job[w] = None
  /\ queue # <<>>
  /\ job' = [job EXCEPT ![w] = Head(queue)]
  /\ tag' = Tagged(w, Head(queue))
  /\ queue' = Tail(queue)
  /\ UNCHANGED <<main, next, stamp, call, started, trace, ready, emitted, timeUp, stopped, status>>

(* Rows are emitted in the order of submission.                            *)
EmitBurst ==
  /\ main = "burst"
  /\ \E r \in ready :
       /\ r.job = Plan[next]
       /\ emitted' = Append(emitted, r)
       /\ ready' = ready \ {r}
  /\ next' = next + 1
  /\ main' = IF next' <= Len(Plan) /\ Plan[next'].mode = "burst"
                  /\ Plan[next'].backend = Plan[next].backend
               THEN "burst" ELSE "admit"
  /\ UNCHANGED <<job, tag, stamp, call, started, trace, queue, timeUp, stopped, status>>

PlanEnds ==
  /\ main = "admit"
  /\ next > Len(Plan)
  /\ main' = "summary"
  /\ UNCHANGED <<next, job, tag, stamp, call, started, trace, queue, ready, emitted, timeUp, stopped, status>>

(* meta["complete"]: as many rows as searches planned.                     *)
Exit ==
  /\ main = "summary"
  /\ status' = IF Len(emitted) = Len(Plan) THEN "0" ELSE "2"
  /\ main' = "exited"
  /\ UNCHANGED <<next, job, tag, stamp, call, started, trace, queue, ready, emitted, timeUp, stopped>>

TimeIsUp ==
  /\ ~timeUp
  /\ main = "admit"
  /\ timeUp' = TRUE
  /\ UNCHANGED <<main, next, job, tag, stamp, call, started, trace, queue, ready, emitted, stopped, status>>

QualifyNext ==
  \/ AdmitSeq \/ AdmitBurst \/ StopAdmitting \/ EmitBurst \/ PlanEnds \/ Exit \/ TimeIsUp
  \/ \E t \in Threads : GetEngines(t) \/ Returned(t)
  \/ \E w \in Workers : TakeBurst(w)
  \/ \E j \in Jobs, e \in Engines : Request(j, e) \/ Recorded(j, e)

QualifySpec == QualifyInit /\ [][QualifyNext]_qualifyVars

-----------------------------------------------------------------------------
(* The requests that went out, by any thread, never exceed --max-requests:
   "hard cap on engine HTTP client invocations" (ddgs_qualify.py:293).     *)
Sent == {x \in Jobs \X Engines : call[x[1]][x[2]] \in {"sent", "recorded"}}

BudgetHeld == Cardinality(Sent) <= MaxRequests

(* "One DDGS instance per search is what makes engine->search attribution
   exact" (ddgs_instrument.py:4): every recorded request is charged to the
   search that made it, however the threads of a burst interleave.         *)
AttributionExact == \A x \in trace : x.sid = x.by
=============================================================================
