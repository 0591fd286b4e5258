---------------------------- MODULE SearchEngine ----------------------------
(***************************************************************************)
(* The legacy search path (search/http.go, engine/engine.go): a document   *)
(* is written to every write backend, a query is answered by the first     *)
(* read backend that can.  The Elasticsearch backend keeps a health table  *)
(* of its hosts with a cooldown and one recovery probe                     *)
(* (elasticsearch/backend.go); Meilisearch accepts a write as a task and   *)
(* is polled for its outcome (meilisearch/backend.go).  Elasticsearch is   *)
(* configured before Meilisearch, both with both roles.                    *)
(***************************************************************************)
EXTENDS Clock, FiniteSets

CONSTANTS
  Hosts,        \* Elasticsearch hosts, 1..n in configuration order
  Requests,     \* concurrent requests
  Cooldowns,    \* bound: cooldown in ticks by number of failures
  MaxFailures   \* bound: the cap on counted failures (6 in the code)

RecoveryRows == [failures : 1..MaxFailures, retryAt : Nat, probing : BOOLEAN]

ASSUME EngineAssumption ==
  /\ Hosts = 1..Cardinality(Hosts) /\ Cardinality(Hosts) \in Nat \ {0}
  /\ MaxFailures \in Nat \ {0} /\ MaxTime \in Nat
  /\ \A f \in 1..MaxFailures : Cooldowns[f] \in Nat
  /\ NULL \notin Hosts /\ NULL \notin RecoveryRows

VARIABLES
  health,     \* host -> BOOLEAN
  recovery,   \* host -> [failures, retryAt, probing], or NULL
  call,       \* request -> its progress
  stored,     \* external: requests whose document a backend holds
  task        \* external: Meilisearch task of a request

engineVars == <<health, recovery, call, stored, task>>

Quiet == [op |-> "none"]

EngineInit ==
  /\ health = [h \in Hosts |-> TRUE]
  /\ recovery = [h \in Hosts |-> NULL]
  /\ call = [r \in Requests |-> Quiet]
  /\ stored = [b \in {"es", "ms"} |-> {}]
  /\ task = [r \in Requests |-> "none"]

\* a request in progress: the hosts it tried, and whether a backend failed
Progress(r, op, stage, host, tried, failed) ==
  call' = [call EXCEPT ![r] = [op |-> op, stage |-> stage, host |-> host, tried |-> tried,
                               failed |-> failed]]

Start(r) ==
  /\ call[r] = Quiet
  /\ \/ Progress(r, "index", "select", NULL, {}, FALSE)
     \/ Progress(r, "query", "send", 1, {}, FALSE)
  /\ UNCHANGED <<now, health, recovery, stored, task>>

-----------------------------------------------------------------------------
(* The health table.                                                       *)

Down(f) == IF f < MaxFailures THEN f + 1 ELSE MaxFailures

Recovery(failures, at, probing) == [failures |-> failures, retryAt |-> at, probing |-> probing]

MarkDown(h) ==
  LET failures == Down(IF recovery[h] = NULL THEN 0 ELSE recovery[h].failures) IN
    /\ health' = [health EXCEPT ![h] = FALSE]
    /\ recovery' = [recovery EXCEPT ![h] = Recovery(failures, Later(Cooldowns[failures]), FALSE)]

MarkUp(h) ==
  health' = [health EXCEPT ![h] = TRUE] /\ recovery' = [recovery EXCEPT ![h] = NULL]

Probing(h, taken) ==
  recovery' = [recovery EXCEPT ![h] = Recovery(recovery[h].failures, recovery[h].retryAt, taken)]

KeepProbe(h) == UNCHANGED <<health, recovery>>

\* the deferred releaseProbe of a request that marked nothing
ReleaseProbe(h) ==
  /\ UNCHANGED health
  /\ IF recovery[h] = NULL THEN UNCHANGED recovery ELSE Probing(h, FALSE)

Probes(r) ==
  {h \in Hosts \ call[r].tried :
     ~health[h] /\ ~recovery[h].probing /\ recovery[h].retryAt <= now}

Healthy(r) == {h \in Hosts \ call[r].tried : health[h]}

-----------------------------------------------------------------------------
(* IndexDocumentContext of Elasticsearch.                                  *)

Sent(r, h) ==
  Progress(r, "index", "send", h, call[r].tried \cup {h}, call[r].failed)

\* the engine goes on with the next backend and remembers an error
NextBackend(r, failed) ==
  Progress(r, "index", "submit", NULL, call[r].tried, call[r].failed \/ failed)

\* the first host due for a probe, in configuration order; else any healthy one
SelectHost(r) ==
  /\ call[r].op = "index" /\ call[r].stage = "select"
  /\ \/ \E h \in Probes(r) : (\A p \in Probes(r) : h <= p) /\ Probing(h, TRUE) /\ Sent(r, h)
     \/ /\ Probes(r) = {} /\ \E h \in Healthy(r) : Sent(r, h)
        /\ UNCHANGED recovery
     \/ /\ Probes(r) = {} /\ Healthy(r) = {} /\ NextBackend(r, TRUE)
        /\ UNCHANGED recovery
  /\ UNCHANGED <<now, health, stored, task>>

WriteAccepted(r) ==
  /\ call[r].op = "index" /\ call[r].stage = "send"
  /\ stored' = [stored EXCEPT !["es"] = @ \cup {r}]
  /\ MarkUp(call[r].host) /\ NextBackend(r, FALSE)
  /\ UNCHANGED <<now, task>>

\* a 4xx proves the host alive and is not tried elsewhere
WriteRejected(r) ==
  /\ call[r].op = "index" /\ call[r].stage = "send"
  /\ MarkUp(call[r].host) /\ NextBackend(r, TRUE)
  /\ UNCHANGED <<now, stored, task>>

Exhausted(r) == call[r].tried = Hosts

\* transport error or 5xx, the document possibly stored: the next host
WriteUnavailable(r) ==
  /\ call[r].op = "index" /\ call[r].stage = "send"
  /\ \E kept \in {{}, {r}} : stored' = [stored EXCEPT !["es"] = @ \cup kept]
  /\ MarkDown(call[r].host)
  /\ IF Exhausted(r) THEN NextBackend(r, TRUE)
     ELSE Progress(r, "index", "select", NULL, call[r].tried, call[r].failed)
  /\ UNCHANGED <<now, task>>

Answer(r, status) == call' = [call EXCEPT ![r] = [op |-> call[r].op, stage |-> status]]

\* the 25-second budget ends before a host is chosen or its request is made
Cancelled(r) ==
  /\ call[r].op = "index" /\ call[r].stage \in {"select", "send"}
  /\ IF call[r].stage = "send" THEN ReleaseProbe(call[r].host)
                               ELSE UNCHANGED <<health, recovery>>
  /\ Answer(r, "failed")
  /\ UNCHANGED <<now, stored, task>>

-----------------------------------------------------------------------------
(* Search: every host in order, without the health table's admission.      *)

QueryHit(r) ==
  /\ call[r].op = "query" /\ call[r].stage = "send"
  /\ MarkUp(call[r].host) /\ Answer(r, "answered")
  /\ UNCHANGED <<now, stored, task>>

QueryMiss(r) ==
  /\ call[r].op = "query" /\ call[r].stage = "send"
  /\ MarkDown(call[r].host) \/ MarkUp(call[r].host)
  /\ IF call[r].host + 1 \in Hosts
     THEN Progress(r, "query", "send", call[r].host + 1, {}, FALSE)
     ELSE Progress(r, "query", "submit", NULL, {}, FALSE)
  /\ UNCHANGED <<now, stored, task>>

MeiliQuery(r) ==
  /\ call[r].op = "query" /\ call[r].stage = "submit"
  /\ Answer(r, "answered") \/ Answer(r, "failed")
  /\ UNCHANGED <<now, health, recovery, stored, task>>

-----------------------------------------------------------------------------
(* Meilisearch: SubmitDocument, WaitTask.                                  *)

Submit(r) ==
  /\ call[r].op = "index" /\ call[r].stage = "submit"
  /\ \/ /\ task' = [task EXCEPT ![r] = "enqueued"]
        /\ \/ Progress(r, "index", "wait", NULL, call[r].tried, call[r].failed)
           \/ Answer(r, "failed")             \* the receipt is lost
     \/ UNCHANGED task /\ Answer(r, "failed")
  /\ UNCHANGED <<now, health, recovery, stored>>

\* external
TaskRuns(r) ==
  /\ task[r] = "enqueued"
  /\ \/ task' = [task EXCEPT ![r] = "succeeded"]
        /\ stored' = [stored EXCEPT !["ms"] = @ \cup {r}]
     \/ task' = [task EXCEPT ![r] = "failed"] /\ UNCHANGED stored
  /\ UNCHANGED <<now, health, recovery, call>>

Verdict(r) ==
  IF task[r] = "succeeded" /\ ~call[r].failed THEN "indexed" ELSE "failed"

\* a poll, or the deadline with the task's outcome unknown
WaitTask(r) ==
  /\ call[r].op = "index" /\ call[r].stage = "wait"
  /\ \/ task[r] # "enqueued" /\ Answer(r, Verdict(r))
     \/ Answer(r, "failed")
  /\ UNCHANGED <<now, health, recovery, stored, task>>

EngineTick == Advance /\ UNCHANGED engineVars

EngineNext ==
  \/ EngineTick
  \/ \E r \in Requests :
       \/ Start(r) \/ SelectHost(r) \/ WriteAccepted(r) \/ WriteRejected(r)
       \/ WriteUnavailable(r) \/ Cancelled(r) \/ QueryHit(r) \/ QueryMiss(r)
       \/ MeiliQuery(r) \/ Submit(r) \/ TaskRuns(r) \/ WaitTask(r)

EngineSpec == ClockInit /\ EngineInit /\ [][EngineNext]_<<now, engineVars>>

-----------------------------------------------------------------------------
\* "indexed" is answered only when every write backend holds the document: an
\* error of an earlier backend survives the success of a later one, and an
\* accepted task is not an indexed one (engine.go, IndexDocumentContext).
IndexedEverywhere ==
  \A r \in Requests :
    (call[r].op = "index" /\ call[r].stage = "indexed") =>
      r \in stored["es"] /\ r \in stored["ms"]

\* A host being probed has a request in flight: no exit of a request leaves
\* the probe taken, which would keep the host out for ever (releaseProbe).
ProbeHasRequest ==
  \A h \in Hosts :
    (recovery[h] # NULL /\ recovery[h].probing) =>
      \E r \in Requests : call[r] # Quiet /\ call[r].stage = "send" /\ call[r].host = h

\* "indexed" is true of every backend, and a host that failed is never left out
\* by a probe nobody makes (engine.go, backend.go).
EngineHonest == IndexedEverywhere /\ ProbeHasRequest
=============================================================================
