--------------------------- MODULE ServingProofs ---------------------------
(***************************************************************************)
(* Components that answer clients from state of their own: the legacy      *)
(* search engine with its health table, the Conduit gateway's limiter and  *)
(* the URL fetcher; and the source scan that fills the search service.     *)
(***************************************************************************)
EXTENDS SearchEngine, RateLimiter, Fetcher, SourceScan, FiniteSetTheorems,
        TLAPS

-----------------------------------------------------------------------------
(***************************************************************************)
(* The search engine.  A host is out of the health table exactly when it   *)
(* has a recovery row, and the row is being probed only while some request *)
(* is on its way to the host.  A request that reached the second backend   *)
(* without an error has its document in the first.                         *)
(***************************************************************************)
Calls ==
  {Quiet}
  \cup [op : {"index", "query"}, stage : {"select", "send", "submit", "wait"},
        host : Hosts \cup {NULL}, tried : SUBSET Hosts, failed : BOOLEAN]
  \cup [op : {"index", "query"}, stage : {"indexed", "answered", "failed"}]

EngineTypeOK ==
  /\ now \in Nat
  /\ health \in [Hosts -> BOOLEAN]
  /\ recovery \in [Hosts -> RecoveryRows \cup {NULL}]
  /\ call \in [Requests -> Calls]
  /\ stored \in [{"es", "ms"} -> SUBSET Requests]
  /\ task \in [Requests -> {"none", "enqueued", "succeeded", "failed"}]

\* The health table and the recovery table agree.
DownHasRecovery == \A h \in Hosts : health[h] <=> recovery[h] = NULL

\* A request on its way to a host knows which; one that is past the first
\* backend without an error has stored its document there.
RequestOK(r) ==
  /\ call[r] # Quiet /\ call[r].stage = "send" => call[r].host \in Hosts
  /\ call[r].op = "index" /\ call[r].stage \in {"submit", "wait"} /\ ~call[r].failed =>
       r \in stored["es"]
  /\ call[r].op = "index" /\ call[r].stage = "indexed" => r \in stored["es"] /\ r \in stored["ms"]

TaskDone == \A r \in Requests : task[r] = "succeeded" => r \in stored["ms"]

EngineInv ==
  /\ EngineTypeOK /\ DownHasRecovery /\ TaskDone /\ ProbeHasRequest
  /\ \A r \in Requests : RequestOK(r)

OnItsWay(r, h) == call[r] # Quiet /\ call[r].stage = "send" /\ call[r].host = h
Probed(h) == recovery[h] # NULL /\ recovery[h].probing

\* Initially every host is healthy and no request has arrived.
LEMMA EngineInitOK == ClockInit /\ EngineInit => EngineInv
<1> SUFFICES ASSUME ClockInit, EngineInit PROVE EngineInv
  BY ZenonT(60)
<1>1. EngineTypeOK
  BY ZenonT(60) DEF ClockInit, EngineInit, EngineTypeOK, Calls
<1>2. \A r \in Requests : RequestOK(r)
  BY ZenonT(60) DEF EngineInit, RequestOK, Quiet
<1>3. TaskDone
  BY ZenonT(60) DEF EngineInit, TaskDone
<1> QED BY ZenonT(60), <1>1, <1>2, <1>3 DEF EngineInit, EngineInv, DownHasRecovery, ProbeHasRequest

\* What a request in progress holds.
LEMMA CallType ==
  ASSUME EngineInv, NEW r \in Requests, call[r].op \in {"index", "query"},
         call[r].stage \in {"select", "send", "submit", "wait"}
  PROVE  /\ call[r] # Quiet /\ call[r].tried \subseteq Hosts /\ call[r].failed \in BOOLEAN
         /\ call[r].stage = "send" => call[r].host \in Hosts
<1>1. call[r] # Quiet
  BY DEF Quiet
<1>2. call[r] \in [op : {"index", "query"}, stage : {"select", "send", "submit", "wait"},
                   host : Hosts \cup {NULL}, tried : SUBSET Hosts, failed : BOOLEAN]
  BY ZenonT(60), <1>1 DEF EngineInv, EngineTypeOK, Calls
<1>3. call[r].stage = "send" => call[r].host \in Hosts
  BY ZenonT(60), <1>1 DEF EngineInv, RequestOK
<1> QED BY ZenonT(60), <1>1, <1>2, <1>3

\* The request's record after a step that goes on.
LEMMA ProgressMade ==
  ASSUME EngineInv, NEW r \in Requests, NEW o \in {"index", "query"},
         NEW stage \in {"select", "send", "submit", "wait"}, NEW host \in Hosts \cup {NULL},
         NEW tried \in SUBSET Hosts, NEW failed \in BOOLEAN, Progress(r, o, stage, host, tried, failed)
  PROVE  /\ call' \in [Requests -> Calls] /\ \A q \in Requests \ {r} : call'[q] = call[q]
         /\ call'[r] # Quiet /\ call'[r].op = o /\ call'[r].stage = stage /\ call'[r].host = host
         /\ call'[r].failed = failed
<1>1. PICK c : c = [op |-> o, stage |-> stage, host |-> host, tried |-> tried, failed |-> failed]
  BY ZenonT(60)
<1>2. c \in Calls /\ c # Quiet
  BY ZenonT(60), <1>1 DEF Calls, Quiet
<1>3. call' = [call EXCEPT ![r] = c]
  BY ZenonT(60), <1>1 DEF Progress
<1> QED BY ZenonT(60), <1>1, <1>2, <1>3 DEF EngineInv, EngineTypeOK

\* The request's record after its answer.
LEMMA Answered ==
  ASSUME EngineInv, NEW r \in Requests, call[r].op \in {"index", "query"},
         NEW status \in {"indexed", "answered", "failed"}, Answer(r, status)
  PROVE  /\ call' \in [Requests -> Calls] /\ \A q \in Requests \ {r} : call'[q] = call[q]
         /\ call'[r] # Quiet /\ call'[r].op = call[r].op /\ call'[r].stage = status
<1>1. PICK c : c = [op |-> call[r].op, stage |-> status]
  BY ZenonT(60)
<1>2. c \in Calls /\ c # Quiet
  BY ZenonT(60), <1>1 DEF Calls, Quiet
<1>3. call' = [call EXCEPT ![r] = c]
  BY ZenonT(60), <1>1 DEF Answer
<1> QED BY ZenonT(60), <1>1, <1>2, <1>3 DEF EngineInv, EngineTypeOK

\* Both tables after a mark.
LEMMA Marked ==
  ASSUME EngineInv, NEW h \in Hosts, MarkDown(h) \/ MarkUp(h)
  PROVE  /\ health' \in [Hosts -> BOOLEAN] /\ recovery' \in [Hosts -> RecoveryRows \cup {NULL}]
         /\ DownHasRecovery' /\ ~Probed(h)'
         /\ \A g \in Hosts \ {h} : recovery'[g] = recovery[g]
<1>1. CASE MarkUp(h)
  BY ZenonT(60), <1>1 DEF MarkUp, EngineInv, EngineTypeOK, DownHasRecovery, Probed
<1>2. CASE MarkDown(h)
  <2>1. PICK f : f = Down(IF recovery[h] = NULL THEN 0 ELSE recovery[h].failures)
    BY ZenonT(60)
  <2>2. f \in 1..MaxFailures
    <3>1. PICK old : old = IF recovery[h] = NULL THEN 0 ELSE recovery[h].failures
      BY ZenonT(60)
    <3>2. old \in 0..MaxFailures
      BY <3>1, EngineAssumption DEF EngineInv, EngineTypeOK, RecoveryRows
    <3> QED BY <2>1, <3>1, <3>2, EngineAssumption DEF Down
  <2>3. Later(Cooldowns[f]) \in Nat
    BY <2>2, EngineAssumption DEF Later, EngineInv, EngineTypeOK
  <2>4. PICK row : row = Recovery(f, Later(Cooldowns[f]), FALSE)
    BY ZenonT(60)
  <2>5. row \in RecoveryRows /\ row # NULL /\ ~row.probing
    <3>1. row = [failures |-> f, retryAt |-> Later(Cooldowns[f]), probing |-> FALSE]
      BY ZenonT(60), <2>4 DEF Recovery
    <3>2. row \in RecoveryRows
      BY ZenonT(60), <2>2, <2>3, <3>1 DEF RecoveryRows
    <3> QED BY ZenonT(60), <3>1, <3>2, EngineAssumption
  <2>6. health' = [health EXCEPT ![h] = FALSE] /\ recovery' = [recovery EXCEPT ![h] = row]
    BY ZenonT(60), <1>2, <2>1, <2>4 DEF MarkDown
  <2> QED BY ZenonT(60), <2>5, <2>6 DEF EngineInv, EngineTypeOK, DownHasRecovery, Probed
<1> QED BY ZenonT(60), <1>1, <1>2

\* The probe of a host that is down is taken or given back.
LEMMA ProbeTaken ==
  ASSUME EngineInv, NEW h \in Hosts, recovery[h] # NULL, NEW taken \in BOOLEAN, Probing(h, taken)
  PROVE  /\ recovery' \in [Hosts -> RecoveryRows \cup {NULL}]
         /\ \A g \in Hosts \ {h} : recovery'[g] = recovery[g]
         /\ recovery'[h] # NULL /\ (Probed(h)' <=> taken)
<1>1. PICK row : row = Recovery(recovery[h].failures, recovery[h].retryAt, taken)
  BY ZenonT(60)
<1>2. row \in RecoveryRows /\ row # NULL /\ row.probing = taken
  <2>1. row = [failures |-> recovery[h].failures, retryAt |-> recovery[h].retryAt, probing |-> taken]
    BY ZenonT(60), <1>1 DEF Recovery
  <2>2. recovery[h] \in RecoveryRows
    BY ZenonT(60) DEF EngineInv, EngineTypeOK
  <2>3. row \in RecoveryRows
    BY ZenonT(60), <2>1, <2>2 DEF RecoveryRows
  <2> QED BY ZenonT(60), <2>1, <2>3, EngineAssumption
<1>3. recovery' = [recovery EXCEPT ![h] = row]
  BY ZenonT(60), <1>1 DEF Probing
<1> QED BY ZenonT(60), <1>2, <1>3 DEF EngineInv, EngineTypeOK, Probed

\* Only request r moves, documents are never removed, and a host stays probed
\* only if its request is not r or r is still on its way there.
LEMMA OneRequestMoves ==
  ASSUME EngineInv, NEW r \in Requests, \A q \in Requests \ {r} : call'[q] = call[q],
         stored["es"] \subseteq stored'["es"], stored["ms"] \subseteq stored'["ms"],
         \A h \in Hosts : Probed(h)' => OnItsWay(r, h)' \/ (Probed(h) /\ ~OnItsWay(r, h))
  PROVE  ProbeHasRequest' /\ \A q \in Requests \ {r} : RequestOK(q)'
<1>1. ASSUME NEW q \in Requests \ {r} PROVE RequestOK(q)'
  BY ZenonT(60) DEF EngineInv, RequestOK
<1>2. ProbeHasRequest'
  <2> SUFFICES ASSUME NEW h \in Hosts, Probed(h)' PROVE \E q \in Requests : OnItsWay(q, h)'
    BY ZenonT(60) DEF ProbeHasRequest, Probed, OnItsWay
  <2>1. CASE OnItsWay(r, h)'
    BY ZenonT(60), <2>1
  <2>2. CASE Probed(h) /\ ~OnItsWay(r, h)
    <3>1. PICK q \in Requests : OnItsWay(q, h)
      BY ZenonT(60), <2>2 DEF EngineInv, ProbeHasRequest, Probed, OnItsWay
    <3>2. q # r
      BY ZenonT(60), <2>2, <3>1
    <3> QED BY ZenonT(60), <3>1, <3>2 DEF OnItsWay
  <2> QED BY ZenonT(60), <2>1, <2>2
<1> QED BY ZenonT(60), <1>1, <1>2

\* A request arrives.
LEMMA StartOK == ASSUME EngineInv, NEW r \in Requests, Start(r) PROVE EngineInv'
<1>1. UNCHANGED <<now, health, recovery, stored, task>> /\ call[r] = Quiet
  BY ZenonT(60) DEF Start
<1>2. /\ call' \in [Requests -> Calls] /\ \A q \in Requests \ {r} : call'[q] = call[q]
      /\ \/ call'[r].stage = "select"
         \/ call'[r].stage = "send" /\ call'[r].host \in Hosts
  <2>1. CASE Progress(r, "index", "select", NULL, {}, FALSE)
    BY ZenonT(60), <2>1, ProgressMade
  <2>2. CASE Progress(r, "query", "send", 1, {}, FALSE)
    <3>1. 1 \in Hosts
      BY EngineAssumption
    <3> QED BY ZenonT(60), <2>2, <3>1, ProgressMade
  <2> QED BY ZenonT(60), <2>1, <2>2 DEF Start
<1>3. RequestOK(r)'
  BY ZenonT(60), <1>2 DEF RequestOK
<1>4. ProbeHasRequest' /\ \A q \in Requests \ {r} : RequestOK(q)'
  <2>1. \A h \in Hosts : ~OnItsWay(r, h) /\ (Probed(h)' <=> Probed(h))
    BY ZenonT(60), <1>1 DEF OnItsWay, Probed
  <2> QED BY ZenonT(60), <1>1, <1>2, <2>1, OneRequestMoves
<1> QED BY ZenonT(60), <1>1, <1>2, <1>3, <1>4 DEF EngineInv, EngineTypeOK, DownHasRecovery, TaskDone

\* A host is chosen, with its probe if it is down, or none is left.
LEMMA SelectHostOK == ASSUME EngineInv, NEW r \in Requests, SelectHost(r) PROVE EngineInv'
<1>1. /\ UNCHANGED <<now, health, stored, task>> /\ call[r].op = "index" /\ call[r].stage = "select"
      /\ call[r].tried \subseteq Hosts /\ call[r].failed \in BOOLEAN
      /\ \A h \in Hosts : ~OnItsWay(r, h)
  BY ZenonT(60), CallType DEF SelectHost, OnItsWay
<1>2. ASSUME NEW h \in Hosts, Sent(r, h)
      PROVE  /\ call' \in [Requests -> Calls] /\ \A q \in Requests \ {r} : call'[q] = call[q]
             /\ OnItsWay(r, h)' /\ RequestOK(r)'
  <2>1. call[r].tried \cup {h} \in SUBSET Hosts
    BY ZenonT(60), <1>1
  <2>2. /\ call' \in [Requests -> Calls] /\ \A q \in Requests \ {r} : call'[q] = call[q]
        /\ call'[r] # Quiet /\ call'[r].stage = "send" /\ call'[r].host = h
    BY <1>1, <1>2, <2>1, ProgressMade DEF Sent
  <2> QED BY ZenonT(60), <2>2 DEF OnItsWay, RequestOK
<1>3. CASE UNCHANGED recovery /\ \E h \in Healthy(r) : Sent(r, h)
  <2>1. PICK h \in Hosts : Sent(r, h)
    BY ZenonT(60), <1>3 DEF Healthy
  <2>2. ProbeHasRequest' /\ \A q \in Requests \ {r} : RequestOK(q)'
    <3>1. \A g \in Hosts : Probed(g)' => Probed(g)
      BY ZenonT(60), <1>3 DEF Probed
    <3> QED BY ZenonT(60), <1>1, <1>2, <2>1, <3>1, OneRequestMoves
  <2> QED BY ZenonT(60), <1>1, <1>2, <1>3, <2>1, <2>2 DEF EngineInv, EngineTypeOK, DownHasRecovery, TaskDone
<1>4. CASE UNCHANGED recovery /\ NextBackend(r, TRUE)
  <2>1. /\ call' \in [Requests -> Calls] /\ \A q \in Requests \ {r} : call'[q] = call[q]
        /\ call'[r].stage = "submit" /\ call'[r].failed = TRUE
    <3>1. (call[r].failed \/ TRUE) = TRUE
      BY ZenonT(60), <1>1
    <3> QED BY ZenonT(60), <1>1, <1>4, <3>1, ProgressMade DEF NextBackend
  <2>2. ProbeHasRequest' /\ \A q \in Requests \ {r} : RequestOK(q)'
    <3>1. \A g \in Hosts : Probed(g)' => Probed(g)
      BY ZenonT(60), <1>4 DEF Probed
    <3> QED BY ZenonT(60), <1>1, <2>1, <3>1, OneRequestMoves
  <2>3. RequestOK(r)'
    BY ZenonT(60), <2>1 DEF RequestOK
  <2> QED BY ZenonT(60), <1>1, <1>4, <2>1, <2>2, <2>3 DEF EngineInv, EngineTypeOK, DownHasRecovery, TaskDone
<1>5. CASE \E h \in Probes(r) : Probing(h, TRUE) /\ Sent(r, h)
  <2>1. PICK h \in Hosts : Probing(h, TRUE) /\ Sent(r, h) /\ ~health[h]
    BY ZenonT(60), <1>5 DEF Probes
  <2>2. recovery[h] # NULL
    BY ZenonT(60), <2>1 DEF EngineInv, DownHasRecovery
  <2>3. /\ recovery' \in [Hosts -> RecoveryRows \cup {NULL}]
        /\ \A g \in Hosts \ {h} : recovery'[g] = recovery[g]
        /\ recovery'[h] # NULL
    BY ZenonT(60), <2>1, <2>2, ProbeTaken
  <2>4. ProbeHasRequest' /\ \A q \in Requests \ {r} : RequestOK(q)'
    <3>1. \A g \in Hosts \ {h} : Probed(g)' => Probed(g)
      BY ZenonT(60), <2>3 DEF Probed
    <3> QED BY ZenonT(60), <1>1, <1>2, <2>1, <3>1, OneRequestMoves
  <2>5. DownHasRecovery'
    BY ZenonT(60), <1>1, <2>2, <2>3 DEF EngineInv, DownHasRecovery
  <2> QED BY ZenonT(60), <1>1, <1>2, <2>1, <2>3, <2>4, <2>5 DEF EngineInv, EngineTypeOK, TaskDone
<1> QED BY ZenonT(60), <1>3, <1>4, <1>5 DEF SelectHost

\* A step of a request on its way to a host that marks the host.
LEMMA MarkedOK ==
  ASSUME EngineInv, NEW r \in Requests, NEW h \in Hosts, OnItsWay(r, h),
         MarkDown(h) \/ MarkUp(h), UNCHANGED <<now, task>>,
         call' \in [Requests -> Calls], \A q \in Requests \ {r} : call'[q] = call[q], RequestOK(r)',
         stored' \in [{"es", "ms"} -> SUBSET Requests],
         stored["es"] \subseteq stored'["es"], stored["ms"] = stored'["ms"]
  PROVE  EngineInv'
<1>1. /\ health' \in [Hosts -> BOOLEAN] /\ recovery' \in [Hosts -> RecoveryRows \cup {NULL}]
      /\ DownHasRecovery' /\ ~Probed(h)'
      /\ \A g \in Hosts \ {h} : recovery'[g] = recovery[g]
  BY ZenonT(60), Marked
<1>2. \A g \in Hosts : Probed(g)' => Probed(g) /\ ~OnItsWay(r, g)
  BY ZenonT(60), <1>1 DEF Probed, OnItsWay
<1>3. ProbeHasRequest' /\ \A q \in Requests \ {r} : RequestOK(q)'
  BY ZenonT(60), <1>2, OneRequestMoves
<1> QED BY ZenonT(60), <1>1, <1>3 DEF EngineInv, EngineTypeOK, TaskDone

\* Elasticsearch took the document, refused it, or did not answer.
LEMMA WriteOK ==
  ASSUME EngineInv, NEW r \in Requests, WriteAccepted(r) \/ WriteRejected(r) \/ WriteUnavailable(r)
  PROVE  EngineInv'
<1>1. call[r].op = "index" /\ call[r].stage = "send" /\ UNCHANGED <<now, task>>
  BY ZenonT(60) DEF WriteAccepted, WriteRejected, WriteUnavailable
<1>2. PICK h \in Hosts : OnItsWay(r, h) /\ h = call[r].host
  BY ZenonT(60), <1>1, CallType DEF OnItsWay
<1>3. call[r].tried \in SUBSET Hosts /\ call[r].failed \in BOOLEAN
  BY ZenonT(60), <1>1, CallType
<1>4. ASSUME NEW failed \in BOOLEAN, NextBackend(r, failed)
      PROVE  /\ call' \in [Requests -> Calls] /\ \A q \in Requests \ {r} : call'[q] = call[q]
             /\ call'[r].stage = "submit" /\ (failed => call'[r].failed)
  <2>1. PICK f \in BOOLEAN : f = (call[r].failed \/ failed)
    BY ZenonT(60)
  <2>2. Progress(r, "index", "submit", NULL, call[r].tried, f)
    BY ZenonT(60), <1>4, <2>1 DEF NextBackend
  <2>3. /\ call' \in [Requests -> Calls] /\ \A q \in Requests \ {r} : call'[q] = call[q]
        /\ call'[r].stage = "submit" /\ call'[r].failed = f
    <3>1. PICK tried \in SUBSET Hosts : tried = call[r].tried
      BY ZenonT(60), <1>3
    <3>2. PICK c : c = [op |-> "index", stage |-> "submit", host |-> NULL, tried |-> tried, failed |-> f]
      BY ZenonT(60)
    <3>3. c \in Calls /\ call' = [call EXCEPT ![r] = c]
      BY ZenonT(60), <2>2, <3>1, <3>2 DEF Calls, Progress
    <3> QED BY ZenonT(60), <3>2, <3>3 DEF EngineInv, EngineTypeOK
  <2> QED BY ZenonT(60), <2>1, <2>3
<1>5. CASE WriteAccepted(r)
  <2>1. stored' = [stored EXCEPT !["es"] = stored["es"] \cup {r}] /\ MarkUp(h) /\ NextBackend(r, FALSE)
    BY ZenonT(60), <1>2, <1>5 DEF WriteAccepted
  <2>2. /\ stored' \in [{"es", "ms"} -> SUBSET Requests] /\ r \in stored'["es"]
        /\ stored["es"] \subseteq stored'["es"] /\ stored["ms"] = stored'["ms"]
    BY ZenonT(60), <2>1 DEF EngineInv, EngineTypeOK
  <2>3. RequestOK(r)'
    BY ZenonT(60), <1>4, <2>1, <2>2 DEF RequestOK
  <2> QED BY ZenonT(60), <1>1, <1>2, <1>4, <2>1, <2>2, <2>3, MarkedOK
<1>6. CASE WriteRejected(r)
  <2>1. UNCHANGED stored /\ MarkUp(h) /\ NextBackend(r, TRUE)
    BY ZenonT(60), <1>2, <1>6 DEF WriteRejected
  <2>2. RequestOK(r)'
    BY ZenonT(60), <1>4, <2>1 DEF RequestOK
  <2> QED BY ZenonT(60), <1>1, <1>2, <1>4, <2>1, <2>2, MarkedOK DEF EngineInv, EngineTypeOK
<1>7. ASSUME Progress(r, "index", "select", NULL, call[r].tried, call[r].failed)
      PROVE  /\ call' \in [Requests -> Calls] /\ \A q \in Requests \ {r} : call'[q] = call[q]
             /\ call'[r].stage = "select"
  <2>1. PICK tried \in SUBSET Hosts : tried = call[r].tried
    BY ZenonT(60), <1>3
  <2>2. PICK f \in BOOLEAN : f = call[r].failed
    BY ZenonT(60), <1>3
  <2>3. Progress(r, "index", "select", NULL, tried, f)
    BY ZenonT(60), <1>7, <2>1, <2>2
  <2>4. NULL \in Hosts \cup {NULL}
    BY ZenonT(60)
  <2>5. /\ call' \in [Requests -> Calls] /\ \A q \in Requests \ {r} : call'[q] = call[q]
        /\ call'[r] # Quiet /\ call'[r].op = "index" /\ call'[r].stage = "select" /\ call'[r].host = NULL
        /\ call'[r].failed = f
    BY <2>3, <2>4, ProgressMade
  <2> QED BY ZenonT(60), <2>5
<1>8. CASE WriteUnavailable(r)
  <2>1. PICK kept \in {{}, {r}} : stored' = [stored EXCEPT !["es"] = stored["es"] \cup kept]
    BY ZenonT(60), <1>8 DEF WriteUnavailable
  <2>2. /\ stored' \in [{"es", "ms"} -> SUBSET Requests]
        /\ stored["es"] \subseteq stored'["es"] /\ stored["ms"] = stored'["ms"]
    BY ZenonT(60), <2>1 DEF EngineInv, EngineTypeOK
  <2>3. MarkDown(h)
    BY ZenonT(60), <1>2, <1>8 DEF WriteUnavailable
  <2>4. /\ call' \in [Requests -> Calls] /\ \A q \in Requests \ {r} : call'[q] = call[q]
        /\ RequestOK(r)'
    <3>1. CASE NextBackend(r, TRUE)
      BY ZenonT(60), <1>4, <3>1 DEF RequestOK
    <3>2. CASE Progress(r, "index", "select", NULL, call[r].tried, call[r].failed)
      BY ZenonT(60), <1>7, <3>2 DEF RequestOK
    <3> QED BY ZenonT(60), <1>8, <3>1, <3>2 DEF WriteUnavailable
  <2> QED BY ZenonT(60), <1>1, <1>2, <2>2, <2>3, <2>4, MarkedOK
<1> QED BY ZenonT(60), <1>5, <1>6, <1>8

\* The budget ends: a probe the request holds is given back.
LEMMA CancelledOK == ASSUME EngineInv, NEW r \in Requests, Cancelled(r) PROVE EngineInv'
<1>1. /\ call[r].op = "index" /\ call[r].stage \in {"select", "send"} /\ UNCHANGED <<now, stored, task>>
      /\ Answer(r, "failed")
  BY ZenonT(60) DEF Cancelled
<1>2. /\ call' \in [Requests -> Calls] /\ \A q \in Requests \ {r} : call'[q] = call[q]
      /\ call'[r].stage = "failed"
  BY ZenonT(60), <1>1, Answered
<1>3. RequestOK(r)'
  BY ZenonT(60), <1>2 DEF RequestOK
<1>4. /\ health' = health /\ recovery' \in [Hosts -> RecoveryRows \cup {NULL}]
      /\ \A g \in Hosts : /\ recovery'[g] = NULL <=> recovery[g] = NULL
                          /\ Probed(g)' => Probed(g) /\ ~OnItsWay(r, g)
  <2>1. CASE call[r].stage = "select"
    BY ZenonT(60), <1>1, <2>1 DEF Cancelled, EngineInv, EngineTypeOK, Probed, OnItsWay
  <2>2. CASE call[r].stage = "send"
    <3>1. PICK h \in Hosts : h = call[r].host
      BY ZenonT(60), <1>1, <2>2, CallType
    <3>2. ReleaseProbe(h)
      BY ZenonT(60), <2>2, <3>1 DEF Cancelled
    <3>3. CASE recovery[h] = NULL
      <4>1. UNCHANGED <<health, recovery>> /\ ~Probed(h)
        BY ZenonT(60), <3>2, <3>3 DEF ReleaseProbe, Probed
      <4> QED BY ZenonT(60), <3>1, <4>1 DEF EngineInv, EngineTypeOK, Probed, OnItsWay
    <3>4. CASE recovery[h] # NULL
      <4>1. UNCHANGED health /\ Probing(h, FALSE)
        BY ZenonT(60), <3>2, <3>4 DEF ReleaseProbe
      <4>2. /\ recovery' \in [Hosts -> RecoveryRows \cup {NULL}]
            /\ \A g \in Hosts \ {h} : recovery'[g] = recovery[g]
            /\ recovery'[h] # NULL /\ ~Probed(h)'
        BY ZenonT(60), <3>4, <4>1, ProbeTaken
      <4> QED BY ZenonT(60), <3>1, <3>4, <4>1, <4>2 DEF Probed, OnItsWay
    <3> QED BY ZenonT(60), <3>3, <3>4
  <2> QED BY ZenonT(60), <1>1, <2>1, <2>2
<1>5. ProbeHasRequest' /\ \A q \in Requests \ {r} : RequestOK(q)'
  BY ZenonT(60), <1>1, <1>2, <1>4, OneRequestMoves
<1> QED BY ZenonT(60), <1>1, <1>2, <1>3, <1>4, <1>5 DEF EngineInv, EngineTypeOK, DownHasRecovery, TaskDone

\* A query's host answers, or the next host is asked, or Meilisearch.
LEMMA QueryOK ==
  ASSUME EngineInv, NEW r \in Requests, QueryHit(r) \/ QueryMiss(r) PROVE EngineInv'
<1>1. call[r].op = "query" /\ call[r].stage = "send" /\ UNCHANGED <<now, stored, task>>
  BY ZenonT(60) DEF QueryHit, QueryMiss
<1>2. PICK h \in Hosts : OnItsWay(r, h) /\ h = call[r].host
  BY ZenonT(60), <1>1, CallType DEF OnItsWay
<1>3. MarkDown(h) \/ MarkUp(h)
  BY ZenonT(60), <1>2 DEF QueryHit, QueryMiss
<1>4. /\ call' \in [Requests -> Calls] /\ \A q \in Requests \ {r} : call'[q] = call[q]
      /\ call'[r].op = "query" /\ (call'[r].stage = "send" => call'[r].host \in Hosts)
  <2>1. CASE Answer(r, "answered")
    BY ZenonT(60), <1>1, <2>1, Answered
  <2>2. CASE h + 1 \in Hosts /\ Progress(r, "query", "send", h + 1, {}, FALSE)
    <3>1. PICK g \in Hosts : g = h + 1 /\ Progress(r, "query", "send", g, {}, FALSE)
      BY ZenonT(60), <2>2
    <3>2. /\ call' \in [Requests -> Calls] /\ \A q \in Requests \ {r} : call'[q] = call[q]
          /\ call'[r] # Quiet /\ call'[r].op = "query" /\ call'[r].stage = "send"
          /\ call'[r].host = g
      BY ZenonT(60), <3>1, ProgressMade
    <3> QED BY ZenonT(60), <3>2
  <2>3. CASE Progress(r, "query", "submit", NULL, {}, FALSE)
    BY ZenonT(60), <2>3, ProgressMade
  <2> QED BY ZenonT(60), <1>2, <2>1, <2>2, <2>3 DEF QueryHit, QueryMiss
<1>5. RequestOK(r)'
  BY ZenonT(60), <1>4 DEF RequestOK
<1> QED BY ZenonT(60), <1>1, <1>2, <1>3, <1>4, <1>5, MarkedOK DEF EngineInv, EngineTypeOK

\* A step of a request past the first backend, which leaves the hosts alone.
LEMMA BackendStepOK ==
  ASSUME EngineInv, NEW r \in Requests, \A h \in Hosts : ~OnItsWay(r, h),
         UNCHANGED <<now, health, recovery, stored>>,
         call' \in [Requests -> Calls], \A q \in Requests \ {r} : call'[q] = call[q], RequestOK(r)',
         task' \in [Requests -> {"none", "enqueued", "succeeded", "failed"}],
         \A q \in Requests : task'[q] = "succeeded" => task[q] = "succeeded"
  PROVE  EngineInv'
<1>1. ProbeHasRequest' /\ \A q \in Requests \ {r} : RequestOK(q)'
  <2>1. \A h \in Hosts : Probed(h)' => Probed(h)
    BY ZenonT(60) DEF Probed
  <2> QED BY ZenonT(60), <2>1, OneRequestMoves
<1> QED BY ZenonT(60), <1>1 DEF EngineInv, EngineTypeOK, DownHasRecovery, TaskDone

\* Meilisearch answers a query or fails it.
LEMMA MeiliQueryOK == ASSUME EngineInv, NEW r \in Requests, MeiliQuery(r) PROVE EngineInv'
<1>1. /\ call[r].op = "query" /\ call[r].stage = "submit"
      /\ UNCHANGED <<now, health, recovery, stored, task>>
  BY ZenonT(60) DEF MeiliQuery
<1>2. /\ call' \in [Requests -> Calls] /\ \A q \in Requests \ {r} : call'[q] = call[q]
      /\ call'[r].stage \in {"answered", "failed"}
  <2>1. CASE Answer(r, "answered")
    BY ZenonT(60), <1>1, <2>1, Answered
  <2>2. CASE Answer(r, "failed")
    BY ZenonT(60), <1>1, <2>2, Answered
  <2> QED BY ZenonT(60), <2>1, <2>2 DEF MeiliQuery
<1>3. RequestOK(r)' /\ \A h \in Hosts : ~OnItsWay(r, h)
  BY ZenonT(60), <1>1, <1>2 DEF RequestOK, OnItsWay
<1> QED BY ZenonT(60), <1>1, <1>2, <1>3, BackendStepOK DEF EngineInv, EngineTypeOK

\* Meilisearch takes the write as a task, or its receipt is lost.
LEMMA SubmitOK == ASSUME EngineInv, NEW r \in Requests, Submit(r) PROVE EngineInv'
<1>1. /\ call[r].op = "index" /\ call[r].stage = "submit"
      /\ UNCHANGED <<now, health, recovery, stored>>
  BY ZenonT(60) DEF Submit
<1>2. /\ task' \in [Requests -> {"none", "enqueued", "succeeded", "failed"}]
      /\ \A q \in Requests : task'[q] = "succeeded" => task[q] = "succeeded"
  BY ZenonT(60) DEF Submit, EngineInv, EngineTypeOK
<1>3. CASE Answer(r, "failed")
  <2>1. /\ call' \in [Requests -> Calls] /\ \A q \in Requests \ {r} : call'[q] = call[q]
        /\ call'[r].stage = "failed"
    BY ZenonT(60), <1>1, <1>3, Answered
  <2>2. RequestOK(r)' /\ \A h \in Hosts : ~OnItsWay(r, h)
    BY ZenonT(60), <1>1, <2>1 DEF RequestOK, OnItsWay
  <2> QED BY ZenonT(60), <1>1, <1>2, <2>1, <2>2, BackendStepOK
<1>4. CASE Progress(r, "index", "wait", NULL, call[r].tried, call[r].failed)
  <2>1. PICK tried \in SUBSET Hosts : tried = call[r].tried
    BY ZenonT(60), <1>1, CallType
  <2>2. PICK f \in BOOLEAN : f = call[r].failed
    BY ZenonT(60), <1>1, CallType
  <2>3. PICK c : c = [op |-> "index", stage |-> "wait", host |-> NULL, tried |-> tried, failed |-> f]
    BY ZenonT(60)
  <2>4. /\ call' \in [Requests -> Calls] /\ \A q \in Requests \ {r} : call'[q] = call[q]
        /\ call'[r] # Quiet /\ call'[r].op = "index" /\ call'[r].stage = "wait"
        /\ call'[r].host = NULL /\ call'[r].failed = f
    <3>1. c \in Calls /\ c # Quiet /\ call' = [call EXCEPT ![r] = c]
      BY ZenonT(60), <1>4, <2>1, <2>2, <2>3 DEF Calls, Quiet, Progress
    <3> QED BY ZenonT(60), <2>3, <3>1 DEF EngineInv, EngineTypeOK
  <2>5. RequestOK(r)' /\ \A h \in Hosts : ~OnItsWay(r, h)
    BY ZenonT(60), <1>1, <2>2, <2>4 DEF RequestOK, OnItsWay, EngineInv
  <2> QED BY ZenonT(60), <1>1, <1>2, <2>4, <2>5, BackendStepOK
<1> QED BY ZenonT(60), <1>3, <1>4 DEF Submit

\* A task that succeeds has stored its document.
LEMMA TaskRunsOK == ASSUME EngineInv, NEW r \in Requests, TaskRuns(r) PROVE EngineInv'
<1>1. UNCHANGED <<now, health, recovery, call>>
  BY ZenonT(60) DEF TaskRuns
<1>2. /\ task' \in [Requests -> {"none", "enqueued", "succeeded", "failed"}]
      /\ stored' \in [{"es", "ms"} -> SUBSET Requests]
      /\ stored'["es"] = stored["es"] /\ stored["ms"] \subseteq stored'["ms"] /\ TaskDone'
  <2>1. CASE /\ task' = [task EXCEPT ![r] = "succeeded"]
             /\ stored' = [stored EXCEPT !["ms"] = @ \cup {r}]
    BY ZenonT(60), <2>1 DEF EngineInv, EngineTypeOK, TaskDone
  <2>2. CASE task' = [task EXCEPT ![r] = "failed"] /\ UNCHANGED stored
    BY ZenonT(60), <2>2 DEF EngineInv, EngineTypeOK, TaskDone
  <2> QED BY ZenonT(60), <2>1, <2>2 DEF TaskRuns
<1>3. \A q \in Requests : RequestOK(q)'
  BY ZenonT(60), <1>1, <1>2 DEF EngineInv, RequestOK
<1> QED BY ZenonT(60), <1>1, <1>2, <1>3 DEF EngineInv, EngineTypeOK, DownHasRecovery, ProbeHasRequest

\* "indexed" needs the second backend's success and no error of the first.
LEMMA WaitTaskOK == ASSUME EngineInv, NEW r \in Requests, WaitTask(r) PROVE EngineInv'
<1>1. /\ call[r].op = "index" /\ call[r].stage = "wait"
      /\ UNCHANGED <<now, health, recovery, stored, task>>
  BY ZenonT(60) DEF WaitTask
<1>2. PICK status \in {"indexed", "failed"} :
        /\ Answer(r, status)
        /\ status = "indexed" => task[r] = "succeeded" /\ ~call[r].failed
  BY ZenonT(60) DEF WaitTask, Verdict
<1>3. /\ call' \in [Requests -> Calls] /\ \A q \in Requests \ {r} : call'[q] = call[q]
      /\ call'[r].stage = status
  BY ZenonT(60), <1>1, <1>2, Answered
<1>4. RequestOK(r)' /\ \A h \in Hosts : ~OnItsWay(r, h)
  <2>1. status = "indexed" => r \in stored["es"] /\ r \in stored["ms"]
    BY ZenonT(60), <1>1, <1>2 DEF EngineInv, RequestOK, TaskDone
  <2> QED BY ZenonT(60), <1>1, <1>3, <2>1 DEF RequestOK, OnItsWay
<1> QED BY ZenonT(60), <1>1, <1>3, <1>4, BackendStepOK DEF EngineInv, EngineTypeOK

\* "indexed" is answered only when both backends hold the document, and no
\* host stays out behind a probe nobody makes: for any number of hosts,
\* concurrent requests and failures (engine.go, backend.go).
THEOREM EngineIsHonest == EngineSpec => []EngineHonest
<1>1. EngineInv /\ [EngineNext]_<<now, engineVars>> => EngineInv'
  <2> SUFFICES ASSUME EngineInv, [EngineNext]_<<now, engineVars>> PROVE EngineInv'
    BY ZenonT(60)
  <2>1. CASE EngineTick \/ UNCHANGED <<now, engineVars>>
    <3>1. UNCHANGED <<health, recovery, call, stored, task>> /\ now' \in Nat
      BY <2>1 DEF EngineTick, Advance, engineVars, EngineInv, EngineTypeOK
    <3> QED BY ZenonT(60), <3>1 DEF EngineInv, EngineTypeOK, DownHasRecovery, TaskDone, ProbeHasRequest, RequestOK
  <2> QED BY ZenonT(60), <2>1, StartOK, SelectHostOK, WriteOK, CancelledOK, QueryOK, MeiliQueryOK, SubmitOK,
             TaskRunsOK, WaitTaskOK DEF EngineNext
<1>2. EngineInv => EngineHonest
  BY ZenonT(60) DEF EngineInv, EngineHonest, IndexedEverywhere, RequestOK
<1> QED BY <1>1, <1>2, EngineInitOK, PTL DEF EngineSpec

-----------------------------------------------------------------------------
(***************************************************************************)
(* The limiter.  Refilling on access, after any number of idle ticks, is   *)
(* the same as refilling at every tick, and an evicted bucket was full.    *)
(***************************************************************************)
VisitorRows == [tokens : 0..Burst, idle : 0..(Retention + 1)]

LimiterInv ==
  /\ full \in [Clients -> 0..Burst]
  /\ DOMAIN visitors \subseteq Clients
  /\ \A c \in DOMAIN visitors : visitors[c] \in VisitorRows
  /\ BucketsExact

\* A refill never overflows the bucket, and two refills add up.
LEMMA FilledFacts ==
  ASSUME NEW tokens \in 0..Burst, NEW idle \in 0..(Retention + 1)
  PROVE  /\ Filled(tokens, idle) \in 0..Burst
         /\ Filled(tokens, 0) = tokens
         /\ Filled(Filled(tokens, idle), 1) = Filled(tokens, idle + 1)
         /\ idle > Retention => Filled(tokens, idle) = Burst
<1>1. Rps \in Nat /\ Burst \in Nat /\ Retention \in Nat /\ Burst <= Rps * Retention
  BY ZenonT(60), RefilledBeforeEviction
<1>2. PICK gained \in Nat : gained = Rps * idle
  BY <1>1
<1>3. Rps * (idle + 1) = gained + Rps /\ Rps * 1 = Rps /\ Rps * 0 = 0
  BY <1>1, <1>2
<1>4. idle > Retention => gained >= Burst
  <2>1. idle > Retention => idle = Retention + 1
    BY <1>1
  <2>2. Rps * (Retention + 1) = Rps * Retention + Rps
    BY <1>1
  <2> QED BY <1>1, <1>2, <2>1, <2>2
<1>5. Filled(tokens, idle) = IF tokens + gained > Burst THEN Burst ELSE tokens + gained
  BY ZenonT(60), <1>2 DEF Filled
<1>6. Filled(tokens, idle + 1) = IF tokens + (gained + Rps) > Burst THEN Burst ELSE tokens + (gained + Rps)
  BY ZenonT(60), <1>3 DEF Filled
<1>7. Filled(Filled(tokens, idle), 1) =
        IF Filled(tokens, idle) + Rps > Burst THEN Burst ELSE Filled(tokens, idle) + Rps
  BY ZenonT(60), <1>3 DEF Filled
<1>8. Filled(tokens, 0) = tokens
  BY <1>1, <1>3 DEF Filled
<1> QED BY <1>1, <1>2, <1>4, <1>5, <1>6, <1>7, <1>8

\* A tick: every bucket ages, the reference buckets refill, and what is
\* evicted was full.
LEMMA LimiterTickOK == ASSUME LimiterInv, LimiterTick PROVE LimiterInv'
<1>1. PICK aged : aged = [c \in DOMAIN visitors |-> Aged(visitors[c])]
  BY ZenonT(60)
<1>2. ASSUME NEW c \in DOMAIN visitors
      PROVE  /\ aged[c] \in VisitorRows
             /\ Filled(aged[c].tokens, aged[c].idle) = Filled(full[c], 1)
             /\ BeforeCutoff(aged[c]) => Filled(full[c], 1) = Burst
  <2>1. PICK t \in 0..Burst, i \in 0..(Retention + 1) : t = visitors[c].tokens /\ i = visitors[c].idle
    BY ZenonT(60) DEF LimiterInv, VisitorRows
  <2>2. full[c] = Filled(t, i)
    BY ZenonT(60), <2>1 DEF LimiterInv, BucketsExact
  <2>3. PICK j \in 0..(Retention + 1) : j = IF i > Retention THEN i ELSE i + 1
    BY RefilledBeforeEviction
  <2>4. aged[c] = [tokens |-> t, idle |-> j]
    BY ZenonT(60), <1>1, <2>1, <2>3 DEF Aged
  <2>5. Filled(t, j) = Filled(full[c], 1)
    <3>1. CASE i > Retention
      <4>1. Filled(t, i) = Burst /\ Filled(Burst, 1) = Burst
        <5>1. Filled(t, i) = Burst
          BY ZenonT(60), <3>1, FilledFacts
        <5>2. Rps * 1 = Rps
          BY RefilledBeforeEviction
        <5> QED BY <5>1, <5>2, RefilledBeforeEviction DEF Filled
      <4> QED BY ZenonT(60), <2>2, <2>3, <3>1, <4>1
    <3>2. CASE ~(i > Retention)
      BY <2>2, <2>3, <3>2, FilledFacts
    <3> QED BY ZenonT(60), <3>1, <3>2
  <2>6. BeforeCutoff(aged[c]) => Filled(t, j) = Burst
    BY <2>4, FilledFacts DEF BeforeCutoff
  <2> QED BY <2>4, <2>5, <2>6 DEF VisitorRows
<1>3. full' \in [Clients -> 0..Burst] /\ \A c \in Clients : full'[c] = Filled(full[c], 1)
  <2>1. 1 \in 0..(Retention + 1)
    BY RefilledBeforeEviction
  <2>2. \A c \in Clients : Filled(full[c], 1) \in 0..Burst
    BY ZenonT(60), <2>1, FilledFacts DEF LimiterInv
  <2> QED BY ZenonT(60), <2>2 DEF LimiterTick
<1>4. ASSUME NEW c \in Clients, c \notin DOMAIN visitors PROVE Filled(full[c], 1) = Burst
  <2>1. full[c] = Burst /\ Rps * 1 = Rps
    BY <1>4, RefilledBeforeEviction DEF LimiterInv, BucketsExact
  <2> QED BY <2>1, RefilledBeforeEviction DEF Filled
<1>5. CASE visitors' = aged
  BY ZenonT(60), <1>1, <1>2, <1>3, <1>4, <1>5 DEF LimiterInv, BucketsExact
<1>6. CASE visitors' = Evicted(aged)
  <2>1. /\ DOMAIN visitors' = {c \in DOMAIN visitors : ~BeforeCutoff(aged[c])}
        /\ \A c \in DOMAIN visitors' : visitors'[c] = aged[c]
    BY ZenonT(60), <1>1, <1>6 DEF Evicted
  <2> QED BY ZenonT(60), <1>2, <1>3, <1>4, <2>1 DEF LimiterInv, BucketsExact
<1> QED BY ZenonT(60), <1>1, <1>5, <1>6 DEF LimiterTick

\* A request takes a token from both buckets or from neither.
LEMMA AllowOK == ASSUME LimiterInv, NEW c \in Clients, Allow(c) PROVE LimiterInv'
<1>1. PICK t \in 0..Burst, i \in 0..(Retention + 1) : t = Bucket(c).tokens /\ i = Bucket(c).idle
  BY RefilledBeforeEviction DEF Bucket, LimiterInv, VisitorRows
<1>2. PICK tokens \in 0..Burst : tokens = Filled(t, i)
  BY ZenonT(60), FilledFacts
<1>3. full[c] = tokens
  <2>1. CASE c \in DOMAIN visitors
    BY ZenonT(60), <1>1, <1>2, <2>1 DEF Bucket, LimiterInv, BucketsExact
  <2>2. CASE c \notin DOMAIN visitors
    <3>1. t = Burst /\ i = 0
      BY ZenonT(60), <1>1, <2>2 DEF Bucket
    <3>2. Filled(t, 0) = t
      BY ZenonT(60), FilledFacts
    <3> QED BY ZenonT(60), <1>2, <2>2, <3>1, <3>2 DEF LimiterInv, BucketsExact
  <2> QED BY ZenonT(60), <2>1, <2>2
<1>4. PICK left \in 0..Burst : left = IF tokens >= 1 THEN tokens - 1 ELSE tokens
  BY RefilledBeforeEviction
<1>5. /\ DOMAIN visitors' = DOMAIN visitors \cup {c}
      /\ visitors'[c] = [tokens |-> left, idle |-> 0]
      /\ \A x \in DOMAIN visitors \ {c} : visitors'[x] = visitors[x]
  BY ZenonT(60), <1>1, <1>2, <1>4 DEF Allow
<1>6. full' = [full EXCEPT ![c] = left]
  BY ZenonT(60), <1>1, <1>2, <1>3, <1>4 DEF Allow, LimiterInv
<1>7. visitors'[c] \in VisitorRows /\ Filled(left, 0) = left
  <2>1. 0 \in 0..(Retention + 1)
    BY RefilledBeforeEviction
  <2> QED BY <1>5, <2>1, FilledFacts DEF VisitorRows
<1>8. \A x \in DOMAIN visitors' : x \in Clients /\ visitors'[x] \in VisitorRows
  BY ZenonT(60), <1>5, <1>7 DEF LimiterInv
<1>9. BucketsExact'
  <2> SUFFICES ASSUME NEW x \in Clients
               PROVE  full'[x] = IF x \in DOMAIN visitors'
                                 THEN Filled(visitors'[x].tokens, visitors'[x].idle) ELSE Burst
    BY ZenonT(60) DEF BucketsExact, Filled
  <2>1. CASE x = c
    BY <1>5, <1>6, <1>7, <2>1 DEF LimiterInv
  <2>2. CASE x # c
    BY ZenonT(60), <1>5, <1>6, <2>2 DEF LimiterInv, BucketsExact
  <2> QED BY ZenonT(60), <2>1, <2>2
<1> QED BY ZenonT(60), <1>6, <1>8, <1>9 DEF LimiterInv

\* For any number of clients and any rate, burst and retention with the
\* burst refilled before the eviction, however requests, ticks and clean-ups
\* interleave, a client is served as by one bucket kept for ever
\* (conduit/ratelimit.go).
THEOREM LimiterIsExact == LimiterSpec => []BucketsExact
<1>1. LimiterInit => LimiterInv
  BY RefilledBeforeEviction DEF LimiterInit, LimiterInv, BucketsExact
<1>2. LimiterInv /\ [LimiterNext]_limiterVars => LimiterInv'
  <2> SUFFICES ASSUME LimiterInv, [LimiterNext]_limiterVars PROVE LimiterInv'
    BY ZenonT(60)
  <2>1. CASE UNCHANGED limiterVars
    BY ZenonT(60), <2>1 DEF limiterVars, LimiterInv, BucketsExact
  <2> QED BY ZenonT(60), <2>1, LimiterTickOK, AllowOK DEF LimiterNext
<1>3. LimiterInv => BucketsExact
  BY ZenonT(60) DEF LimiterInv
<1> QED BY <1>1, <1>2, <1>3, PTL DEF LimiterSpec

-----------------------------------------------------------------------------
(***************************************************************************)
(* The URL fetcher.  The addresses a fetch carries are the checked ones of *)
(* its last lookup, and a redirect looks its host up again.                *)
(***************************************************************************)
\* The fetches under way never outnumber the slots channel's capacity.
SlotsHeld == Cardinality(InSlot) <= Slots

FetchStages == {"new", "denied", "busy", "resolve", "dial", "response", "done", "failed"}

\* A fetch carries only addresses that publicFetchIP accepted.
FetchInv ==
  /\ DialsChecked
  /\ fetch \in [Fetches -> [at: FetchStages, hops: Nat, ips: SUBSET Public]]

\* A request that moves on forgets the addresses it resolved.
LEMMA MoveKeeps ==
  ASSUME FetchInv, NEW q \in Fetches, NEW to \in FetchStages, Move(q, to)
  PROVE  /\ fetch' \in [Fetches -> [at: FetchStages, hops: Nat, ips: SUBSET Public]]
BY ZenonT(60) DEF Move, FetchInv

\* Every step keeps the invariant: Resolve stores an answer only if all of it
\* passed, Dial takes from what is stored.
LEMMA FetchKeeps ==
  ASSUME FetchInv, [FetchNext]_fetchVars
  PROVE  FetchInv'
<1>1. CASE UNCHANGED fetchVars
  BY ZenonT(60), <1>1 DEF FetchInv, DialsChecked, fetchVars
<1>2. ASSUME NEW q \in Fetches, FetchSteps(q) PROVE FetchInv'
  <2>1. CASE FetchStart(q)
    BY ZenonT(60), <2>1, MoveKeeps DEF FetchStart, FetchInv, DialsChecked, FetchStages
  <2>2. CASE Resolve(q)
    <3>1. PICK ips \in SUBSET Addresses :
            fetch' = [fetch EXCEPT ![q].at = IF AllChecked(ips) THEN "dial" ELSE "denied",
                                   ![q].ips = IF AllChecked(ips) THEN ips ELSE {}]
      BY ZenonT(60), <2>2 DEF Resolve
    <3>2. PICK at \in FetchStages, checked \in SUBSET Public :
            fetch' = [fetch EXCEPT ![q].at = at, ![q].ips = checked]
      <4>1. CASE AllChecked(ips)
        BY ZenonT(60), <3>1, <4>1 DEF AllChecked, FetchStages
      <4>2. CASE ~AllChecked(ips)
        BY ZenonT(60), <3>1, <4>2 DEF FetchStages
      <4> QED BY ZenonT(60), <4>1, <4>2
    <3>3. fetch' \in [Fetches -> [at: FetchStages, hops: Nat, ips: SUBSET Public]]
      BY ZenonT(60), <3>2 DEF FetchInv
    <3> QED BY ZenonT(60), <2>2, <3>3 DEF Resolve, FetchInv, DialsChecked
  <2>3. CASE Dial(q)
    BY <2>3, MoveKeeps DEF Dial, FetchInv, DialsChecked, FetchStages
  <2>4. CASE Response(q)
    BY <2>4, MoveKeeps DEF Response, FetchInv, DialsChecked, FetchStages
  <2>5. CASE FetchTimeout(q)
    BY ZenonT(60), <2>5, MoveKeeps DEF FetchTimeout, FetchInv, DialsChecked, FetchStages
  <2> QED BY ZenonT(60), <1>2, <2>1, <2>2, <2>3, <2>4, <2>5 DEF FetchSteps
<1> QED BY ZenonT(60), <1>1, <1>2 DEF FetchNext

\* A fetch enters only while a slot is free, and one at a time.
LEMMA SlotKeeps ==
  ASSUME FetchInv, SlotsHeld, [FetchNext]_fetchVars
  PROVE  SlotsHeld'
<1> USE FetchAssumption
<1>1. IsFiniteSet(InSlot) /\ Cardinality(InSlot) \in Nat
  BY ZenonT(60), FS_Subset, FS_CardinalityType DEF InSlot
<1>2. CASE InSlot' \subseteq InSlot
  <2>1. Cardinality(InSlot') \in Nat /\ Cardinality(InSlot') <= Cardinality(InSlot)
    BY ZenonT(60), <1>1, <1>2, FS_Subset, FS_CardinalityType
  <2> QED BY <1>1, <2>1 DEF SlotsHeld
<1>3. CASE SlotFree /\ \E q \in Fetches : InSlot' = InSlot \cup {q}
  <2>1. PICK q \in Fetches : InSlot' = InSlot \cup {q}
    BY ZenonT(60), <1>3
  <2>2. Cardinality(InSlot') \in Nat /\ Cardinality(InSlot') <= Cardinality(InSlot) + 1
    <3>1. PICK S : S = InSlot /\ IsFiniteSet(S) /\ Cardinality(S) \in Nat
      BY ZenonT(60), <1>1
    <3>2. \/ Cardinality(S \cup {q}) = Cardinality(S)
          \/ Cardinality(S \cup {q}) = Cardinality(S) + 1
      BY <3>1, FS_AddElement, ZenonT(60)
    <3> QED BY <2>1, <3>1, <3>2
  <2> QED BY <1>1, <1>3, <2>2 DEF SlotsHeld, SlotFree
<1>4. ASSUME NEW q \in Fetches, FetchSteps(q)
      PROVE  InSlot' \subseteq InSlot \/ (SlotFree /\ InSlot' = InSlot \cup {q})
  <2>1. \A r \in Fetches : r # q => fetch'[r].at = fetch[r].at
    BY ZenonT(60), <1>4 DEF FetchSteps, FetchStart, Resolve, Dial, Response, FetchTimeout, Move, FetchInv
  <2>2. CASE FetchStart(q)
    BY <2>1, <2>2 DEF FetchStart, Move, InSlot, FetchInv
  <2>3. CASE ~FetchStart(q)
    <3>1. q \in InSlot
      BY ZenonT(60), <1>4, <2>3 DEF FetchSteps, Resolve, Dial, Response, FetchTimeout, InSlot
    <3> QED BY ZenonT(60), <2>1, <3>1 DEF InSlot
  <2> QED BY ZenonT(60), <2>2, <2>3
<1>5. CASE UNCHANGED fetchVars
  BY ZenonT(60), <1>2, <1>5 DEF fetchVars, InSlot
<1> QED BY ZenonT(60), <1>2, <1>3, <1>4, <1>5 DEF FetchNext

\* For any number of fetches, slots, redirects and whatever DNS answers: no
\* connection is opened to an address publicFetchIP refuses, and the fetches
\* under way never outnumber the slots (URLFetcher.Fetch).
THEOREM OnlyCheckedDialled == FetchSpec => [](DialsChecked /\ SlotsHeld)
<1>1. FetchInit => FetchInv
  BY DEF FetchInit, FetchInv, DialsChecked, FetchStages
<1>2. FetchInit => SlotsHeld
  <2>1. FetchInit => InSlot = {}
    BY DEF FetchInit, InSlot
  <2> QED BY <2>1, FS_EmptySet, FetchAssumption DEF SlotsHeld
<1>3. FetchInv => DialsChecked
  BY ZenonT(60) DEF FetchInv
<1> QED BY <1>1, <1>2, <1>3, FetchKeeps, SlotKeeps, PTL DEF FetchSpec

-----------------------------------------------------------------------------
(***************************************************************************)
(* The source scan.  A replica that still owns its shard, by name and      *)
(* epoch, holds a page that continues the shard's cursor: whoever takes    *)
(* the shard over raises the epoch, and whoever gives it up clears the     *)
(* owner.  The lease's expiry only decides who may take over.              *)
(***************************************************************************)
SomePages == [items : SUBSET Nat, next : Nat, complete : BOOLEAN]
ScanStates ==
  {Rest}
  \cup [stage : {"fetch"}, class : Classes, epoch : Nat, after : Nat, upper : Nat]
  \cup [stage : {"accept"}, class : Classes, epoch : Nat, page : SomePages, todo : SUBSET Nat]

ScanTypeOK ==
  /\ now \in Nat
  /\ catalog \in Catalogs \cup {NULL}
  /\ poster \in [Scanners -> Catalogs \cup {NULL}]
  /\ shard \in [Classes -> ShardRows \cup {NULL}]
  /\ scan \in [Scanners -> ScanStates]
  /\ control \in BOOLEAN

Passed(c, end) == {i \in SourceRows[c] : i <= end}
Between(c, a, b) == {i \in SourceRows[c] : i > a /\ i <= b}
Handled(c, items) == \A i \in items : <<c, i>> \in accepted \cup absent

\* The shards are created together, from the frozen catalog.
ShardsOK ==
  \A c \in Classes :
    /\ catalog = NULL <=> shard[c] = NULL
    /\ shard[c] # NULL =>
         /\ shard[c].upper = catalog[c] /\ shard[c].cursor <= shard[c].upper
         /\ shard[c].status = "complete" => shard[c].owner = NULL /\ shard[c].cursor = shard[c].upper
         /\ Handled(c, Passed(c, shard[c].cursor))
         /\ shard[c].counted = Cardinality(Passed(c, shard[c].cursor))

\* What a replica holds of the shard it works on, as long as it owns it.
StepOK(x) ==
  LET c == scan[x].class IN
  /\ shard[c] # NULL /\ scan[x].epoch <= shard[c].epoch
  /\ OwnsShard(x) =>
       /\ scan[x].stage = "fetch" =>
            scan[x].after = shard[c].cursor /\ scan[x].upper = shard[c].upper
       /\ scan[x].stage = "accept" =>
            /\ scan[x].page.items = {i \in SourceRows[c] : i > shard[c].cursor /\ i <= scan[x].page.next}
            /\ scan[x].page.next >= shard[c].cursor /\ scan[x].page.next <= shard[c].upper
            /\ scan[x].page.complete => scan[x].page.next = shard[c].upper
            /\ Handled(c, scan[x].page.items \ scan[x].todo)

StepsOK == \A x \in Scanners : scan[x].stage # "idle" => StepOK(x)

ScanInv == ScanTypeOK /\ ShardsOK /\ StepsOK /\ ControlWithLast

\* A page that continues the cursor adds its items to what was passed.
LEMMA PassedGrows ==
  ASSUME NEW c \in Classes, NEW a \in Nat, NEW b \in Nat, a <= b
  PROVE  /\ Passed(c, b) = Passed(c, a) \cup Between(c, a, b)
         /\ Cardinality(Passed(c, b)) = Cardinality(Passed(c, a)) + Cardinality(Between(c, a, b))
         /\ Cardinality(Passed(c, a)) \in Nat /\ Cardinality(Between(c, a, b)) \in Nat
<1>1. SourceRows[c] \subseteq Nat /\ IsFiniteSet(SourceRows[c])
  BY ZenonT(60), ScanAssumption
<1>2. Passed(c, b) = Passed(c, a) \cup Between(c, a, b) /\ Passed(c, a) \cap Between(c, a, b) = {}
  BY <1>1 DEF Passed, Between
<1>3. Passed(c, a) \subseteq SourceRows[c] /\ Between(c, a, b) \subseteq SourceRows[c]
  BY ZenonT(60) DEF Passed, Between
<1>4. IsFiniteSet(Passed(c, a)) /\ IsFiniteSet(Between(c, a, b))
  BY ZenonT(60), <1>1, <1>3, FS_Subset
<1>5. Cardinality(Passed(c, a)) \in Nat /\ Cardinality(Between(c, a, b)) \in Nat
  BY ZenonT(60), <1>4, FS_CardinalityType
<1>6. Cardinality(Passed(c, a) \cup Between(c, a, b)) =
        Cardinality(Passed(c, a)) + Cardinality(Between(c, a, b)) - Cardinality(Passed(c, a) \cap Between(c, a, b))
  BY ZenonT(60), <1>4, FS_Union
<1>7. Cardinality(Passed(c, a) \cap Between(c, a, b)) = 0
  BY ZenonT(60), <1>2, FS_EmptySet
<1> QED BY <1>2, <1>5, <1>6, <1>7

\* Before the first job the invariant holds.
LEMMA ScanInitOK == ClockInit /\ ScanInit => ScanInv
<1> SUFFICES ASSUME ClockInit, ScanInit PROVE ScanInv
  BY ZenonT(60)
<1>1. ScanTypeOK
  BY ZenonT(60) DEF ClockInit, ScanInit, ScanTypeOK, ScanStates
<1>2. ShardsOK /\ StepsOK
  BY ZenonT(60) DEF ScanInit, ShardsOK, StepsOK, Rest
<1>3. ControlWithLast
  BY ZenonT(60), ScanAssumption DEF ScanInit, ControlWithLast
<1> QED BY ZenonT(60), <1>1, <1>2, <1>3 DEF ScanInv

\* Facts about a step a replica is in.
LEMMA StepType ==
  ASSUME ScanInv, NEW x \in Scanners, scan[x].stage # "idle"
  PROVE  /\ scan[x].class \in Classes /\ scan[x].epoch \in Nat
         /\ shard[scan[x].class] \in ShardRows /\ shard[scan[x].class] # NULL
         /\ \/ /\ scan[x].stage = "fetch"
               /\ scan[x] \in [stage : {"fetch"}, class : Classes, epoch : Nat, after : Nat, upper : Nat]
            \/ /\ scan[x].stage = "accept"
               /\ scan[x] \in [stage : {"accept"}, class : Classes, epoch : Nat,
                                page : SomePages, todo : SUBSET Nat]
<1>1. scan[x] \in ScanStates /\ scan[x] # Rest
  BY DEF ScanInv, ScanTypeOK, Rest
<1>2. scan[x].class \in Classes /\ scan[x].epoch \in Nat
  BY ZenonT(60), <1>1 DEF ScanStates
<1>3. shard[scan[x].class] # NULL
  BY ZenonT(60) DEF ScanInv, StepsOK, StepOK
<1> QED BY ZenonT(60), <1>1, <1>2, <1>3 DEF ScanStates, ScanInv, ScanTypeOK

\* A step that leaves the shards alone and takes no row back keeps the shards
\* and what the other replicas hold.
LEMMA ShardsUntouched ==
  ASSUME ScanInv, UNCHANGED <<catalog, shard, control>>,
         accepted \cup absent \subseteq accepted' \cup absent'
  PROVE  /\ ShardsOK' /\ ControlWithLast'
         /\ \A y \in Scanners : scan'[y] = scan[y] /\ scan[y].stage # "idle" => StepOK(y)'
<1>1. ShardsOK'
  BY ZenonT(60) DEF ScanInv, ShardsOK, Handled, Passed
<1>2. ControlWithLast'
  BY ZenonT(60) DEF ScanInv, ControlWithLast
<1>3. ASSUME NEW y \in Scanners, scan'[y] = scan[y], scan[y].stage # "idle"
      PROVE  StepOK(y)'
  BY <1>3 DEF ScanInv, StepsOK, StepOK, OwnsShard, Handled
<1> QED BY ZenonT(60), <1>1, <1>2, <1>3

\* A later instant is an instant.
LEMMA LaterType == ASSUME now \in Nat, NEW d \in Nat PROVE Later(d) \in Nat
  BY ScanAssumption DEF Later

\* The clock disturbs nothing.
LEMMA ScanTickOK == ScanInv /\ ScanTick => ScanInv'
<1> SUFFICES ASSUME ScanInv, ScanTick PROVE ScanInv'
  BY ZenonT(60)
<1>1. ShardsOK' /\ ControlWithLast' /\ StepsOK'
  BY ZenonT(60), ShardsUntouched DEF ScanTick, scanVars, StepsOK
<1> QED BY <1>1 DEF ScanInv, ScanTick, Advance, scanVars, ScanTypeOK

\* A poster reads a catalog; no table changes.
LEMMA PostScanOK == ASSUME ScanInv, NEW x \in Scanners, PostScan(x) PROVE ScanInv'
<1>1. ShardsOK' /\ ControlWithLast' /\ StepsOK'
  BY ZenonT(60), ShardsUntouched DEF PostScan, StepsOK
<1> QED BY ZenonT(60), <1>1 DEF ScanInv, PostScan, ScanTypeOK

\* The first of several requests freezes the catalog, the others find it.
LEMMA CreateSourceJobOK ==
  ASSUME ScanInv, NEW x \in Scanners, CreateSourceJob(x) PROVE ScanInv'
<1>1. poster[x] \in Catalogs /\ Frozen(x) \in Catalogs /\ Frozen(x) # NULL
  BY ZenonT(60), ScanAssumption DEF ScanInv, ScanTypeOK, CreateSourceJob, Frozen
<1>2. PICK k \in Catalogs : k = Frozen(x)
  BY ZenonT(60), <1>1
<1>3. \A c \in Classes : k[c] \in Nat
  BY ZenonT(60), ScanAssumption
<1>4. ASSUME NEW c \in Classes
      PROVE  /\ NewShard(k[c]) \in ShardRows /\ NewShard(k[c]) # NULL
             /\ Passed(c, 0) = {}
  <2>1. NewShard(k[c]) \in ShardRows
    BY ZenonT(60), <1>3 DEF NewShard, ShardRows
  <2>2. Passed(c, 0) = {}
    BY ScanAssumption DEF Passed
  <2> QED BY ZenonT(60), <2>1, <2>2, ScanAssumption
<1>5. \A c \in Classes : shard'[c] = IF shard[c] = NULL THEN NewShard(k[c]) ELSE shard[c]
  BY ZenonT(60), <1>2 DEF CreateSourceJob
<1>6. catalog' = k /\ (catalog # NULL => k = catalog)
  BY ZenonT(60), <1>2 DEF CreateSourceJob, Frozen
<1>7. ScanTypeOK'
  BY ZenonT(60), <1>1, <1>2, <1>4, <1>5, <1>6 DEF ScanInv, ScanTypeOK, CreateSourceJob
<1>8. ShardsOK'
  <2> SUFFICES ASSUME NEW c \in Classes
               PROVE  /\ catalog' # NULL /\ shard'[c] # NULL
                      /\ shard'[c].upper = catalog'[c] /\ shard'[c].cursor <= shard'[c].upper
                      /\ shard'[c].status = "complete" =>
                           shard'[c].owner = NULL /\ shard'[c].cursor = shard'[c].upper
                      /\ Handled(c, Passed(c, shard[c].cursor))'
                      /\ shard'[c].counted = Cardinality(Passed(c, shard'[c].cursor))
    BY ZenonT(60) DEF ShardsOK, Passed
  <2>1. CASE shard[c] = NULL
    <3>1. /\ shard'[c].upper = k[c] /\ shard'[c].cursor = 0 /\ shard'[c].status = "scanning"
          /\ shard'[c].counted = 0
      <4>1. shard'[c] = NewShard(k[c])
        BY ZenonT(60), <1>5, <2>1
      <4> QED BY <4>1 DEF NewShard
    <3>2. Passed(c, shard'[c].cursor) = {}
      BY ZenonT(60), <1>4, <3>1
    <3>3. Cardinality(Passed(c, shard'[c].cursor)) = 0
      BY ZenonT(60), <3>2, FS_EmptySet
    <3>4. shard'[c].cursor <= shard'[c].upper
      <4>1. PICK n \in Nat : n = k[c]
        BY ZenonT(60), <1>3
      <4>2. 0 <= n
        OBVIOUS
      <4> QED BY ZenonT(60), <3>1, <4>1, <4>2
    <3>5. catalog' # NULL /\ shard'[c] # NULL
      BY ZenonT(60), <1>1, <1>2, <1>4, <1>5, <1>6, <2>1
    <3>6. Handled(c, Passed(c, shard[c].cursor))'
      BY ZenonT(60), <3>2 DEF Handled
    <3> QED BY ZenonT(60), <1>6, <3>1, <3>3, <3>4, <3>5, <3>6
  <2>2. CASE shard[c] # NULL
    <3>1. shard'[c] = shard[c] /\ catalog # NULL /\ catalog' = catalog
      BY ZenonT(60), <1>5, <1>6, <2>2 DEF ScanInv, ShardsOK
    <3> QED BY ZenonT(60), <2>2, <3>1 DEF ScanInv, ShardsOK, Handled, CreateSourceJob
  <2> QED BY ZenonT(60), <2>1, <2>2
<1>9. StepsOK'
  <2> SUFFICES ASSUME NEW y \in Scanners, scan[y].stage # "idle" PROVE StepOK(y)'
    BY ZenonT(60) DEF StepsOK, CreateSourceJob
  <2>1. scan[y].class \in Classes /\ shard[scan[y].class] # NULL /\ StepOK(y)
    BY ZenonT(60), StepType DEF ScanInv, StepsOK
  <2>2. shard'[scan[y].class] = shard[scan[y].class] /\ UNCHANGED <<scan, accepted, absent>>
    BY ZenonT(60), <1>5, <2>1 DEF CreateSourceJob
  <2> QED BY ZenonT(60), <2>1, <2>2 DEF StepOK, OwnsShard, Handled
<1>10. ControlWithLast'
  <2>1. CASE catalog = NULL
    <3>1. \A c \in Classes : shard[c] = NULL /\ shard'[c].status = "scanning"
      <4> SUFFICES ASSUME NEW c \in Classes
                   PROVE  shard[c] = NULL /\ shard'[c].status = "scanning"
        BY ZenonT(60)
      <4>1. shard[c] = NULL
        BY ZenonT(60), <2>1 DEF ScanInv, ShardsOK
      <4>2. shard'[c] = NewShard(k[c])
        BY ZenonT(60), <1>5, <4>1
      <4> QED BY <4>1, <4>2 DEF NewShard
    <3> QED BY ZenonT(60), <3>1, ScanAssumption DEF ScanInv, ControlWithLast, CreateSourceJob
  <2>2. CASE catalog # NULL
    <3>1. \A c \in Classes : shard'[c] = shard[c]
      BY ZenonT(60), <1>5, <2>2 DEF ScanInv, ShardsOK
    <3> QED BY ZenonT(60), <3>1 DEF ScanInv, ControlWithLast, CreateSourceJob
  <2> QED BY ZenonT(60), <2>1, <2>2
<1> QED BY ZenonT(60), <1>7, <1>8, <1>9, <1>10 DEF ScanInv

\* Only the row of class c is written, and by nobody who holds it: replicas at
\* work on other shards, or with an epoch that has passed, lose nothing.
LEMMA ShardWritten ==
  ASSUME ScanInv, NEW c \in Classes, NEW row \in ShardRows, shard[c] # NULL,
         shard' = [shard EXCEPT ![c] = row], shard[c].epoch <= row.epoch,
         UNCHANGED <<accepted, absent>>,
         NEW y \in Scanners, scan'[y] = scan[y], scan[y].stage # "idle",
         scan[y].class = c => row.owner # y \/ row.epoch # scan[y].epoch
  PROVE  StepOK(y)'
<1>1. /\ scan[y].class \in Classes /\ scan[y].epoch \in Nat
      /\ shard[scan[y].class] \in ShardRows /\ StepOK(y)
  BY ZenonT(60), StepType DEF ScanInv, StepsOK
<1>2. CASE scan[y].class = c
  <2>1. shard'[c] = row /\ row # NULL /\ row.epoch \in Nat /\ shard[c].epoch \in Nat
    BY ZenonT(60), <1>1, <1>2, ScanAssumption DEF ScanInv, ScanTypeOK, ShardRows
  <2>2. scan'[y].epoch <= shard'[c].epoch
    BY <1>1, <1>2, <2>1 DEF StepOK
  <2>3. ~OwnsShard(y)'
    BY ZenonT(60), <1>2, <2>1 DEF OwnsShard
  <2> QED BY ZenonT(60), <1>2, <2>1, <2>2, <2>3 DEF StepOK
<1>3. CASE scan[y].class # c
  <2>1. shard'[scan[y].class] = shard[scan[y].class]
    BY ZenonT(60), <1>1, <1>3 DEF ScanInv, ScanTypeOK
  <2> QED BY ZenonT(60), <1>1, <2>1 DEF StepOK, OwnsShard, Handled
<1> QED BY ZenonT(60), <1>2, <1>3

\* The rows of the shard table that a claim, a release and a commit write.
LEMMA LeasedRow ==
  ASSUME now \in Nat, NEW r \in ShardRows, NEW x \in Scanners
  PROVE  LET row == Leased(r, x) IN
         /\ row \in ShardRows /\ row.owner = x /\ row.epoch = r.epoch + 1
         /\ row.upper = r.upper /\ row.cursor = r.cursor
         /\ row.status = r.status /\ row.counted = r.counted
<1>1. PICK t \in Nat : t = Later(ScanTTL)
  BY ZenonT(60), LaterType, ScanAssumption
<1>2. PICK e \in Nat : e = r.epoch + 1
  BY DEF ShardRows
<1>3. Leased(r, x) = [r EXCEPT !.owner = x, !.epoch = e, !.expires = t]
  BY ZenonT(60), <1>1, <1>2 DEF Leased
<1>4. Leased(r, x) = [upper |-> r.upper, cursor |-> r.cursor, status |-> r.status,
                      counted |-> r.counted, owner |-> x, epoch |-> e, expires |-> t,
                      next |-> r.next]
  BY ZenonT(60), <1>3 DEF ShardRows
<1> QED BY <1>2, <1>4 DEF ShardRows

\* Giving a lease back keeps the progress of the shard.
LEMMA ReturnedRow ==
  ASSUME now \in Nat, NEW r \in ShardRows
  PROVE  LET row == Returned(r) IN
         /\ row \in ShardRows /\ row.owner = NULL /\ row.epoch = r.epoch
         /\ row.upper = r.upper /\ row.cursor = r.cursor
         /\ row.status = r.status /\ row.counted = r.counted
<1>1. PICK t \in Nat : t = Later(ScanTTL)
  BY ZenonT(60), LaterType, ScanAssumption
<1>2. Returned(r) = [r EXCEPT !.owner = NULL, !.expires = 0, !.next = t]
  BY ZenonT(60), <1>1 DEF Returned
<1>3. Returned(r) = [upper |-> r.upper, cursor |-> r.cursor, status |-> r.status,
                     counted |-> r.counted, owner |-> NULL, epoch |-> r.epoch, expires |-> 0,
                     next |-> t]
  BY ZenonT(60), <1>2 DEF ShardRows
<1> QED BY <1>3 DEF ShardRows

\* A page moves the cursor and nothing else that counts.
LEMMA PassingRow ==
  ASSUME now \in Nat, NEW r \in ShardRows, NEW p \in SomePages, Cardinality(p.items) \in Nat
  PROVE  LET row == Passing(r, p) IN
         /\ row \in ShardRows /\ row.owner = NULL /\ row.epoch = r.epoch
         /\ row.upper = r.upper /\ row.cursor = p.next
         /\ row.status = IF p.complete THEN "complete" ELSE "scanning"
         /\ row.counted = r.counted + Cardinality(p.items)
<1>1. PICK t \in Nat : t = Later(1)
  BY ZenonT(60), LaterType
<1>2. PICK n \in Nat : n = r.counted + Cardinality(p.items)
  BY DEF ShardRows
<1>3. PICK st \in {"scanning", "complete"} : st = IF p.complete THEN "complete" ELSE "scanning"
  BY ZenonT(60)
<1>4. PICK u \in Nat : u = p.next
  BY ZenonT(60) DEF SomePages
<1>5. Passing(r, p) = [r EXCEPT !.cursor = u, !.counted = n, !.status = st, !.owner = NULL,
                                !.expires = 0, !.next = t]
  BY ZenonT(60), <1>1, <1>2, <1>3, <1>4 DEF Passing
<1>6. Passing(r, p) = [upper |-> r.upper, cursor |-> u, status |-> st, counted |-> n,
                       owner |-> NULL, epoch |-> r.epoch, expires |-> 0, next |-> t]
  BY ZenonT(60), <1>5 DEF ShardRows
<1> QED BY <1>2, <1>3, <1>4, <1>6 DEF ShardRows

\* A claim takes the shard away from a scanner whose lease is over.
LEMMA ClaimShardOK ==
  ASSUME ScanInv, NEW x \in Scanners, NEW c \in Classes, ClaimShard(x, c)
  PROVE  ScanInv'
<1>1. shard[c] \in ShardRows /\ shard[c] # NULL /\ shard[c].status = "scanning"
  BY ZenonT(60) DEF ClaimShard, ScanInv, ScanTypeOK
<1>2. PICK row : row = Leased(shard[c], x)
  BY ZenonT(60)
<1>4. /\ row \in ShardRows /\ row.owner = x /\ row.epoch = shard[c].epoch + 1
      /\ row.upper = shard[c].upper /\ row.cursor = shard[c].cursor
      /\ row.status = shard[c].status /\ row.counted = shard[c].counted
  BY <1>1, <1>2, LeasedRow DEF ScanInv, ScanTypeOK
<1>5. shard' = [shard EXCEPT ![c] = row]
  BY ZenonT(60), <1>1, <1>2 DEF ClaimShard, ScanInv, ScanTypeOK
<1>6. shard'[c] = row /\ row # NULL /\ \A d \in Classes \ {c} : shard'[d] = shard[d]
  BY ZenonT(60), <1>4, <1>5, ScanAssumption DEF ScanInv, ScanTypeOK
<1>7. PICK step : step = [stage |-> "fetch", class |-> c, epoch |-> shard[c].epoch + 1,
                          after |-> shard[c].cursor, upper |-> shard[c].upper]
  BY ZenonT(60)
<1>8. step \in ScanStates /\ shard[c].epoch \in Nat
  BY <1>1, <1>7 DEF ShardRows, ScanStates
<1>9. scan'[x] = step /\ scan' \in [Scanners -> ScanStates] /\ \A y \in Scanners \ {x} : scan'[y] = scan[y]
  BY ZenonT(60), <1>7, <1>8 DEF ClaimShard, ScanInv, ScanTypeOK
<1>10. ScanTypeOK'
  <2>1. shard' \in [Classes -> ShardRows \cup {NULL}]
    BY ZenonT(60), <1>4, <1>5 DEF ScanInv, ScanTypeOK
  <2> QED BY ZenonT(60), <1>9, <2>1 DEF ScanInv, ScanTypeOK, ClaimShard
<1>11. ShardsOK'
  <2> SUFFICES ASSUME NEW d \in Classes, shard'[d] # NULL
               PROVE  /\ catalog # NULL /\ shard[d] # NULL
                      /\ shard'[d].upper = shard[d].upper /\ shard'[d].cursor = shard[d].cursor
                      /\ shard'[d].status = "complete" => shard'[d] = shard[d]
                      /\ shard'[d].counted = shard[d].counted
    BY <1>6 DEF ScanInv, ShardsOK, Handled, ClaimShard
  <2>1. catalog # NULL
    BY ZenonT(60), <1>1 DEF ScanInv, ShardsOK
  <2> QED BY ZenonT(60), <1>1, <1>4, <1>6, <2>1
<1>12. ControlWithLast'
  BY ZenonT(60), <1>1, <1>4, <1>6 DEF ScanInv, ControlWithLast, ClaimShard
<1>13. StepsOK'
  <2> SUFFICES ASSUME NEW y \in Scanners, scan'[y].stage # "idle" PROVE StepOK(y)'
    BY ZenonT(60) DEF StepsOK
  <2>1. CASE y = x
    BY <1>4, <1>6, <1>7, <1>8, <1>9, <2>1 DEF StepOK
  <2>2. CASE y # x
    <3>1. scan'[y] = scan[y] /\ scan[y].stage # "idle"
      BY ZenonT(60), <1>9, <2>2
    <3>2. shard[c].epoch <= row.epoch /\ row.owner # y /\ UNCHANGED <<accepted, absent>>
      BY <1>4, <1>8, <2>2 DEF ClaimShard
    <3> QED BY ZenonT(60), <1>1, <1>4, <1>5, <3>1, <3>2, ShardWritten
  <2> QED BY ZenonT(60), <2>1, <2>2
<1> QED BY ZenonT(60), <1>10, <1>11, <1>12, <1>13 DEF ScanInv

\* A page that ValidatePage accepts and the table backs is the range it covers.
LEMMA FetchPageOK ==
  ASSUME ScanInv, NEW x \in Scanners, FetchPageOf(x)
  PROVE  ScanInv'
<1>1. PICK c, after, upper : c = scan[x].class /\ after = scan[x].after /\ upper = scan[x].upper
  BY ZenonT(60)
<1>2. /\ c \in Classes /\ after \in Nat /\ upper \in Nat /\ scan[x].stage = "fetch"
      /\ scan[x].epoch \in Nat /\ StepOK(x)
  BY ZenonT(60), <1>1, StepType DEF FetchPageOf, ScanInv, StepsOK
<1>3. PICK p \in Pages(c, after, upper) :
        /\ HonestPage(c, after, p) /\ ValidPage(p, after, upper)
        /\ scan' = [scan EXCEPT ![x] = [stage |-> "accept", class |-> @.class, epoch |-> @.epoch,
                                        page |-> p, todo |-> p.items]]
  BY ZenonT(60), <1>1 DEF FetchPageOf
<1>4. SourceRows[c] \subseteq Nat
  BY ZenonT(60), <1>2, ScanAssumption
<1>5. p.items \subseteq SourceRows[c] /\ p.next \in after..upper /\ p.next \in Nat /\ p.complete \in BOOLEAN
  BY <1>2, <1>3 DEF Pages
<1>6. p \in SomePages
  BY ZenonT(60), <1>2, <1>3, <1>4, <1>5 DEF Pages, SomePages
<1>7. p.items = {i \in SourceRows[c] : i > after /\ i <= p.next}
  BY ZenonT(60), <1>3, <1>5 DEF HonestPage, ValidPage
<1>8. PICK step : step = [stage |-> "accept", class |-> c, epoch |-> scan[x].epoch,
                          page |-> p, todo |-> p.items]
  BY ZenonT(60)
<1>9. step \in ScanStates
  BY ZenonT(60), <1>2, <1>4, <1>5, <1>6, <1>8 DEF ScanStates
<1>10. scan'[x] = step /\ scan' \in [Scanners -> ScanStates] /\ \A y \in Scanners \ {x} : scan'[y] = scan[y]
  BY ZenonT(60), <1>1, <1>3, <1>8, <1>9 DEF ScanInv, ScanTypeOK
<1>11. StepOK(x)'
  <2>1. UNCHANGED <<shard, accepted, absent>>
    BY ZenonT(60) DEF FetchPageOf
  <2>2. scan'[x].class = c /\ scan'[x].epoch = scan[x].epoch /\ scan'[x].page = p
        /\ scan'[x].todo = p.items /\ scan'[x].stage = "accept"
    BY <1>8, <1>10
  <2>3. OwnsShard(x)' => OwnsShard(x)
    BY ZenonT(60), <1>1, <2>1, <2>2 DEF OwnsShard
  <2>4. OwnsShard(x) => after = shard[c].cursor /\ upper = shard[c].upper
    BY ZenonT(60), <1>1, <1>2 DEF StepOK
  <2>5. p.complete => p.next = upper
    BY ZenonT(60), <1>3 DEF ValidPage
  <2> QED BY <1>1, <1>2, <1>5, <1>7, <2>1, <2>2, <2>3, <2>4, <2>5 DEF StepOK, Handled
<1>12. ShardsOK' /\ ControlWithLast' /\ StepsOK'
  BY ZenonT(60), <1>10, <1>11, ShardsUntouched DEF FetchPageOf, StepsOK
<1> QED BY ZenonT(60), <1>10, <1>12 DEF ScanInv, ScanTypeOK, FetchPageOf

\* An item is taken off the page's list only once it was accepted or counted.
LEMMA AcceptItemOK ==
  ASSUME ScanInv, NEW x \in Scanners, AcceptItem(x) PROVE ScanInv'
<1>1. PICK i \in scan[x].todo :
        /\ accepted' \cup absent' = accepted \cup absent \cup {<<scan[x].class, i>>}
        /\ scan' = [scan EXCEPT ![x].todo = @ \ {i}]
  BY ZenonT(60) DEF AcceptItem
<1>2. /\ scan[x] \in [stage : {"accept"}, class : Classes, epoch : Nat,
                     page : SomePages, todo : SUBSET Nat]
      /\ scan[x].stage = "accept" /\ scan[x].class \in Classes /\ StepOK(x)
  BY ZenonT(60), StepType DEF AcceptItem, ScanInv, StepsOK
<1>3. PICK step : step = [stage |-> "accept", class |-> scan[x].class, epoch |-> scan[x].epoch,
                          page |-> scan[x].page, todo |-> scan[x].todo \ {i}]
  BY ZenonT(60)
<1>4. step \in ScanStates
  BY ZenonT(60), <1>2, <1>3 DEF ScanStates
<1>5. scan'[x] = step /\ scan' \in [Scanners -> ScanStates] /\ \A y \in Scanners \ {x} : scan'[y] = scan[y]
  <2>1. [scan[x] EXCEPT !.todo = @ \ {i}] = step
    BY <1>2, <1>3
  <2>2. scan' = [scan EXCEPT ![x] = step]
    BY ZenonT(60), <1>1, <2>1 DEF ScanInv, ScanTypeOK
  <2> QED BY ZenonT(60), <1>4, <2>2 DEF ScanInv, ScanTypeOK
<1>6. UNCHANGED <<now, catalog, shard, poster, control>>
  BY ZenonT(60) DEF AcceptItem
<1>7. StepOK(x)'
  <2>1. /\ scan'[x].class = scan[x].class /\ scan'[x].epoch = scan[x].epoch
        /\ scan'[x].page = scan[x].page /\ scan'[x].stage = "accept"
        /\ scan'[x].todo = scan[x].todo \ {i}
    BY <1>3, <1>5
  <2>2. OwnsShard(x)' => OwnsShard(x)
    BY ZenonT(60), <1>6, <2>1 DEF OwnsShard
  <2>3. Handled(scan[x].class, scan[x].page.items \ scan[x].todo) =>
          Handled(scan[x].class, scan[x].page.items \ (scan[x].todo \ {i}))'
    <3> SUFFICES ASSUME NEW j \in (scan[x].page.items \ (scan[x].todo \ {i}))',
                        Handled(scan[x].class, scan[x].page.items \ scan[x].todo)
                 PROVE  <<scan'[x].class, j>> \in accepted' \cup absent'
      BY ZenonT(60) DEF Handled
    <3> QED BY ZenonT(60), <1>1, <2>1 DEF Handled
  <2> QED BY ZenonT(60), <1>2, <1>6, <2>1, <2>2, <2>3 DEF StepOK, Handled
<1>8. ShardsOK' /\ ControlWithLast' /\ StepsOK'
  BY ZenonT(60), <1>1, <1>5, <1>6, <1>7, ShardsUntouched DEF StepsOK
<1> QED BY ZenonT(60), <1>5, <1>6, <1>8 DEF ScanInv, ScanTypeOK

\* A replica that is gone, or gives its step up, holds nothing.
LEMMA RestOK ==
  ASSUME ScanInv, NEW x \in Scanners, scan' = [scan EXCEPT ![x] = Rest]
  PROVE  /\ scan' \in [Scanners -> ScanStates] /\ scan'[x].stage = "idle"
         /\ \A y \in Scanners : scan'[y].stage # "idle" => y # x /\ scan'[y] = scan[y]
<1>1. Rest \in ScanStates /\ Rest.stage = "idle"
  BY ZenonT(60) DEF ScanStates, Rest
<1> QED BY ZenonT(60), <1>1 DEF ScanInv, ScanTypeOK

\* A scanner that dies leaves its lease behind.
LEMMA ScanCrashOK ==
  ASSUME ScanInv, NEW x \in Scanners, ScanCrash(x) PROVE ScanInv'
<1>1. ShardsOK' /\ ControlWithLast' /\ StepsOK'
  BY ZenonT(60), RestOK, ShardsUntouched DEF ScanCrash, StepsOK
<1> QED BY ZenonT(60), <1>1, RestOK DEF ScanInv, ScanCrash, ScanTypeOK

\* A scanner that fails gives back the lease it still owns.
LEMMA ScanFailsOK ==
  ASSUME ScanInv, NEW x \in Scanners, ScanFails(x) PROVE ScanInv'
<1>1. CASE ~OwnsShard(x)
  <2>1. ShardsOK' /\ ControlWithLast' /\ StepsOK'
    BY ZenonT(60), <1>1, RestOK, ShardsUntouched DEF ScanFails, StepsOK
  <2> QED BY ZenonT(60), <1>1, <2>1, RestOK DEF ScanInv, ScanFails, ScanTypeOK
<1>2. CASE OwnsShard(x)
  <2>1. PICK c \in Classes : c = scan[x].class
    BY ZenonT(60), StepType DEF ScanFails
  <2>2. shard[c] \in ShardRows /\ shard[c] # NULL /\ catalog # NULL
    BY ZenonT(60), <2>1, StepType DEF ScanFails, ScanInv, ShardsOK
  <2>3. PICK row : row = Returned(shard[c])
    BY ZenonT(60)
  <2>4. /\ row \in ShardRows /\ row.owner = NULL /\ row.epoch = shard[c].epoch
        /\ row.upper = shard[c].upper /\ row.cursor = shard[c].cursor
        /\ row.status = shard[c].status /\ row.counted = shard[c].counted
    BY ZenonT(60), <2>2, <2>3, ReturnedRow DEF ScanInv, ScanTypeOK
  <2>5. shard' = [shard EXCEPT ![c] = row] /\ UNCHANGED <<now, catalog, poster, accepted, absent, control>>
    BY ZenonT(60), <1>2, <2>1, <2>3 DEF ScanFails
  <2>6. /\ shard'[c] = row /\ row # NULL /\ \A d \in Classes \ {c} : shard'[d] = shard[d]
        /\ shard' \in [Classes -> ShardRows \cup {NULL}]
    BY ZenonT(60), <2>4, <2>5, ScanAssumption DEF ScanInv, ScanTypeOK
  <2>7. ScanTypeOK'
    BY ZenonT(60), <2>5, <2>6, RestOK DEF ScanFails, ScanInv, ScanTypeOK
  <2>8. ShardsOK' /\ ControlWithLast'
    <3>1. \A d \in Classes :
            /\ shard'[d] = NULL <=> shard[d] = NULL
            /\ shard[d] # NULL =>
                 /\ shard'[d].upper = shard[d].upper /\ shard'[d].cursor = shard[d].cursor
                 /\ shard'[d].status = shard[d].status /\ shard'[d].counted = shard[d].counted
                 /\ shard[d].owner = NULL => shard'[d].owner = NULL
      BY ZenonT(60), <2>2, <2>4, <2>6
    <3>2. ControlWithLast'
      BY <2>5, <3>1 DEF ScanInv, ControlWithLast
    <3>3. ShardsOK'
      <4>1. ASSUME NEW d \in Classes, shard'[d] # NULL
            PROVE  /\ catalog' # NULL /\ shard'[d].upper = catalog'[d]
                   /\ shard'[d].cursor <= shard'[d].upper
                   /\ shard'[d].status = "complete" =>
                        shard'[d].owner = NULL /\ shard'[d].cursor = shard'[d].upper
                   /\ Handled(d, Passed(d, shard[d].cursor))'
                   /\ shard'[d].counted = Cardinality(Passed(d, shard'[d].cursor))
        BY ZenonT(60), <2>5, <3>1, <4>1 DEF ScanInv, ShardsOK, Handled
      <4>2. \A d \in Classes : catalog' = NULL <=> shard'[d] = NULL
        BY ZenonT(60), <2>5, <3>1 DEF ScanInv, ShardsOK
      <4> QED BY ZenonT(60), <4>1, <4>2 DEF ShardsOK
    <3> QED BY ZenonT(60), <3>2, <3>3
  <2>9. StepsOK'
    <3> SUFFICES ASSUME NEW y \in Scanners, scan'[y].stage # "idle" PROVE StepOK(y)'
      BY ZenonT(60) DEF StepsOK
    <3>1. scan'[y] = scan[y] /\ scan[y].stage # "idle"
      BY ZenonT(60), RestOK DEF ScanFails
    <3>2. shard[c].epoch <= row.epoch /\ row.owner # y
      BY <2>2, <2>4, ScanAssumption DEF ShardRows
    <3> QED BY ZenonT(60), <2>2, <2>4, <2>5, <3>1, <3>2, ShardWritten
  <2> QED BY ZenonT(60), <2>7, <2>8, <2>9 DEF ScanInv
<1> QED BY ZenonT(60), <1>1, <1>2

\* The commit moves the cursor over exactly the page's items, and the one that
\* completes the last shard creates the control rebuild.
LEMMA CommitShardOK ==
  ASSUME ScanInv, NEW x \in Scanners, CommitShard(x) PROVE ScanInv'
<1>1. PICK c \in Classes : c = scan[x].class
  BY ZenonT(60), StepType DEF CommitShard
<1>2. PICK p : p = scan[x].page
  BY ZenonT(60)
<1>3. /\ p \in SomePages /\ scan[x].stage = "accept" /\ scan[x].todo = {} /\ OwnsShard(x)
      /\ shard[c] \in ShardRows /\ shard[c] # NULL /\ StepOK(x)
  BY ZenonT(60), <1>1, <1>2, StepType DEF CommitShard, HoldsShard, ScanInv, StepsOK
<1>4. /\ shard[c].owner = x /\ shard[c].status = "scanning" /\ catalog # NULL
      /\ \A d \in Classes : shard[d] # NULL
  BY ZenonT(60), <1>1, <1>3, ScanAssumption DEF OwnsShard, ScanInv, ShardsOK, ShardRows
<1>5. /\ p.items = {i \in SourceRows[c] : i > shard[c].cursor /\ i <= p.next}
      /\ shard[c].cursor <= p.next /\ p.next <= shard[c].upper
      /\ p.complete => p.next = shard[c].upper
      /\ Handled(c, p.items)
  <2>1. scan[x].page.items \ scan[x].todo = p.items
    BY ZenonT(60), <1>2, <1>3
  <2>2. shard[c].cursor \in Nat /\ p.next \in Nat
    BY ZenonT(60), <1>3 DEF ShardRows, SomePages
  <2> QED BY ZenonT(60), <1>1, <1>2, <1>3, <2>1, <2>2 DEF StepOK
<1>6. shard[c].cursor \in Nat /\ p.next \in Nat /\ p.complete \in BOOLEAN /\ shard[c].epoch \in Nat
  BY ZenonT(60), <1>3 DEF ShardRows, SomePages
<1>7. /\ Passed(c, p.next) = Passed(c, shard[c].cursor) \cup p.items
      /\ Cardinality(Passed(c, p.next)) = shard[c].counted + Cardinality(p.items)
      /\ Cardinality(p.items) \in Nat
  <2>1. /\ Passed(c, p.next) = Passed(c, shard[c].cursor) \cup p.items
        /\ Cardinality(Passed(c, p.next)) =
             Cardinality(Passed(c, shard[c].cursor)) + Cardinality(p.items)
        /\ Cardinality(p.items) \in Nat
    <3>1. p.items = Between(c, shard[c].cursor, p.next)
      BY ZenonT(60), <1>5 DEF Between
    <3>2. PICK a \in Nat, b \in Nat : a = shard[c].cursor /\ b = p.next
      BY ZenonT(60), <1>6
    <3>3. /\ Passed(c, b) = Passed(c, a) \cup Between(c, a, b)
          /\ Cardinality(Passed(c, b)) = Cardinality(Passed(c, a)) + Cardinality(Between(c, a, b))
          /\ Cardinality(Between(c, a, b)) \in Nat
      <4>1. a <= b
        BY ZenonT(60), <1>5, <3>2
      <4> QED BY ZenonT(60), <4>1, PassedGrows
    <3> QED BY ZenonT(60), <3>1, <3>2, <3>3
  <2> QED BY ZenonT(60), <1>3, <2>1 DEF ScanInv, ShardsOK
<1>8. PICK row : row = Passing(shard[c], p)
  BY ZenonT(60)
<1>9. /\ row \in ShardRows /\ row.owner = NULL /\ row.epoch = shard[c].epoch
      /\ row.upper = shard[c].upper /\ row.cursor = p.next
      /\ row.status = (IF p.complete THEN "complete" ELSE "scanning")
      /\ row.counted = shard[c].counted + Cardinality(p.items)
  BY ZenonT(60), <1>3, <1>7, <1>8, PassingRow DEF ScanInv, ScanTypeOK
<1>10. /\ shard' = [shard EXCEPT ![c] = row] /\ UNCHANGED <<now, catalog, poster, accepted, absent>>
       /\ control' = (control \/ (p.complete /\ ~Pending(shard, c)))
       /\ scan' = [scan EXCEPT ![x] = Rest]
  BY ZenonT(60), <1>1, <1>2, <1>8 DEF CommitShard
<1>11. /\ shard'[c] = row /\ row # NULL /\ \A d \in Classes \ {c} : shard'[d] = shard[d]
       /\ shard' \in [Classes -> ShardRows \cup {NULL}]
  BY ZenonT(60), <1>9, <1>10, ScanAssumption DEF ScanInv, ScanTypeOK
<1>12. ScanTypeOK'
  <2>1. control' \in BOOLEAN
    BY ZenonT(60), <1>6, <1>10 DEF ScanInv, ScanTypeOK
  <2> QED BY ZenonT(60), <1>10, <1>11, <2>1, RestOK DEF ScanInv, ScanTypeOK
<1>13. ShardsOK'
  <2> SUFFICES ASSUME NEW d \in Classes
               PROVE  /\ catalog # NULL /\ shard'[d] # NULL
                      /\ shard'[d].upper = catalog[d] /\ shard'[d].cursor <= shard'[d].upper
                      /\ shard'[d].status = "complete" =>
                           shard'[d].owner = NULL /\ shard'[d].cursor = shard'[d].upper
                      /\ Handled(d, Passed(d, shard'[d].cursor))
                      /\ shard'[d].counted = Cardinality(Passed(d, shard'[d].cursor))
    BY ZenonT(60), <1>10 DEF ShardsOK, Handled, Passed
  <2>1. CASE d # c
    BY <1>4, <1>11, <2>1 DEF ScanInv, ShardsOK
  <2>2. CASE d = c
    <3>1. Handled(c, Passed(c, p.next))
      BY ZenonT(60), <1>3, <1>5, <1>7 DEF ScanInv, ShardsOK, Handled
    <3>2. shard[c].upper = catalog[c]
      BY ZenonT(60), <1>3 DEF ScanInv, ShardsOK
    <3> QED BY ZenonT(60), <1>4, <1>5, <1>7, <1>9, <1>11, <2>2, <3>1, <3>2
  <2> QED BY ZenonT(60), <2>1, <2>2
<1>14. ControlWithLast'
  <2>1. ~control
    BY ZenonT(60), <1>4 DEF ScanInv, ControlWithLast
  <2>2. control' <=> p.complete /\ \A d \in Classes \ {c} : shard[d].status = "complete"
    <3>1. Pending(shard, c) <=> \E d \in Classes \ {c} : shard[d].status # "complete"
      BY ZenonT(60) DEF Pending
    <3> QED BY <1>6, <1>10, <2>1, <3>1, Zenon
  <2>3. shard'[c].status = "complete" <=> p.complete
    BY ZenonT(60), <1>6, <1>9, <1>11
  <2>4. \A d \in Classes : shard'[d] # NULL
    BY ZenonT(60), <1>4, <1>11
  <2> QED BY ZenonT(60), <1>11, <2>2, <2>3, <2>4 DEF ControlWithLast
<1>15. StepsOK'
  <2> SUFFICES ASSUME NEW y \in Scanners, scan'[y].stage # "idle" PROVE StepOK(y)'
    BY ZenonT(60) DEF StepsOK
  <2>1. scan'[y] = scan[y] /\ scan[y].stage # "idle"
    BY ZenonT(60), <1>10, RestOK
  <2>2. shard[c].epoch <= row.epoch /\ row.owner # y
    BY <1>6, <1>9, ScanAssumption
  <2> QED BY ZenonT(60), <1>3, <1>9, <1>10, <2>1, <2>2, ShardWritten
<1> QED BY ZenonT(60), <1>12, <1>13, <1>14, <1>15 DEF ScanInv

\* Every step of the scan keeps the invariant.
LEMMA ScanStepOK == ScanInv /\ [ScanNext]_<<now, scanVars>> => ScanInv'
<1> SUFFICES ASSUME ScanInv, [ScanNext]_<<now, scanVars>> PROVE ScanInv'
  BY ZenonT(60)
<1>1. CASE UNCHANGED <<now, scanVars>>
  <2>1. ShardsOK' /\ ControlWithLast' /\ StepsOK'
    BY ZenonT(60), <1>1, ShardsUntouched DEF scanVars, StepsOK
  <2> QED BY ZenonT(60), <1>1, <2>1 DEF ScanInv, scanVars, ScanTypeOK
<1>2. CASE ScanTick
  BY ZenonT(60), <1>2, ScanTickOK
<1>3. ASSUME NEW x \in Scanners,
             \/ PostScan(x) \/ CreateSourceJob(x) \/ FetchPageOf(x) \/ AcceptItem(x)
             \/ CommitShard(x) \/ ScanFails(x) \/ ScanCrash(x)
             \/ \E c \in Classes : ClaimShard(x, c)
      PROVE  ScanInv'
  <2>1. PostScan(x) \/ CreateSourceJob(x) \/ FetchPageOf(x) \/ AcceptItem(x) => ScanInv'
    BY ZenonT(60), PostScanOK, CreateSourceJobOK, FetchPageOK, AcceptItemOK
  <2>2. CommitShard(x) \/ ScanFails(x) \/ ScanCrash(x) => ScanInv'
    BY ZenonT(60), CommitShardOK, ScanFailsOK, ScanCrashOK
  <2>3. (\E c \in Classes : ClaimShard(x, c)) => ScanInv'
    BY ZenonT(60), ClaimShardOK
  <2> QED BY ZenonT(60), <1>3, <2>1, <2>2, <2>3
<1> QED BY ZenonT(60), <1>1, <1>2, <1>3 DEF ScanNext

\* Every shard's cursor passes only rows that were accepted for the target or
\* reported absent and counts each of them once, the shards keep the ranges of
\* the catalog that was frozen first, and the control rebuild exists exactly
\* when every shard is complete: for any replicas, classes, tables and pages.
THEOREM ScanIsComplete == ScanSpec => []ScanComplete
<1>1. ScanInv => ScanComplete
  <2> SUFFICES ASSUME ScanInv PROVE ScanComplete
    BY ZenonT(60)
  <2>1. ScanCovers
    BY ZenonT(60) DEF ScanInv, ShardsOK, ScanCovers, Handled, Passed
  <2>2. FrozenRanges
    BY ZenonT(60) DEF ScanInv, ShardsOK, FrozenRanges
  <2> QED BY ZenonT(60), <2>1, <2>2 DEF ScanInv, ScanComplete
<1> QED BY <1>1, ScanInitOK, ScanStepOK, PTL DEF ScanSpec
=============================================================================
