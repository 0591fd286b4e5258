-------------------------- MODULE SearchProjection --------------------------
(***************************************************************************)
(* Search projection: the relay moves committed PHP snapshots into the     *)
(* control database (relay.go, mysql.go), delivery workers lease one row   *)
(* per target revision and write it to a physical index generation with    *)
(* external versions (delivery.go, worker.go, elasticsearch/projection.go).*)
(*                                                                         *)
(* An envelope is [id, phid, rev, content]; two envelopes with different   *)
(* content have different hashes.  The source outbox of PHP and the search *)
(* backend are external.  A page or batch holds one row.                   *)
(***************************************************************************)
EXTENDS Clock, FiniteSets

CONSTANTS
  PHIDs,          \* object identities, 1..n in collation order
  MaxRev,         \* bound: the highest revision the publisher assigns
  Published,      \* envelopes the publisher puts into its outbox
  Targets,        \* index generations
  Relays,         \* relay or HTTP ingress replicas
  RelayTargets,   \* [Relays -> SUBSET Targets], each replica's configuration
  Workers,        \* delivery workers
  WorkerTarget,   \* [Workers -> Targets]
  LeaseTTL,       \* 30 s, in ticks
  MaxTries,       \* bound: failed relay attempts of one event
  MaxEpoch        \* bound: claims of one delivery row

VARIABLES
  outbox,      \* search_gorgeoutbox: [delivered, attempts, next]
  inbox,       \* search_projection_inbox: the receipt [status, targets], or NULL
  revisions,   \* search_projection_revision: contentHash, or NULL
  head,        \* search_projection_head: the latest envelope, or NULL
  delivery,    \* search_projection_delivery, per target, phid and revision
  relay,       \* the event a relay is handling
  worker,      \* the delivery a worker holds
  wire,        \* backend writes whose sender stopped waiting
  backend      \* external: document version and content per target and phid

controlVars == <<inbox, revisions, head, delivery>>
searchVars == <<now, outbox, inbox, revisions, head, delivery, relay, worker,
                wire, backend>>

Revs == 1..MaxRev
ReAddressed(e) == [e EXCEPT !.id = "rebuild"]
Envelopes == Published \cup {ReAddressed(e) : e \in Published}
Row(t, p, r) == delivery[t][p][r]
HeadRev(p) == IF head[p] = NULL THEN 0 ELSE head[p].rev
Absent == [rev |-> 0, content |-> NULL]
Free == [stage |-> "idle"]

SearchInit ==
  /\ ClockInit
  /\ outbox = [e \in Published |-> [delivered |-> FALSE, attempts |-> 0, next |-> 0]]
  /\ inbox = [e \in Envelopes |-> NULL]
  /\ revisions = [p \in PHIDs |-> [r \in Revs |-> NULL]]
  /\ head = [p \in PHIDs |-> NULL]
  /\ delivery = [t \in Targets |-> [p \in PHIDs |-> [r \in Revs |-> NULL]]]
  /\ relay = [x \in Relays |-> Free]
  /\ worker = [w \in Workers |-> Free]
  /\ wire = {}
  /\ backend = [t \in Targets |-> [p \in PHIDs |-> Absent]]

-----------------------------------------------------------------------------
(* MySQLStore.Accept, one transaction.                                     *)

SameContent(e) == revisions[e.phid][e.rev] \in {NULL, e.content}

NewDelivery(e) ==
  [event |-> e, status |-> "pending", owner |-> NULL, epoch |-> 0,
   expires |-> 0, next |-> 0]

\* ON DUPLICATE KEY leaves an existing delivery alone
Scheduled(e, targets) == {t \in targets : Row(t, e.phid, e.rev) = NULL}

\* the transaction commits and the receipt says status
Commit(e, targets, status) ==
  /\ SameContent(e)
  /\ revisions' = [revisions EXCEPT ![e.phid][e.rev] = e.content]
  /\ IF status = "superseded"
     THEN /\ inbox' = [inbox EXCEPT ![e] = [status |-> status, targets |-> {}]]
          /\ UNCHANGED <<head, delivery>>
     ELSE /\ inbox' = [inbox EXCEPT ![e] = [status |-> status, targets |-> targets]]
          /\ head' = [head EXCEPT ![e.phid] = e]
          /\ delivery' = [t \in Targets |->
               IF t \in Scheduled(e, targets)
               THEN [delivery[t] EXCEPT ![e.phid][e.rev] = NewDelivery(e)]
               ELSE delivery[t]]

StatusFor(e) == IF e.rev < HeadRev(e.phid) THEN "superseded" ELSE "accepted"

\* a stored receipt is replayed; ErrRevisionConflict rolls back
Accepts(e, targets) ==
  IF inbox[e] # NULL THEN UNCHANGED controlVars
                     ELSE Commit(e, targets, StatusFor(e))

Refuses(e) ==
  inbox[e] = NULL /\ ~SameContent(e) /\ UNCHANGED controlVars

\* POST /api/search/projections: the publisher's own delivery attempt; a
\* refused or failed transaction changes nothing
Post(x, e) ==
  /\ inbox[e] = NULL
  /\ Accepts(e, RelayTargets[x])
  /\ UNCHANGED <<now, outbox, relay, worker, wire, backend>>

-----------------------------------------------------------------------------
(* Relay.Once, one row of the batch at a time.                             *)

RelayRead(x) ==
  /\ relay[x].stage = "idle"
  /\ \E e \in Published :
       /\ ~outbox[e].delivered /\ outbox[e].next <= now
       /\ relay' = [relay EXCEPT ![x] =
            [stage |-> "accept", event |-> e, attempts |-> outbox[e].attempts]]
  /\ UNCHANGED <<now, outbox, controlVars, worker, wire, backend>>

Heard(ok) == IF ok THEN "ack" ELSE "backoff"

\* ok: the receipt arrived; otherwise the database refused, failed, or
\* committed and the answer was lost
RelayAccept(x) ==
  /\ relay[x].stage = "accept"
  /\ \E ok \in {TRUE} \cup {b \in {FALSE} : relay[x].attempts < MaxTries} :
       /\ \/ Accepts(relay[x].event, RelayTargets[x])
          \/ ~ok /\ Refuses(relay[x].event)
          \/ ~ok /\ UNCHANGED controlVars
       /\ relay' = [relay EXCEPT ![x] =
            [stage |-> Heard(ok), event |-> @.event, attempts |-> @.attempts]]
  /\ UNCHANGED <<now, outbox, worker, wire, backend>>

RelayReport(x) ==
  /\ relay[x].stage \in {"ack", "backoff"}
  /\ LET e == relay[x].event
         live == ~outbox[e].delivered
     IN outbox' =
          IF relay[x].stage = "ack" /\ live
          THEN [outbox EXCEPT ![e].delivered = TRUE]
          ELSE IF live /\ outbox[e].attempts = relay[x].attempts
               THEN [outbox EXCEPT ![e].next = Later(1), ![e].attempts = @ + 1]
               ELSE outbox
  /\ relay' = [relay EXCEPT ![x] = Free]
  /\ UNCHANGED <<now, controlVars, worker, wire, backend>>

RelayStop(x) ==
  /\ relay[x].stage # "idle"
  /\ relay' = [relay EXCEPT ![x] = Free]
  /\ UNCHANGED <<now, outbox, controlVars, worker, wire, backend>>

-----------------------------------------------------------------------------
(* Worker.Once over Claim, Renew and Finish.                               *)

Leasable(row) ==
  /\ row # NULL /\ row.next <= now /\ row.epoch < MaxEpoch
  /\ \/ row.status = "pending"
     \/ row.status = "running" /\ row.expires <= now

\* ORDER BY revision, phid LIMIT 1
First(t) ==
  CHOOSE k \in {<<r, p>> \in Revs \X PHIDs : Leasable(Row(t, p, r))} :
    \A j \in {<<r, p>> \in Revs \X PHIDs : Leasable(Row(t, p, r))} :
      k[1] < j[1] \/ (k[1] = j[1] /\ k[2] <= j[2])

Claim(w) ==
  LET t == WorkerTarget[w]
      p == First(t)[2]
      r == First(t)[1]
      row == Row(t, p, r)
  IN /\ worker[w].stage = "idle"
     /\ \E q \in PHIDs, s \in Revs : Leasable(Row(t, q, s))
     /\ delivery' = [delivery EXCEPT ![t][p][r] =
          [@ EXCEPT !.status = "running", !.owner = w, !.epoch = @ + 1,
                    !.expires = Later(LeaseTTL)]]
     /\ worker' = [worker EXCEPT ![w] =
          [stage |-> "put", phid |-> p, rev |-> r, event |-> row.event,
           epoch |-> row.epoch + 1, cancelled |-> FALSE, result |-> "retry"]]
     /\ UNCHANGED <<now, outbox, inbox, revisions, head, relay, wire, backend>>

Delivering(w) == Row(WorkerTarget[w], worker[w].phid, worker[w].rev)

\* the WHERE clause of updateLease
Leases(w) ==
  /\ Delivering(w).status = "running" /\ Delivering(w).owner = w
  /\ Delivering(w).epoch = worker[w].epoch /\ Delivering(w).expires > now

SetRow(w, row) ==
  delivery' = [delivery EXCEPT ![WorkerTarget[w]][worker[w].phid][worker[w].rev] = row]

\* a lost renewal cancels the job
Heartbeat(w) ==
  /\ worker[w].stage \in {"put", "get"} /\ ~worker[w].cancelled
  /\ IF Leases(w)
     THEN SetRow(w, [Delivering(w) EXCEPT !.expires = Later(LeaseTTL)]) /\ UNCHANGED worker
     ELSE /\ worker' = [worker EXCEPT ![w].cancelled = TRUE]
          /\ UNCHANGED delivery
  /\ UNCHANGED <<now, outbox, inbox, revisions, head, relay, wire, backend>>

\* the two-minute deadline of a job, or a shutdown
JobStopped(w) ==
  /\ worker[w].stage # "idle" /\ ~worker[w].cancelled
  /\ worker' = [worker EXCEPT ![w].cancelled = TRUE]
  /\ UNCHANGED <<now, outbox, controlVars, relay, wire, backend>>

AnyVersion(t, e) == TRUE

\* external: strict external versions
Newer(t, e) == e.rev > backend[t][e.phid].rev

Stored(t, e) ==
  backend' = [backend EXCEPT ![t][e.phid] = [rev |-> e.rev, content |-> e.content]]

ToReport(w, result) ==
  worker' = [worker EXCEPT ![w].stage = "report", ![w].result = result]

\* ApplyProjection: the PUT and its receipt
PutApplied(w) ==
  /\ worker[w].stage = "put" /\ ~worker[w].cancelled
  /\ Newer(WorkerTarget[w], worker[w].event)
  /\ Stored(WorkerTarget[w], worker[w].event)
  /\ ToReport(w, "applied")
  /\ UNCHANGED <<now, outbox, controlVars, relay, wire>>

PutConflict(w) ==
  /\ worker[w].stage = "put" /\ ~worker[w].cancelled
  /\ ~Newer(WorkerTarget[w], worker[w].event)
  /\ worker' = [worker EXCEPT ![w].stage = "get"]
  /\ UNCHANGED <<now, outbox, controlVars, relay, wire, backend>>

\* an error, a timeout or a cancelled job: the write may still arrive
PutFails(w) ==
  /\ worker[w].stage = "put"
  /\ wire' \in {wire, wire \cup {<<WorkerTarget[w], worker[w].event>>}}
  /\ ToReport(w, "retry")
  /\ UNCHANGED <<now, outbox, controlVars, relay, backend>>

WireArrives ==
  \E m \in wire :
    /\ wire' = wire \ {m}
    /\ IF Newer(m[1], m[2]) THEN Stored(m[1], m[2]) ELSE UNCHANGED backend
    /\ UNCHANGED <<now, outbox, controlVars, relay, worker>>

\* the realtime GET after a 409
ConflictVerdict(e, doc) ==
  CASE doc.rev > e.rev -> "superseded"
    [] doc.rev = e.rev /\ doc.content = e.content -> "applied"
    [] OTHER -> "retry"

GetCurrent(w) ==
  /\ worker[w].stage = "get"
  /\ \/ /\ ~worker[w].cancelled
        /\ ToReport(w, ConflictVerdict(worker[w].event,
                         backend[WorkerTarget[w]][worker[w].phid]))
     \/ ToReport(w, "retry")
  /\ UNCHANGED <<now, outbox, controlVars, relay, wire, backend>>

\* ok = FALSE: the report itself fails; the row stays leased
Finish(w) ==
  /\ worker[w].stage = "report"
  /\ \E ok \in BOOLEAN :
       IF ok /\ Leases(w)
       THEN LET result == IF worker[w].cancelled THEN "retry" ELSE worker[w].result
            IN SetRow(w, [Delivering(w) EXCEPT
                 !.status = IF result = "retry" THEN "pending" ELSE result,
                 !.owner = NULL, !.expires = 0,
                 !.next = IF result = "retry" THEN Later(1) ELSE 0])
       ELSE UNCHANGED delivery
  /\ worker' = [worker EXCEPT ![w] = Free]
  /\ UNCHANGED <<now, outbox, inbox, revisions, head, relay, wire, backend>>

WorkerCrash(w) ==
  /\ worker[w].stage # "idle"
  /\ wire' \in {wire} \cup
       {wire \cup {<<WorkerTarget[w], worker[w].event>>} : s \in {worker[w].stage} \cap {"put"}}
  /\ worker' = [worker EXCEPT ![w] = Free]
  /\ UNCHANGED <<now, outbox, controlVars, relay, backend>>

SearchTick == Advance /\ UNCHANGED <<outbox, controlVars, relay, worker, wire, backend>>

Ingest == \E x \in Relays, e \in Published : Post(x, e)

RelaySteps ==
  \E x \in Relays : RelayRead(x) \/ RelayAccept(x) \/ RelayReport(x) \/ RelayStop(x)

Delivers(w) ==
  \/ Claim(w) \/ PutApplied(w) \/ PutConflict(w) \/ GetCurrent(w) \/ Finish(w)

WorkerSteps ==
  \E w \in Workers :
    \/ Delivers(w) \/ Heartbeat(w) \/ JobStopped(w) \/ PutFails(w) \/ WorkerCrash(w)

SearchNext == SearchTick \/ WireArrives \/ Ingest \/ RelaySteps \/ WorkerSteps

-----------------------------------------------------------------------------
(* Properties.                                                             *)

\* A delivery row marked applied or superseded is true of the index: the
\* document is at that revision or a newer one, whatever was lost, replayed
\* or written late by a worker that had lost its lease (worker.go, Once).
AppliedIsStored ==
  \A t \in Targets, p \in PHIDs, r \in Revs :
    Row(t, p, r) # NULL =>
      /\ Row(t, p, r).status = "applied" => backend[t][p].rev >= r
      /\ Row(t, p, r).status = "superseded" => backend[t][p].rev > r

\* An index never shows content other than the one content the control
\* database recorded for that revision, nor a revision above the head.
OneContentPerRevision ==
  \A t \in Targets, p \in PHIDs :
    LET doc == backend[t][p] IN
      /\ doc.rev > 0 => doc.content = revisions[p][doc.rev]
      /\ doc.rev <= HeadRev(p)

\* A snapshot acknowledged in the publisher's outbox is durable: its receipt
\* exists and the head is at its revision or a newer one (relay.go, Once).
AckedIsDurable ==
  \A e \in Published :
    outbox[e].delivered => inbox[e] # NULL /\ HeadRev(e.phid) >= e.rev

\* Every accepted receipt can be looked up again: each target it names has
\* its delivery row (inspection.go, EventStatus), also for a revision that
\* another event had brought before.
StatusAvailable ==
  \A e \in Envelopes :
    inbox[e] # NULL => \A t \in inbox[e].targets : Row(t, e.phid, e.rev) # NULL

\* No step takes a document, a head or a receipt back: a late write of an
\* expired worker cannot undo a newer one.
NeverBack ==
  [][/\ \A t \in Targets, p \in PHIDs : backend'[t][p].rev >= backend[t][p].rev
     /\ \A p \in PHIDs : head[p] # NULL => head'[p] # NULL /\ head'[p].rev >= head[p].rev
     /\ \A e \in Envelopes : inbox[e] # NULL => inbox'[e] = inbox[e]]_searchVars

\* Replicas, lost leases and late writes leave the index faithful: an applied
\* revision is stored with its one content, an acknowledged event is durable and
\* can be looked up, and nothing goes back to an older revision.
ProjectionFaithful ==
  /\ [](AppliedIsStored /\ OneContentPerRevision /\ AckedIsDurable /\ StatusAvailable)
  /\ NeverBack
=============================================================================
