------------------------------ MODULE TaskQueue ------------------------------
(***************************************************************************)
(* What the task queue promises to its clients, whichever store is behind  *)
(* it: the operations of Store, ExecutionStore and InboxStore, each one an *)
(* atomic step on the two task tables, the id counter and the inbox.  The  *)
(* stores are modelled in detail by MySQLStore and RedisStore, which are   *)
(* shown to implement this specification.                                  *)
(*                                                                         *)
(* A task is an id.  Its row keeps what the operations test: class, lease  *)
(* owner, lease expiry and failure count.  An expiry is a Unix second, or  *)
(* NULL for a task that was never leased nor delayed.                      *)
(***************************************************************************)
EXTENDS Clock, FiniteSets

CONSTANTS
  Owners,          \* lease owners: one identity per worker process
  YieldOwner,      \* the "(yield)" sentinel written in place of an owner
  Classes,         \* task classes
  Followups,       \* [Classes -> Nat]: children a finished task leaves behind
  ChildClass,      \* the class of those children
  Events,          \* idempotency keys of inbox events
  Payloads,        \* digests of an event's request
  LeaseDuration,   \* seconds a lease lasts
  RenewDurations,  \* seconds a renewal may ask for
  Waits,           \* retry waits and yield durations
  Delays,          \* enqueue delays; NULL is a task that may start at once
  YieldMin,        \* floor of a yield (5 seconds)
  AwakenWindow,    \* how far back Awaken moves an expiry (3600 seconds)
  MaxLag,          \* seconds between a lease call's clock read and its commit
  BatchLimit,      \* the most tasks one lease call asks for
  LegacyRoutes,    \* unfenced routes in use: a subset of LegacyNames
  MaxTasks, MaxFailures   \* bounds

LegacyNames == {"complete", "fail", "yield"}

ASSUME OwnersAssumption ==
  /\ NULL \notin Owners /\ YieldOwner \notin Owners /\ YieldOwner # NULL
  /\ NULL \notin Int /\ NULL \notin Events
ASSUME ClassesAssumption ==
  ChildClass \in Classes /\ Followups \in [Classes -> Nat]
ASSUME DurationsAssumption ==
  /\ LeaseDuration \in Nat \ {0} /\ RenewDurations \subseteq Nat \ {0}
  /\ Waits \subseteq Nat /\ Delays \subseteq Nat \cup {NULL} /\ YieldMin \in Nat /\ AwakenWindow \in Nat
  /\ MaxLag \in Nat /\ BatchLimit \in Nat \ {0}
ASSUME LegacyAssumption == LegacyRoutes \subseteq LegacyNames
ASSUME BoundsAssumption ==
  MaxTasks \in Nat /\ MaxTime \in Nat /\ MaxFailures \in Nat

VARIABLES
  counter,  \* lisk_counter: the last id handed out
  active,   \* worker_activetask: id -> row
  archive,  \* worker_archivetask: id -> row with a result
  inbox,    \* receipts: event -> the request's digest and its task
  origin,   \* history: id -> what created the task
  acked     \* history: leases answered with success by Finalize or its receipt

vars == <<now, counter, active, archive, inbox, origin, acked>>

(***************************************************************************)
(* Partial functions as tables.                                            *)
(***************************************************************************)
Put(f, k, v) == [x \in DOMAIN f \cup {k} |-> IF x = k THEN v ELSE f[x]]
Drop(f, k) == [x \in DOMAIN f \ {k} |-> f[x]]
Empty == [x \in {} |-> x]
MaxOf(a, b) == IF a >= b THEN a ELSE b

ActiveRow == [class: Classes, owner: Owners \cup {YieldOwner, NULL},
              expires: Int \cup {NULL}, failures: Nat]
\* The result column has one value for a success; the model also tells which
\* route wrote it, Finalize or the legacy complete.
ArchiveRow == [class: Classes, result: {"success", "completed", "failure", "cancelled"},
               owner: Owners \cup {YieldOwner, NULL}, expires: Int \cup {NULL}]
Init ==
  /\ ClockInit /\ counter = 0
  /\ active = Empty /\ archive = Empty /\ inbox = Empty
  /\ origin = Empty /\ acked = {}

Tick == Advance /\ UNCHANGED <<counter, active, archive, inbox, origin, acked>>

-----------------------------------------------------------------------------
(***************************************************************************)
(* Creating tasks.                                                         *)
(***************************************************************************)
NewRow(c, e) == [class |-> c, owner |-> NULL, expires |-> e, failures |-> 0]
Root == [parent |-> 0, slot |-> 0, event |-> NULL]

\* enqueueInTx: the next id, and a row nobody holds; a delayed task starts
\* with an expiry in place of NULL.
Insert(c, e, from) ==
  /\ counter < MaxTasks
  /\ counter' = counter + 1
  /\ active' = Put(active, counter + 1, NewRow(c, e))
  /\ origin' = Put(origin, counter + 1, from)

Enqueue(c, e) ==
  /\ Insert(c, e, Root)
  /\ UNCHANGED <<now, archive, inbox, acked>>

\* The receipt and the task commit together.  A known event answers with its
\* task, or with a conflict when the digest differs, and changes nothing.
EnqueueEvent(ev, p, c) ==
  /\ ev \notin DOMAIN inbox
  /\ Insert(c, NULL, [Root EXCEPT !.event = ev])
  /\ inbox' = Put(inbox, ev, [payload |-> p, task |-> counter + 1])
  /\ UNCHANGED <<now, archive, acked>>

-----------------------------------------------------------------------------
(***************************************************************************)
(* Leasing.  The call reads the clock as t and commits up to MaxLag later. *)
(* Which of the available tasks a call gets is the store's business.       *)
(***************************************************************************)
\* Mutant: a row without an owner is taken for a row that is not waiting.
AvailableWithoutOwner(r, t) == r.owner = NULL \/ (r.expires # NULL /\ r.expires <= t)

Available(r, t) == IF r.expires = NULL THEN r.owner = NULL ELSE r.expires <= t

Lease(o, t, S) ==
  /\ S # {} /\ Cardinality(S) <= BatchLimit
  /\ \A i \in S : Available(active[i], t)
  /\ active' = [i \in DOMAIN active |->
                  IF i \in S
                  THEN [active[i] EXCEPT !.owner = o, !.expires = t + LeaseDuration]
                  ELSE active[i]]
  /\ UNCHANGED <<now, counter, archive, inbox, origin, acked>>

\* Only tasks that yielded and never failed are awoken: their expiry moves
\* into the past, and the next lease call finds them.
Awaken(S) ==
  /\ active' = [i \in DOMAIN active |->
                  IF /\ i \in S /\ active[i].owner = YieldOwner
                     /\ active[i].expires > now - AwakenWindow
                     /\ active[i].failures = 0
                  THEN [active[i] EXCEPT !.expires = now - AwakenWindow]
                  ELSE active[i]]
  /\ UNCHANGED <<now, counter, archive, inbox, origin, acked>>

-----------------------------------------------------------------------------
(***************************************************************************)
(* Outcomes.                                                               *)
(***************************************************************************)
\* The lease columns of an archived row are only ever read from a success, as
\* the receipt of the execution that reported it.  The model keeps those that
\* Finalize wrote; those a legacy completion wrote are whatever lease the row
\* had when it was read.
Archived(r, result) ==
  [class |-> r.class, result |-> result,
   owner |-> IF result = "success" THEN r.owner ELSE NULL,
   expires |-> IF result = "success" THEN r.expires ELSE NULL]

\* archiveTask: the row moves to the archive in one transaction.
Archive(i, result) ==
  /\ archive' = Put(archive, i, Archived(active[i], result))
  /\ active' = Drop(active, i)
  /\ UNCHANGED <<now, counter, inbox, origin, acked>>

Retry(i, w) ==
  /\ active[i].failures < MaxFailures
  /\ active' = [active EXCEPT ![i].failures = @ + 1, ![i].owner = NULL,
                              ![i].expires = now + w]
  /\ UNCHANGED <<now, counter, archive, inbox, origin, acked>>

Park(i, d) ==
  /\ active' = [active EXCEPT ![i].owner = YieldOwner,
                              ![i].expires = now + MaxOf(d, YieldMin)]
  /\ UNCHANGED <<now, counter, archive, inbox, origin, acked>>

\* The routes kept for old clients name a task and nothing else: whoever calls
\* decides for whoever holds the lease.  Cancel is the operator's.
Complete(i) == "complete" \in LegacyRoutes /\ Archive(i, "completed")
Cancel(i) == Archive(i, "cancelled")
Fail(i, permanent, w) ==
  /\ "fail" \in LegacyRoutes
  /\ IF permanent THEN Archive(i, "failure") ELSE Retry(i, w)
Yield(i, d) == "yield" \in LegacyRoutes /\ Park(i, d)

(***************************************************************************)
(* The execution protocol.  A caller presents the lease it was given: the  *)
(* task, its owner and the exact expiry.  Any other lease than the row's   *)
(* own, or an expired one, is answered with ErrLeaseConflict and changes   *)
(* nothing, so the actions below are those of the leases that match.       *)
(***************************************************************************)
LeaseOf(table, i) == [id |-> i, owner |-> table[i].owner, expires |-> table[i].expires]

\* validExecutionLease: an owner and an expiry are there; they came from a lease
\* call, so the owner is a worker and never the yield sentinel.
ValidLease(l) == l.owner \in Owners /\ l.expires # NULL

\* lockExecution
Holds(l) ==
  /\ ValidLease(l)
  /\ l.id \in DOMAIN active
  /\ active[l.id].owner = l.owner /\ active[l.id].expires = l.expires
  /\ l.expires > now

\* The archived row is the receipt of the finalization that archived it.  A task
\* that a legacy client completed may be answered as a success too, when the
\* lease columns match by chance of timing; that answer changes nothing.
HasReceipt(l) ==
  /\ l.id \in DOMAIN archive
  /\ archive[l.id].owner = l.owner /\ archive[l.id].expires = l.expires
  /\ archive[l.id].result = "success"

Children(i) == Followups[active[i].class]

\* The followups are inserted, the parent archived, in one transaction.
FinalizeFirst(l) ==
  /\ Holds(l)
  /\ counter + Children(l.id) <= MaxTasks
  /\ LET new == (counter + 1)..(counter + Children(l.id)) IN
     /\ active' = [x \in (DOMAIN active \ {l.id}) \cup new |->
                     IF x \in new THEN NewRow(ChildClass, NULL) ELSE active[x]]
     /\ origin' = [x \in DOMAIN origin \cup new |->
                     IF x \in new
                     THEN [parent |-> l.id, slot |-> x - counter, event |-> NULL]
                     ELSE origin[x]]
  /\ counter' = counter + Children(l.id)
  /\ archive' = Put(archive, l.id, Archived(active[l.id], "success"))
  /\ acked' = acked \cup {l}
  /\ UNCHANGED <<now, inbox>>

\* Mutant: the followups are inserted again before the receipt is looked up.
FinalizeReplayInserts(l) ==
  /\ ValidLease(l) /\ HasReceipt(l)
  /\ Insert(ChildClass, NULL, [parent |-> l.id, slot |-> 1, event |-> NULL])
  /\ acked' = acked \cup {l}
  /\ UNCHANGED <<now, archive, inbox>>

\* A repeated Finalize finds no active row and answers from the receipt.
FinalizeReplay(l) ==
  /\ ValidLease(l)
  /\ l.id \notin DOMAIN active
  /\ HasReceipt(l)
  /\ acked' = acked \cup {l}
  /\ UNCHANGED <<now, counter, active, archive, inbox, origin>>

Finalize(l) == FinalizeFirst(l) \/ FinalizeReplay(l)

\* A renewal never shortens the lease it extends.
Renew(l, d) ==
  /\ Holds(l)
  /\ active' = [active EXCEPT ![l.id].expires = MaxOf(now + d, l.expires)]
  /\ UNCHANGED <<now, counter, archive, inbox, origin, acked>>

Resolve(l, outcome, w) ==
  /\ Holds(l)
  /\ \/ outcome = "failure" /\ Archive(l.id, "failure")
     \/ outcome = "retry" /\ Retry(l.id, w)
     \/ outcome = "yield" /\ Park(l.id, w)

-----------------------------------------------------------------------------
Next ==
  \/ Tick
  \/ \E c \in Classes, w \in Delays :
        Enqueue(c, IF w = NULL THEN NULL ELSE now + w)
  \/ \E ev \in Events, p \in Payloads, c \in Classes : EnqueueEvent(ev, p, c)
  \/ \E o \in Owners, lag \in 0..MaxLag, S \in SUBSET DOMAIN active :
        Lease(o, now - lag, S)
  \/ \E S \in SUBSET DOMAIN active : Awaken(S)
  \/ \E i \in DOMAIN active :
        \/ Complete(i)
        \/ Cancel(i)
        \/ \E permanent \in BOOLEAN, w \in Waits : Fail(i, permanent, w)
        \/ \E d \in Waits : Yield(i, d)
        \/ \E d \in RenewDurations : Renew(LeaseOf(active, i), d)
        \/ \E outcome \in {"failure", "retry", "yield"}, w \in Waits :
              Resolve(LeaseOf(active, i), outcome, w)
        \/ Finalize(LeaseOf(active, i))
  \/ \E i \in DOMAIN archive : Finalize(LeaseOf(archive, i))

Spec == Init /\ [][Next]_vars

-----------------------------------------------------------------------------
(***************************************************************************)
(* Properties.                                                             *)
(***************************************************************************)

\* The tables hold what the columns can hold.
TypeOK ==
  /\ now \in Nat /\ counter \in Nat
  /\ active \in [DOMAIN active -> ActiveRow]
  /\ archive \in [DOMAIN archive -> ArchiveRow]
  /\ inbox \in [DOMAIN inbox -> [payload: Payloads, task: Nat]]
  /\ origin \in [DOMAIN origin -> [parent: Nat, slot: Nat, event: Events \cup {NULL}]]
  /\ acked \subseteq [id: Nat, owner: Owners, expires: Int]

\* archiveTask's promise: every id ever handed out is in exactly one of the
\* two tables, however legacy calls, finalizations and cancellations of the
\* same task are interleaved.
OneTable ==
  /\ DOMAIN active \cap DOMAIN archive = {}
  /\ DOMAIN active \cup DOMAIN archive = 1..counter

\* A finalization inserts its followups once: two children of one parent never
\* fill the same slot, and only a task archived by Finalize has children.
\* Finalize is retried by the worker, so it runs again after it committed.
ChildrenOnce ==
  \A c \in DOMAIN origin : origin[c].parent # 0 =>
    /\ origin[c].parent \in DOMAIN archive
    /\ archive[origin[c].parent].result = "success"
    /\ \A d \in DOMAIN origin :
         origin[d].parent = origin[c].parent /\ origin[d].slot = origin[c].slot => c = d

\* Whoever was told that its Finalize succeeded, at the first call or from the
\* receipt of one, has every followup of the task in the queue.  A task that a
\* legacy client completed while the lease ran is the exception: nobody inserted
\* its followups.
AckedFollowups ==
  \A l \in acked :
    /\ HasReceipt(l)
    /\ \A k \in 1..Followups[archive[l.id].class] :
         \E c \in DOMAIN origin : origin[c].parent = l.id /\ origin[c].slot = k

\* EnqueueEvent called any number of times for an event, by any number of
\* relays, creates one task, and the receipt names it even after the task is
\* archived.
OneTaskPerEvent ==
  /\ \A ev \in DOMAIN inbox :
       inbox[ev].task \in DOMAIN origin /\ origin[inbox[ev].task].event = ev
  /\ \A i, j \in DOMAIN origin :
       origin[i].event # NULL /\ origin[i].event = origin[j].event => i = j

\* Nothing brings an archived task back or rewrites its result, and no receipt
\* of an event is rewritten.
RecordsFinalStep ==
  /\ \A i \in DOMAIN archive : i \in DOMAIN archive' /\ archive'[i] = archive[i]
  /\ \A ev \in DOMAIN inbox : ev \in DOMAIN inbox' /\ inbox'[ev] = inbox[ev]
RecordsFinal == [][RecordsFinalStep]_vars

\* A task whose expiry is ahead, be it a running lease, a retry backoff, a
\* yield or an enqueue delay, is handed to nobody: a step that leaves it with
\* a worker leaves it with the worker that already had it, and for no less
\* time than before.
HeldUntilExpiryStep ==
  \A i \in DOMAIN active \cap DOMAIN active' :
    /\ active[i].expires # NULL
    /\ active[i].expires > now
    /\ active'[i].owner \in Owners
    => /\ active'[i].owner = active[i].owner
       /\ active'[i].expires >= active[i].expires
HeldUntilExpiry == [][HeldUntilExpiryStep]_vars

\* Whatever is repeated, late or unfenced: a task is in exactly one table, a
\* follow-up and an event have one task, and an acknowledged finalization has
\* its receipt and every follow-up (finalize, EnqueueEvent and archiveTask).
NothingLostOrDoubled == TypeOK /\ OneTable /\ ChildrenOnce /\ AckedFollowups /\ OneTaskPerEvent

\* No step takes back what the queue has promised: neither a record or receipt
\* nor, before its expiry, a lease.
NothingTakenBack == RecordsFinal /\ HeldUntilExpiry
=============================================================================
