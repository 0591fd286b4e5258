------------------------- MODULE WebhookDispatcher -------------------------
(***************************************************************************)
(* The webhook dispatcher: processes that poll Phorge's request table,     *)
(* claim a request by advancing its dateModified, POST it and write the    *)
(* result back.  The table belongs to Phorge and has no column for a       *)
(* claim; dateModified, with the resolution of a second, is version and    *)
(* lease at once.                                                          *)
(*                                                                         *)
(* A slot is a goroutine running processRequest.  All requests here are    *)
(* for one hook, whose deliveries a process serialises with a lock and     *)
(* whose recent failures open the circuit breaker.                         *)
(***************************************************************************)
EXTENDS Clock, FiniteSets

CONSTANTS
  WebhookRequests,  \* request rows
  Slots,            \* goroutines
  Procs, ProcOf,    \* processes, and [Slots -> Procs]
  RetryForever,     \* requests that go back to the queue when they fail
  Malformed,        \* requests whose properties do not parse
  Lease,            \* ClaimLease()
  DeliveryTimeout,  \* the HTTP client's timeout
  WriteDelay,       \* seconds a result may take to reach the table
  RetryBackoff,     \* seconds between a failure and the next attempt
  BreakerWindow, BreakerThreshold,
  MaxStatusChanges  \* bound: the hook's status changes

\* ClaimLease() raises the lease to the delivery timeout.
ASSUME WebhookAssumption ==
  /\ ProcOf \in [Slots -> Procs]
  /\ RetryForever \subseteq WebhookRequests /\ Malformed \subseteq WebhookRequests
  /\ {Lease, DeliveryTimeout, WriteDelay, RetryBackoff, BreakerWindow,
      BreakerThreshold, MaxTime, MaxStatusChanges} \subseteq Nat
  /\ DeliveryTimeout <= Lease

VARIABLES
  row,      \* herald_webhookrequest, for the requests that were created
  enabled,  \* whether the hook is enabled
  changes,  \* status changes of the hook so far
  slot      \* what each goroutine does

webhookVars == <<now, row, enabled, changes, slot>>

IdleSlot == [pc |-> "idle"]

WebhookInit ==
  /\ ClockInit /\ enabled = TRUE /\ changes = 0
  /\ row = [q \in {} |-> q]
  /\ slot = [s \in Slots |-> IdleSlot]

-----------------------------------------------------------------------------
\* A POST is over when the client's timeout is; the result is written, or the
\* write has failed, WriteDelay later.
WebhookTick ==
  /\ Advance
  /\ \A s \in Slots : slot[s].pc \in {"post", "record"} => now < slot[s].until
  /\ UNCHANGED <<row, enabled, changes, slot>>

\* Phorge queues a request; both dates are the current second.
Create(q) ==
  /\ q \notin DOMAIN row
  /\ row' = [x \in DOMAIN row \cup {q} |->
               IF x # q THEN row[x]
               ELSE [status |-> "queued", result |-> "none", epoch |-> 0,
                     created |-> now, modified |-> now]]
  /\ UNCHANGED <<now, enabled, changes, slot>>

SetHookStatus ==
  /\ changes < MaxStatusChanges
  /\ enabled' = ~enabled /\ changes' = changes + 1
  /\ UNCHANGED <<now, row, slot>>

-----------------------------------------------------------------------------
Become(s, f) == slot' = [slot EXCEPT ![s] = f]

\* fetchClaimableStmt
RequestClaimable(q) ==
  /\ row[q].status = "queued"
  /\ row[q].modified = row[q].created \/ row[q].modified <= now - Lease
  /\ row[q].result # "fail" \/ row[q].epoch <= now - RetryBackoff

\* poll hands a candidate to a goroutine.  A candidate that waits for the
\* semaphore is a slot that has not looked up its hook.
Fetch(s, q) ==
  /\ slot[s].pc = "idle" /\ RequestClaimable(q)
  /\ Become(s, [pc |-> "candidate", req |-> q, version |-> row[q].modified])
  /\ UNCHANGED <<now, row, enabled, changes>>

\* Properties that do not parse and a hook that is disabled or missing retire
\* the request; when the database does not answer the request is left alone.
LookUpHook(s) ==
  LET malformed == slot[s].req \in Malformed IN
  /\ slot[s].pc = "candidate"
  /\ \/ /\ malformed \/ ~enabled
        /\ Become(s, [slot[s] EXCEPT !.pc = "retire"])
     \/ /\ ~malformed /\ enabled
        /\ Become(s, [slot[s] EXCEPT !.pc = "wait"])
     \/ ~malformed /\ Become(s, IdleSlot)
  /\ UNCHANGED <<now, row, enabled, changes>>

\* UpdateResult writes by id, whatever the row holds by now.
UpdateResult(q, status, result, epoch) ==
  row' = [row EXCEPT ![q].status = status, ![q].result = result,
                     ![q].epoch = epoch, ![q].modified = now]

\* configFailed
Retire(s) ==
  /\ slot[s].pc = "retire"
  /\ UpdateResult(slot[s].req, "failed", "none", 0) \/ UNCHANGED row
  /\ Become(s, IdleSlot)
  /\ UNCHANGED <<now, enabled, changes>>

\* lockHook: held until processRequest returns.
HoldsHook(t) == slot[t].pc \in {"claim", "post", "record"}
HookFree(p) == \A t \in Slots : ProcOf[t] = p => ~HoldsHook(t)

RecentFailures ==
  {q \in DOMAIN row : row[q].result = "fail" /\ row[q].epoch >= now - BreakerWindow}
inErrorBackoff == Cardinality(RecentFailures) >= BreakerThreshold

\* With the lock the breaker is asked; when it is open, or the failures cannot
\* be counted, the request waits.
LockHook(s) ==
  /\ slot[s].pc = "wait" /\ HookFree(ProcOf[s])
  /\ \/ ~inErrorBackoff /\ Become(s, [slot[s] EXCEPT !.pc = "claim"])
     \/ Become(s, IdleSlot)
  /\ UNCHANGED <<now, row, enabled, changes>>

\* Mutant: the new version is the plain clock.
ClaimedVersionClock(v) == now

\* GREATEST(dateModified + 1, UNIX_TIMESTAMP())
ClaimedVersion(v) == IF v + 1 >= now THEN v + 1 ELSE now

UnclaimedSince(q, version) == row[q].status = "queued" /\ row[q].modified = version

\* claimStmt, a compare and set.  When the statement fails it may or may not
\* have been executed, and the request is left alone.
ClaimRequest(s) ==
  LET q == slot[s].req
      won == UnclaimedSince(q, slot[s].version)
      take == row' = [row EXCEPT ![q].modified = ClaimedVersion(@)]
  IN
  /\ slot[s].pc = "claim"
  /\ \/ /\ won /\ take
        /\ Become(s, [pc |-> "post", req |-> q, until |-> now + DeliveryTimeout])
     \/ won /\ take /\ Become(s, IdleSlot)
     \/ UNCHANGED row /\ Become(s, IdleSlot)
  /\ UNCHANGED <<now, enabled, changes>>

\* The receiver answers, refuses or stays silent; its body is read and dropped
\* within the same timeout before the result is written.
Respond(s, result) ==
  /\ slot[s].pc = "post"
  /\ Become(s, [pc |-> "record", req |-> slot[s].req, until |-> slot[s].until + WriteDelay,
                result |-> result, epoch |-> now])
  /\ UNCHANGED <<now, row, enabled, changes>>

\* delivered, attemptFailed
StatusAfter(q, result) ==
  IF result = "okay" THEN "sent" ELSE IF q \in RetryForever THEN "queued" ELSE "failed"

\* record: a write that fails is logged, and the lease is the recovery.
Record(s) ==
  LET k == slot[s] IN
  /\ k.pc = "record"
  /\ \/ UpdateResult(k.req, StatusAfter(k.req, k.result), k.result, k.epoch)
     \/ UNCHANGED row
  /\ Become(s, IdleSlot)
  /\ UNCHANGED <<now, enabled, changes>>

\* The process dies, or is cancelled and its writes fail.
ProcessCrash(p) ==
  /\ \E s \in Slots : ProcOf[s] = p /\ slot[s].pc # "idle"
  /\ slot' = [s \in Slots |-> IF ProcOf[s] = p THEN IdleSlot ELSE slot[s]]
  /\ UNCHANGED <<now, row, enabled, changes>>

SlotStep(s) ==
  \/ LookUpHook(s)
  \/ Retire(s)
  \/ LockHook(s)
  \/ ClaimRequest(s)
  \/ \E result \in {"okay", "fail"} : Respond(s, result)
  \/ Record(s)

WebhookNext ==
  \/ WebhookTick
  \/ \E q \in WebhookRequests : Create(q)
  \/ SetHookStatus
  \/ \E s \in Slots :
        \/ \E q \in DOMAIN row : Fetch(s, q)
        \/ SlotStep(s)
  \/ \E p \in Procs : ProcessCrash(p)

WebhookSpec == WebhookInit /\ [][WebhookNext]_webhookVars

-----------------------------------------------------------------------------
\* A request is never POSTed by two attempts at the same time, in one process
\* or in several: a candidate read before another attempt claimed the row loses
\* its claim, and the lease outlasts the delivery.
OneDelivery ==
  \A s, t \in Slots :
    slot[s].pc \in {"post", "record"} /\ slot[t].pc \in {"post", "record"}
    /\ slot[s].req = slot[t].req => s = t

\* The breaker holds: a hook never has more recent failures than the threshold
\* and one delivery in flight for each of the other processes.
BreakerBound == Cardinality(RecentFailures) <= BreakerThreshold + Cardinality(Procs) - 1

\* A failed request is attempted again after the longer of lease and backoff.
RetrySpacedStep ==
  \A s \in Slots : slot[s].pc = "claim" /\ slot'[s].pc = "post" =>
    LET r == row[slot[s].req]
        wait == IF Lease >= RetryBackoff THEN Lease ELSE RetryBackoff
    IN  r.result = "fail" => now >= r.epoch + wait
RetrySpaced == [][RetrySpacedStep]_webhookVars

\* A request that was delivered is never put back in the queue or counted as a
\* failed attempt, by an attempt that read it before: only a retirement, which
\* UpdateResult writes without a claim, can still reach it.
SentNotRetriedStep ==
  \A q \in DOMAIN row : row[q].status = "sent" /\ row'[q].status # "sent" =>
    row'[q].status = "failed" /\ row'[q].result = "none"
SentNotRetried == [][SentNotRetriedStep]_webhookVars

\* Deliveries of one request never overlap, a success is not posted again, and
\* the failures of a hook stay within what its breaker lets pass, with several
\* dispatchers that crash and are late (ClaimRequest, UpdateResult).
DeliversOnce == [](OneDelivery /\ BreakerBound) /\ SentNotRetried
=============================================================================
