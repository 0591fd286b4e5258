---------------------------- MODULE MailDelivery ----------------------------
(***************************************************************************)
(* Durable mail delivery: the ledger rows and attempt audit of             *)
(* DeliveryService, the provider failover of Dispatcher, the requests of   *)
(* the submit handler, and the projection of results to the PHP source.    *)
(*                                                                         *)
(* A ledger transaction locks its row, so it is one step.  A request goes  *)
(* on between its transactions, may crash anywhere, and may outlive every  *)
(* timeout; a commit may succeed while its caller sees an error.  A        *)
(* provider may accept a message whose reply nobody reads.                 *)
(***************************************************************************)
EXTENDS Clock, FiniteSets, Sequences

CONSTANTS
  Mails,
  Mailings,     \* contents a delivery identity is requested with
  Deadline,     \* payload -> its Deadline
  MailerKeys,   \* payload -> the keys it is restricted to ({}: any)
  Gated,        \* payloads that carry an Authorization
  Specs,        \* configured mailers: sequence of [key, kind, priority]
  MaxRetries,   \* RetryPolicy.MaxRetries, of one adapter
  MaxAttempts,  \* ledger attempts before a retryable failure is final (12)
  StaleAfter,   \* age at which a submission counts as abandoned (120 s)
  RetryUnit,    \* the 30 s the retry delay doubles from
  Requests,     \* concurrent requests of all mailer processes
  SlotLimit     \* places of Slots

VARIABLES
  rows,       \* mail -> its gorge_mail_delivery row, or NULL
  attempts,   \* mail -> outcomes in gorge_mail_attempt, by attempt
  req,        \* request -> its progress
  accepted,   \* mail -> times some provider accepted it
  orphans,    \* mail -> provider calls nobody waits for that may yet be accepted
  source,     \* mail -> the result PHP holds
  projector   \* the result being projected, or NULL

mailVars == <<now, rows, attempts, req, accepted, orphans, source, projector>>

Idle == [pc |-> "idle"]
Unsettled == {"prepared", "retry_wait"}
Terminal == {"accepted", "failed", "unknown", "expired", "cancelled"}
NoResult == [state |-> "none", revision |-> -1]

MailStates == Unsettled \cup Terminal \cup {"submitting"}
MailRows ==
  [payload : Mailings, state : MailStates, revision : Nat, attempt : Nat, next : Nat,
   started : Nat, pending : BOOLEAN, projectAt : Nat]

RetryDelay(a) == RetryUnit * 2^(IF a - 1 < 7 THEN a - 1 ELSE 7)

ASSUME MailAssumption ==
  /\ Deadline \in [Mailings -> Nat] /\ Gated \subseteq Mailings
  /\ MaxRetries \in Nat /\ MaxAttempts \in Nat \ {0} /\ StaleAfter \in Nat \ {0} /\ MaxTime \in Nat
  /\ \A a \in 1..MaxAttempts : RetryDelay(a) \in Nat
  /\ NULL \notin MailRows

MailInit ==
  /\ ClockInit
  /\ rows = [m \in Mails |-> NULL]
  /\ attempts = [m \in Mails |-> <<>>]
  /\ req = [r \in Requests |-> Idle]
  /\ accepted = [m \in Mails |-> 0]
  /\ orphans = [m \in Mails |-> 0]
  /\ source = [m \in Mails |-> NoResult]
  /\ projector = NULL

MailTick ==
  Advance /\ UNCHANGED <<rows, attempts, req, accepted, orphans, source, projector>>

-----------------------------------------------------------------------------
(***************************************************************************)
(* Dispatcher: the order of the adapters and what a provider's answer      *)
(* proves.                                                                 *)
(***************************************************************************)
\* A mailer without a priority comes after its predecessors without one.
Priority(i) ==
  IF Specs[i].priority # 0 THEN Specs[i].priority
  ELSE -Cardinality({j \in 1..i : Specs[j].priority = 0})

Adapters ==
  LET before(i, j) == Priority(i) > Priority(j) \/ (Priority(i) = Priority(j) /\ i < j)
      place(i) == 1 + Cardinality({j \in DOMAIN Specs : before(j, i)})
  IN [k \in DOMAIN Specs |-> Specs[CHOOSE i \in DOMAIN Specs : place(i) = k]]

Matching(p) ==
  SelectSeq(Adapters, LAMBDA a : MailerKeys[p] = {} \/ a.key \in MailerKeys[p])

\* How a call can end: whether the provider took the message, what the error
\* returned says of it ("retry": SafeRetryError, "permanent": PermanentError,
\* "unknown": any other), and whether the provider may still take it.
Ends(taken, verdict, open) == [taken |-> taken, verdict |-> verdict, open |-> open]

Retries5xx(status) ==
  CASE status \in {"401", "429", "5xx"} -> "retry"
    [] status = "4xx" -> "permanent"
    [] OTHER -> "unknown"

classifyProviderStatus(status) ==
  CASE status \in {"401", "429"} -> "retry"
    [] status = "4xx" -> "permanent"
    [] OTHER -> "unknown"                       \* 3xx, 5xx

\* Every end but a 2xx: a failed dial, a status, a reply that is cut off.
callProvider ==
  {Ends(FALSE, "retry", FALSE)}
  \cup {Ends(FALSE, classifyProviderStatus(s), FALSE) : s \in {"401", "429", "4xx"}}
  \cup {Ends(taken, classifyProviderStatus("5xx"), ~taken) : taken \in BOOLEAN}
  \cup {Ends(taken, "unknown", ~taken) : taken \in BOOLEAN}

\* A 2xx whose body does not name the accepted message proves nothing.
mailgunSend == callProvider \cup {Ends(TRUE, v, FALSE) : v \in {"ok", "unknown"}}

\* Postmark also refuses in the body of a 2xx.
postmarkSend == mailgunSend \cup {Ends(FALSE, v, FALSE) : v \in {"permanent", "unknown"}}

\* The status alone is the receipt.
sesSend == callProvider \cup {Ends(TRUE, "ok", FALSE)}
sendGridSend == callProvider \cup {Ends(TRUE, "ok", FALSE)}

classifySMTPError(code) == IF code = "5yz" THEN "permanent" ELSE "retry"

\* Everything up to DATA, and a reply to DATA, is conclusive; a cut is not.
smtpSend ==
  {Ends(FALSE, classifySMTPError(code), FALSE) : code \in {"no reply", "4yz", "5yz"}}
  \cup {Ends(TRUE, "ok", FALSE)}
  \cup {Ends(taken, "unknown", ~taken) : taken \in BOOLEAN}

\* Not started or EX_CONFIG; EX_NOUSER and the like; killed; exit 0.
sendmailSend ==
  {Ends(FALSE, "retry", FALSE), Ends(FALSE, "permanent", FALSE), Ends(TRUE, "ok", FALSE)}
  \cup {Ends(taken, "unknown", ~taken) : taken \in BOOLEAN}

AdapterSend(kind) ==
  CASE kind = "mailgun" -> mailgunSend
    [] kind = "postmark" -> postmarkSend
    [] kind = "ses" -> sesSend
    [] kind = "sendgrid" -> sendGridSend
    [] kind = "smtp" -> smtpSend
    [] kind = "sendmail" -> sendmailSend
    [] OTHER -> {}                              \* the test adapter calls nobody

-----------------------------------------------------------------------------
(***************************************************************************)
(* Ledger writes.                                                          *)
(***************************************************************************)
NewDelivery(p) ==
  [payload |-> p, state |-> "prepared", revision |-> 0, attempt |-> 0, next |-> 0,
   started |-> 0, pending |-> FALSE, projectAt |-> 0]

SavedQuietly(row, state, next) ==
  [row EXCEPT !.state = state, !.revision = @ + 1, !.next = next]

\* saveDelivery: every terminal write raises projectionPending with it.
Saved(row, state, next) ==
  [row EXCEPT !.state = state, !.revision = @ + 1, !.next = next,
              !.pending = state \in Terminal, !.projectAt = 0]

SendOutcome(outcomes, k, o) == [outcomes EXCEPT ![k] = o]

PutDelivery(m, row) == rows' = [rows EXCEPT ![m] = row]

Stale(row) == now - row.started >= StaleAfter

Result(row) == [state |-> row.state, revision |-> row.revision]

\* What the caller does once its call returned: only the submit handler goes on.
Answer(r, m, row, client) ==
  req' = [req EXCEPT ![r] = IF client = "http" THEN Idle
            ELSE [pc |-> "returned", mail |-> m, client |-> client, result |-> Result(row)]]

Claimed(row) ==
  [row EXCEPT !.state = "submitting", !.revision = @ + 1, !.attempt = @ + 1, !.started = now]

\* Another delivery fills every place of Slots: the request waits.
HasSlot == Cardinality({r \in Requests : req[r].pc \in {"sending", "calling", "report"}}) < SlotLimit

\* DeliveryService.Deliver up to the commit of its first transaction.
Deliver(r, m, p, allow, client) ==
  LET row == IF rows[m] = NULL THEN NewDelivery(p) ELSE rows[m]
      done(new) == PutDelivery(m, new) /\ Answer(r, m, new, client)
  IN
  /\ HasSlot
  /\ UNCHANGED <<now, accepted, orphans, source, projector>>
  /\ \/ /\ row.payload # p                       \* ErrDeliveryConflict
        /\ req' = [req EXCEPT ![r] = Idle] /\ UNCHANGED <<rows, attempts>>
     \/ /\ row.payload = p
        /\ \/ /\ row.state \in Terminal
              /\ done(row) /\ UNCHANGED attempts
           \/ /\ row.state = "submitting" /\ ~Stale(row)
              /\ done(row) /\ UNCHANGED attempts
           \/ /\ row.state = "submitting" /\ Stale(row)
              /\ done(Saved(row, "unknown", 0))
              /\ attempts' = [attempts EXCEPT ![m] = SendOutcome(@, row.attempt, "unknown")]
           \/ /\ row.state \in Unsettled
              /\ \/ /\ Deadline[p] <= now
                    /\ done(Saved(row, "expired", 0)) /\ UNCHANGED attempts
                 \/ /\ Deadline[p] > now /\ (row.next > now \/ ~allow)
                    /\ done(row) /\ UNCHANGED attempts
                 \/ /\ Deadline[p] > now /\ row.next <= now /\ allow
                    /\ Matching(p) = <<>>        \* ReadyFor fails: nothing is kept
                    /\ req' = [req EXCEPT ![r] = Idle] /\ UNCHANGED <<rows, attempts>>
                 \/ /\ Deadline[p] > now /\ row.next <= now /\ allow
                    /\ Matching(p) # <<>>
                    /\ PutDelivery(m, Claimed(row))
                    /\ attempts' = [attempts EXCEPT ![m] = Append(@, "submitting")]
                    /\ \E lost \in BOOLEAN :      \* the commit's answer may be lost
                         req' = [req EXCEPT ![r] = IF lost THEN Idle
                                   ELSE [pc |-> "sending", mail |-> m, client |-> client,
                                         attempt |-> row.attempt + 1, i |-> 1, try |-> 0,
                                         taken |-> FALSE]]

\* POST /deliver and /prepare, and the preparation handler.
Request(r, m) ==
  /\ req[r] = Idle
  /\ \E p \in Mailings, allow \in BOOLEAN : Deliver(r, m, p, allow, "http")

\* The submit handler: policy and recipient authorization, then /execute.
Execute(r, m) ==
  /\ req[r] = Idle /\ rows[m] # NULL
  /\ \E silent, changed \in BOOLEAN :
       Deliver(r, m, rows[m].payload, ~silent /\ ~changed, IF changed THEN "changed" ELSE "task")

-----------------------------------------------------------------------------
(***************************************************************************)
(* The send loop: one physical call per step pair, adapters in order.      *)
(***************************************************************************)
Goto(r, rec) == req' = [req EXCEPT ![r] = rec]

Verdict(r, v) ==
  Goto(r, [pc |-> "report", mail |-> req[r].mail, client |-> req[r].client,
           attempt |-> req[r].attempt, verdict |-> v])

Adapter(r) == Matching(rows[req[r].mail].payload)[req[r].i]

\* The context ends, or the gate before the call answers no or not at all.
StopBeforeCall(r) ==
  /\ req[r].pc = "sending"
  /\ \/ Verdict(r, "retry")
     \/ rows[req[r].mail].payload \in Gated /\ Verdict(r, "permanent")
  /\ UNCHANGED <<now, rows, attempts, accepted, orphans, source, projector>>

Call(r) ==
  /\ req[r].pc = "sending"
  /\ Goto(r, [req[r] EXCEPT !.pc = "calling", !.taken = FALSE])
  /\ UNCHANGED <<now, rows, attempts, accepted, orphans, source, projector>>

\* The provider takes the message of a call; it may take an orphaned one.
ProviderTakes(r) ==
  /\ req[r].pc = "calling" /\ ~req[r].taken
  /\ req' = [req EXCEPT ![r].taken = TRUE]
  /\ accepted' = [accepted EXCEPT ![req[r].mail] = @ + 1]
  /\ UNCHANGED <<now, rows, attempts, orphans, source, projector>>

OrphanTaken(m) ==
  /\ orphans[m] > 0
  /\ orphans' = [orphans EXCEPT ![m] = @ - 1]
  /\ accepted' = [accepted EXCEPT ![m] = @ + 1]
  /\ UNCHANGED <<now, rows, attempts, req, source, projector>>

\* A call that ends undecided stays with the provider.
AbandonSubmission(r) ==
  orphans' = IF req[r].taken THEN orphans ELSE [orphans EXCEPT ![req[r].mail] = @ + 1]

\* sendThroughAuthorized: retry this adapter, then fail over to the next one.
NextTry(r) ==
  IF req[r].try < MaxRetries
  THEN Goto(r, [req[r] EXCEPT !.pc = "sending", !.try = @ + 1])
  ELSE IF req[r].i < Len(Matching(rows[req[r].mail].payload))
  THEN Goto(r, [req[r] EXCEPT !.pc = "sending", !.i = @ + 1, !.try = 0])
  ELSE Verdict(r, "retry")

Reply(r) ==
  /\ req[r].pc = "calling"
  /\ \E end \in AdapterSend(Adapter(r).kind) :
       /\ end.taken = req[r].taken
       /\ IF end.verdict = "retry" THEN NextTry(r) ELSE Verdict(r, end.verdict)
       /\ IF end.open THEN AbandonSubmission(r) ELSE UNCHANGED orphans
  /\ UNCHANGED <<now, rows, attempts, accepted, source, projector>>

StateAfter(v, a) ==
  CASE v = "ok" -> "accepted"
    [] v = "permanent" -> "failed"
    [] v = "retry" -> IF a >= MaxAttempts THEN "failed" ELSE "retry_wait"
    [] v = "unknown" -> "unknown"

Fence(row, a) == row.state = "submitting" /\ row.attempt = a

\* The second transaction of Deliver, fenced by state and attempt.
Report(r) ==
  LET m == req[r].mail
      a == req[r].attempt
      state == StateAfter(req[r].verdict, a)
      row == Saved(rows[m], state, IF state = "retry_wait" THEN Later(RetryDelay(a)) ELSE 0)
  IN
  /\ req[r].pc = "report"
  /\ IF Fence(rows[m], a)
     THEN /\ PutDelivery(m, row)
          /\ attempts' = [attempts EXCEPT ![m] = SendOutcome(@, a, state)]
          /\ \/ Answer(r, m, row, req[r].client)
             \/ Goto(r, Idle)                    \* the commit's answer is lost
     ELSE Goto(r, Idle) /\ UNCHANGED <<rows, attempts>>
  /\ UNCHANGED <<now, accepted, orphans, source, projector>>

\* The process dies, the store refuses the report, or the caller is gone.
Crash(r) ==
  /\ req[r].pc # "idle"
  /\ Goto(r, Idle)
  /\ IF req[r].pc = "calling" THEN AbandonSubmission(r) ELSE UNCHANGED orphans
  /\ UNCHANGED <<now, rows, attempts, accepted, source, projector>>

-----------------------------------------------------------------------------
(***************************************************************************)
(* Cancellation, recovery and the submit handler's last steps.             *)
(***************************************************************************)
\* POST /cancel from an operator.
CancelDelivery(m) ==
  /\ rows[m] # NULL /\ rows[m].state \in Unsettled
  /\ PutDelivery(m, Saved(rows[m], "cancelled", 0))
  /\ UNCHANGED <<now, attempts, req, accepted, orphans, source, projector>>

\* The recipients changed: the handler cancels what is still pending, and
\* rereads the delivery without permission to send when it came too late.
CancelChanged(r) ==
  LET m == req[r].mail
      row == Saved(rows[m], "cancelled", 0)
  IN
  /\ req[r].pc = "returned" /\ req[r].client = "changed" /\ req[r].result.state \in Unsettled
  /\ \/ /\ rows[m].state \in Unsettled
        /\ PutDelivery(m, row) /\ Answer(r, m, row, "task") /\ UNCHANGED attempts
        /\ UNCHANGED <<now, accepted, orphans, source, projector>>
     \/ /\ rows[m].state = "cancelled"
        /\ Answer(r, m, rows[m], "task")
        /\ UNCHANGED <<now, rows, attempts, accepted, orphans, source, projector>>
     \/ /\ rows[m].state \notin Unsettled \cup {"cancelled"}
        /\ Deliver(r, m, rows[m].payload, FALSE, "task")

\* PHP keeps the newest revision it was given.
ResultApplied(m, result) ==
  source' = IF result.revision > source[m].revision THEN [source EXCEPT ![m] = result] ELSE source

ApplyResult(r) ==
  /\ req[r].pc = "returned"
  /\ ~(req[r].client = "changed" /\ req[r].result.state \in Unsettled)
  /\ ResultApplied(req[r].mail, req[r].result)
  /\ Goto(r, Idle)
  /\ UNCHANGED <<now, rows, attempts, accepted, orphans, projector>>

\* One transaction of DeliveryService.Recover.
ExpiresOnly(kind, row) ==   \* a bug: abandoned submissions are left alone
  row # NULL /\ row.state = kind /\ kind # "submitting" /\ Deadline[row.payload] <= now
RecoverDue(kind, row) ==
  row # NULL /\ row.state = kind
  /\ IF kind = "submitting" THEN Stale(row) ELSE Deadline[row.payload] <= now

Recover(kind) ==
  LET due == {m \in Mails : RecoverDue(kind, rows[m])}
      final == IF kind = "submitting" THEN "unknown" ELSE "expired"
  IN
  /\ due # {}
  /\ rows' = [m \in Mails |-> IF m \in due THEN Saved(rows[m], final, 0) ELSE rows[m]]
  /\ attempts' = [m \in Mails |-> IF m \in due /\ kind = "submitting"
                                  THEN SendOutcome(attempts[m], rows[m].attempt, final) ELSE attempts[m]]
  /\ UNCHANGED <<now, req, accepted, orphans, source, projector>>

-----------------------------------------------------------------------------
(***************************************************************************)
(* ProjectMailResultsOnce, one row at a time.                              *)
(***************************************************************************)
ProjectRead(m) ==
  /\ projector = NULL
  /\ rows[m] # NULL /\ rows[m].pending /\ rows[m].projectAt <= now
  /\ projector' = [mail |-> m, result |-> Result(rows[m]), acked |-> FALSE]
  /\ UNCHANGED <<now, rows, attempts, req, accepted, orphans, source>>

\* mail.delivery apply; its acknowledgment may be lost.
ProjectApply ==
  /\ projector # NULL /\ ~projector.acked
  /\ ResultApplied(projector.mail, projector.result)
  /\ \E acked \in BOOLEAN : projector' = [projector EXCEPT !.acked = acked]
  /\ UNCHANGED <<now, rows, attempts, req, accepted, orphans>>

SameRevision == rows[projector.mail].revision = projector.result.revision

ProjectClear ==
  /\ projector # NULL /\ projector.acked
  /\ IF SameRevision THEN PutDelivery(projector.mail, [rows[projector.mail] EXCEPT !.pending = FALSE])
     ELSE UNCHANGED rows
  /\ projector' = NULL
  /\ UNCHANGED <<now, attempts, req, accepted, orphans, source>>

\* Not acknowledged: the row waits (15 s doubling up to 64 times that: one tick).
ProjectDefer ==
  /\ projector # NULL /\ ~projector.acked
  /\ IF SameRevision /\ rows[projector.mail].pending
     THEN PutDelivery(projector.mail, [rows[projector.mail] EXCEPT
                !.projectAt = Later(1)])
     ELSE UNCHANGED rows
  /\ projector' = NULL
  /\ UNCHANGED <<now, attempts, req, accepted, orphans, source>>

\* The worker stops in the middle of a batch.
ProjectorCrash ==
  /\ projector # NULL
  /\ projector' = NULL
  /\ UNCHANGED <<now, rows, attempts, req, accepted, orphans, source>>

MailNext ==
  \/ MailTick
  \/ \E r \in Requests, m \in Mails : Request(r, m) \/ Execute(r, m)
  \/ \E r \in Requests :
       \/ StopBeforeCall(r) \/ Call(r) \/ ProviderTakes(r) \/ Reply(r) \/ Report(r)
       \/ Crash(r) \/ CancelChanged(r) \/ ApplyResult(r)
  \/ \E m \in Mails : OrphanTaken(m) \/ CancelDelivery(m) \/ ProjectRead(m)
  \/ \E kind \in {"submitting", "prepared", "retry_wait"} : Recover(kind)
  \/ ProjectApply \/ ProjectClear \/ ProjectDefer \/ ProjectorCrash

MailSpec == MailInit /\ [][MailNext]_mailVars

-----------------------------------------------------------------------------
(***************************************************************************)
(* Properties.                                                             *)
(***************************************************************************)
PhaseOf(m) ==
  IF rows[m] = NULL THEN "ready"
  ELSE CASE rows[m].state \in Unsettled -> "ready"
         [] rows[m].state = "submitting" -> "trying"
         [] rows[m].state \in {"accepted", "unknown"} -> rows[m].state
         [] OTHER -> "refused"

MailLedger == INSTANCE EffectLedger WITH
  Effects <- Mails, phase <- [m \in Mails |-> PhaseOf(m)], performed <- accepted

\* The mail ledger is an effect ledger: whatever crashes, times out, fails over
\* or is reported late, at most one provider takes a message, and the final
\* state of its row is not contradicted by what the providers did.
MailImplementsLedger == MailLedger!Init /\ [][MailLedger!Next]_<<rows, accepted>>

\* The attempt audit agrees with the row: one entry per attempt, an open entry
\* exactly while the row is submitting, every earlier attempt known refused.
AttemptsAgree ==
  \A m \in Mails : rows[m] # NULL =>
    /\ Len(attempts[m]) = rows[m].attempt
    /\ \A k \in DOMAIN attempts[m] :
         attempts[m][k] = IF k = rows[m].attempt /\ rows[m].state \notin {"cancelled", "expired"}
                          THEN rows[m].state ELSE "retry_wait"

\* No receipt is lost on its way to PHP: a terminal row whose projection flag
\* is down has been applied, and PHP never holds another final result.
ReceiptApplied ==
  \A m \in Mails :
    /\ rows[m] # NULL /\ rows[m].state \in Terminal /\ ~rows[m].pending
         => source[m] = Result(rows[m])
    /\ source[m].state \in Terminal => source[m] = Result(rows[m])

\* Every delivery that was recorded reaches a final state and PHP learns of it,
\* though requests crash and no queue task survives.
EventuallySettled ==
  \A m \in Mails : rows[m] # NULL ~> source[m].state \in Terminal

MailTypeOK ==
  /\ now \in 0..MaxTime
  /\ \A m \in Mails :
       /\ accepted[m] \in Nat /\ orphans[m] \in Nat
       /\ rows[m] # NULL =>
            /\ rows[m].payload \in Mailings
            /\ rows[m].state \in MailStates
            /\ rows[m].attempt \in 0..MaxAttempts /\ rows[m].started \in 0..now
  /\ \A r \in Requests : req[r].pc \in {"idle", "sending", "calling", "report", "returned"}

\* Three records of one delivery agree: its row, the audit of its attempts and
\* what PHP was told (delivery.go, mail_projection.go).
MailRecordsAgree == MailTypeOK /\ AttemptsAgree /\ ReceiptApplied
=============================================================================
