------------------------------- MODULE Inbox -------------------------------
(***************************************************************************)
(* Inbound mail of the integrations service: Accept stores a message under *)
(* its identity, relays lease it and hand it to PHP, which keeps a receipt *)
(* of its own, and Purge empties what was acknowledged.                    *)
(***************************************************************************)
EXTENDS Clock

CONSTANTS
  Messages,      \* the messages providers deliver, possibly several times
  KeyOf,         \* message -> identity (message-id and recipient, or digest)
  Relayers,      \* goroutines running Store.Relay
  RelayLease,    \* seconds a claimed event stays with its relay (120)
  RetryWait,     \* base of the delay after a failed call (30)
  MaxRelays,     \* bound: relay attempts of one event
  RetentionDays  \* inboxRetentionDays

VARIABLES
  inbox,      \* identity -> row of gorge_integration_inbox, or NULL
  relay,      \* relayer -> the event it holds
  receipt,    \* identity -> PHP's receipt: "none", "processing", "done"
  executions  \* identity -> times PHP ran the mail's commands

inboxVars == <<now, inbox, relay, receipt, executions>>

Keys == {KeyOf[m] : m \in Messages}
NoEvent == [pc |-> "idle"]

InboxRows ==
  [message : Messages, state : {"pending", "processing", "retry", "done", "unknown"},
   due : Int, attempts : Nat, payload : BOOLEAN]

ASSUME InboxAssumption ==
  /\ NULL \notin InboxRows
  /\ RelayLease \in Nat /\ RetryWait \in Nat /\ MaxTime \in Nat

InboxInit ==
  /\ ClockInit
  /\ inbox = [k \in Keys |-> NULL]
  /\ relay = [r \in Relayers |-> NoEvent]
  /\ receipt = [k \in Keys |-> "none"]
  /\ executions = [k \in Keys |-> 0]

InboxTick == Advance /\ UNCHANGED <<inbox, relay, receipt, executions>>

\* Store.Accept: a second message under the same identity is not taken over.
AcceptMail(m) ==
  /\ inbox[KeyOf[m]] = NULL
  /\ inbox' = [inbox EXCEPT ![KeyOf[m]] =
       [message |-> m, state |-> "pending", due |-> now, attempts |-> 0, payload |-> TRUE]]
  /\ UNCHANGED <<now, relay, receipt, executions>>

Leaseable(row) == row # NULL /\ row.state \in {"pending", "retry", "processing"} /\ row.due <= now

LeasedEvent(row) ==
  [row EXCEPT !.state = "processing", !.due = Later(RelayLease), !.attempts = row.attempts + 1]

\* an event as Relay read it; state is what Relay will write
Event(pc, k, tries, at, state) ==
  [pc |-> pc, key |-> k, attempts |-> tries, at |-> at, state |-> state]

ClaimEvent(r, k) ==
  /\ relay[r] = NoEvent
  /\ Leaseable(inbox[k]) /\ inbox[k].attempts < MaxRelays
  /\ \A other \in Keys : Leaseable(inbox[other]) => inbox[k].due <= inbox[other].due
  /\ inbox' = [inbox EXCEPT ![k] = LeasedEvent(inbox[k])]
  /\ relay' = [relay EXCEPT ![r] = Event("calling", k, inbox[k].attempts, now, "done")]
  /\ UNCHANGED <<now, receipt, executions>>

Turned(e, pc, state) == Event(pc, e.key, e.attempts, e.at, state)

\* PHP integration.inbound: the receipt is marked before the commands run.
BeginReceipt(r) ==
  LET k == relay[r].key IN
  /\ relay[r].pc = "calling"
  /\ \/ /\ receipt[k] = "none"
        /\ receipt' = [receipt EXCEPT ![k] = "processing"]
        /\ relay' = [relay EXCEPT ![r] = Turned(relay[r], "executing", "done")]
     \/ /\ receipt[k] # "none"
        /\ relay' = [relay EXCEPT ![r] =
             Turned(relay[r], "finish", IF receipt[k] = "done" THEN "done" ELSE "unknown")]
        /\ UNCHANGED receipt
  /\ UNCHANGED <<now, inbox, executions>>

\* The commands run; the answer comes back, or is lost, or makes no sense.
RunCommands(r) ==
  LET k == relay[r].key IN
  /\ relay[r].pc = "executing"
  /\ executions' = [executions EXCEPT ![k] = @ + 1]
  /\ receipt' = [receipt EXCEPT ![k] = "done"]
  /\ \E answer \in {Turned(relay[r], "finish", "done"), Turned(relay[r], "finish", "retry"), NoEvent} :
       relay' = [relay EXCEPT ![r] = answer]
  /\ UNCHANGED <<now, inbox>>

\* The call fails, before or after PHP marked the receipt.
CallFails(r) ==
  /\ relay[r].pc \in {"calling", "executing"}
  /\ relay' = [relay EXCEPT ![r] = Turned(relay[r], "finish", "retry")]
  /\ UNCHANGED <<now, inbox, receipt, executions>>

RelayCrash(r) ==
  /\ relay[r] # NoEvent
  /\ relay' = [relay EXCEPT ![r] = NoEvent]
  /\ UNCHANGED <<now, inbox, receipt, executions>>

Unfenced(row, attempts) == row.state # "done"
Fenced(row, attempts) == row.state = "processing" /\ row.attempts = attempts + 1

RelayDelay(tries) == RetryWait * 2^(IF tries < 6 THEN tries ELSE 6)

RetryAt(e) ==
  LET due == e.at + RelayDelay(e.attempts) IN IF due < MaxTime THEN due ELSE MaxTime

FinishedEvent(row, e) ==
  [row EXCEPT !.state = e.state, !.due = IF e.state = "retry" THEN RetryAt(e) ELSE e.at]

FinishEvent(r) ==
  LET k == relay[r].key IN
  /\ relay[r].pc = "finish"
  /\ inbox' = IF Fenced(inbox[k], relay[r].attempts)
              THEN [inbox EXCEPT ![k] = FinishedEvent(inbox[k], relay[r])] ELSE inbox
  /\ relay' = [relay EXCEPT ![r] = NoEvent]
  /\ UNCHANGED <<now, receipt, executions>>

\* Resolve of an inbound event: PHP confirms the old receipt first.
Confirmed(row) == [row EXCEPT !.state = "done", !.due = now]

Reconcile(k) ==
  /\ inbox[k] # NULL /\ inbox[k].state = "unknown" /\ inbox[k].payload
  /\ receipt[k] # "none"
  /\ receipt' = [receipt EXCEPT ![k] = "done"]
  /\ inbox' = [inbox EXCEPT ![k] = Confirmed(inbox[k])]
  /\ UNCHANGED <<now, relay, executions>>

PurgeState(state) == state = "done"

Emptied(row) == [row EXCEPT !.payload = FALSE]

Purge ==
  LET old == {k \in Keys : inbox[k] # NULL /\ PurgeState(inbox[k].state)
                             /\ inbox[k].due < now - RetentionDays /\ inbox[k].payload}
  IN
  /\ old # {}
  /\ inbox' = [k \in Keys |-> IF k \in old THEN Emptied(inbox[k]) ELSE inbox[k]]
  /\ UNCHANGED <<now, relay, receipt, executions>>

InboxNext ==
  \/ InboxTick
  \/ \E m \in Messages : AcceptMail(m)
  \/ \E r \in Relayers, k \in Keys : ClaimEvent(r, k)
  \/ \E r \in Relayers : BeginReceipt(r) \/ RunCommands(r) \/ CallFails(r)
                         \/ RelayCrash(r) \/ FinishEvent(r)
  \/ \E k \in Keys : Reconcile(k)
  \/ Purge

InboxSpec == InboxInit /\ [][InboxNext]_inboxVars

-----------------------------------------------------------------------------
\* An event counts as done only once PHP holds a finished receipt for it, and
\* its payload is only emptied then, even if a relay that lost its lease, or an
\* operator, finishes late.
DoneHasReceipt ==
  \A k \in Keys : inbox[k] # NULL =>
    /\ inbox[k].state = "done" => receipt[k] = "done"
    /\ ~inbox[k].payload => inbox[k].state = "done"

\* PHP runs the commands of a message at most once, however often it was
\* delivered, leased and handed over.
CommandsOnce == \A k \in Keys : executions[k] <= 1

\* A relay that no longer holds the lease never moves an event that was decided
\* since, and no message takes another one's place under the same identity.
LateRelayHarmless ==
  [][\A k \in Keys : inbox[k] # NULL =>
       /\ inbox'[k] # NULL /\ inbox'[k].message = inbox[k].message
       /\ inbox[k].state \in {"done", "unknown"} => inbox'[k].state \in {inbox[k].state, "done"}]_inboxVars

\* A message is done only when PHP has its receipt, its commands run once, and
\* no relay that lost its lease undoes what was decided since (Relay, Resolve
\* and Purge).
HandedOverOnce == [](DoneHasReceipt /\ CommandsOnce) /\ LateRelayHarmless
=============================================================================
