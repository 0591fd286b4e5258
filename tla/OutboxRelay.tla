---------------------------- MODULE OutboxRelay ----------------------------
(***************************************************************************)
(* The relays that carry committed outbox events into the queue's inbox.   *)
(* A relay reads a batch of pending events, offers each one to the queue   *)
(* and marks the row with the answer.  Several workers run a relay on the  *)
(* same table; nothing but the inbox receipt keeps an event from becoming  *)
(* two tasks.                                                              *)
(*                                                                         *)
(* nextAttempt is abstracted to due: a row that failed is not due until    *)
(* its backoff is over.  The queue is TaskQueue.                           *)
(***************************************************************************)
EXTENDS TaskQueue, SequencesExt

CONSTANTS
  Relays,     \* relay loops
  EventOrder, \* the events in the order of their outbox ids
  BadEvents,  \* events whose payload names another event, or cannot be read
  BatchSize   \* events of one batch (32)

\* The bad events alone never fill a batch.
ASSUME RelayAssumption ==
  /\ ToSet(EventOrder) = Events /\ BadEvents \subseteq Events
  /\ BatchSize > Cardinality(BadEvents)

VARIABLES
  outbox,  \* event -> its row, once the business transaction has committed
  relay    \* relay -> its loop

relayVars == <<vars, outbox, relay>>

IdleRelay == [pc |-> "idle", batch |-> <<>>, answer |-> NULL]

RelayInit ==
  /\ Init
  /\ outbox = Empty
  /\ relay = [r \in Relays |-> IdleRelay]

\* The PHP side commits an event with its business change.
Publish(e) ==
  /\ e \notin DOMAIN outbox
  /\ outbox' = Put(outbox, e, [delivered |-> FALSE, task |-> NULL, due |-> TRUE])
  /\ UNCHANGED <<vars, relay>>

BackoffOver(e) ==
  /\ e \in DOMAIN outbox /\ ~outbox[e].due
  /\ outbox' = [outbox EXCEPT ![e].due = TRUE]
  /\ UNCHANGED <<vars, relay>>

Pending(e) == e \in DOMAIN outbox /\ ~outbox[e].delivered /\ outbox[e].due

\* WHERE deliveredEpoch IS NULL AND nextAttempt <= now ORDER BY id LIMIT 32
Select(r) ==
  LET pending == SelectSeq(EventOrder, Pending) IN
  /\ relay[r].pc = "idle" /\ pending # <<>>
  /\ relay' = [relay EXCEPT ![r] = [IdleRelay EXCEPT !.pc = "send",
                 !.batch = SubSeq(pending, 1, IF Len(pending) < BatchSize
                                             THEN Len(pending) ELSE BatchSize)]]
  /\ UNCHANGED <<vars, outbox>>

Answered(r, a) == relay' = [relay EXCEPT ![r].pc = "mark", ![r].answer = a]

\* The queue commits the task, or finds the receipt; the reply names the task.
SendAccepted(r) ==
  LET e == Head(relay[r].batch) IN
  /\ relay[r].pc = "send" /\ e \notin BadEvents
  /\ \/ /\ \E p \in Payloads, c \in Classes : EnqueueEvent(e, p, c)
        /\ Answered(r, inbox'[e].task)
     \/ e \in DOMAIN inbox /\ Answered(r, inbox[e].task) /\ UNCHANGED vars
  /\ UNCHANGED outbox

\* The event is refused before it is sent, the request is lost, or the queue
\* commits and the reply is lost.
SendFailed(r) ==
  LET e == Head(relay[r].batch) IN
  /\ relay[r].pc = "send"
  /\ \/ e \notin BadEvents /\ \E p \in Payloads, c \in Classes : EnqueueEvent(e, p, c)
     \/ UNCHANGED vars
  /\ Answered(r, NULL)
  /\ UNCHANGED outbox

\* The loop goes on with the rest of the batch, or is over.
Continue(r) ==
  relay' = [relay EXCEPT ![r] =
              IF Len(@.batch) = 1 THEN IdleRelay
              ELSE [pc |-> "send", batch |-> Tail(@.batch), answer |-> NULL]]

\* Mutant: an event that fails ends the loop, and the row is left as it was.
MarkStopsBatch(r) ==
  LET e == Head(relay[r].batch)
      a == relay[r].answer
  IN  /\ relay[r].pc = "mark"
      /\ outbox' = [outbox EXCEPT ![e] = IF @.delivered \/ a = NULL THEN @
                                         ELSE [@ EXCEPT !.delivered = TRUE, !.task = a]]
      /\ IF a = NULL THEN relay' = [relay EXCEPT ![r] = IdleRelay] ELSE Continue(r)
      /\ UNCHANGED vars

\* UPDATE ... WHERE deliveredEpoch IS NULL: delivered, or backed off.
Mark(r) ==
  LET e == Head(relay[r].batch)
      a == relay[r].answer
  IN  /\ relay[r].pc = "mark"
      /\ outbox' = [outbox EXCEPT ![e] =
                      IF @.delivered THEN @
                      ELSE IF a = NULL THEN [@ EXCEPT !.due = FALSE]
                      ELSE [@ EXCEPT !.delivered = TRUE, !.task = a]]
      /\ Continue(r)
      /\ UNCHANGED vars

\* The update fails, the context ends or the process dies: the batch is dropped.
Abandon(r) ==
  /\ relay[r].pc # "idle"
  /\ relay' = [relay EXCEPT ![r] = IdleRelay]
  /\ UNCHANGED <<vars, outbox>>

RelayNext ==
  \/ \E e \in Events : Publish(e) \/ BackoffOver(e)
  \/ \E r \in Relays : Select(r) \/ SendAccepted(r) \/ SendFailed(r) \/ Mark(r) \/ Abandon(r)
  \/ \E i \in DOMAIN active : Cancel(i) /\ UNCHANGED <<outbox, relay>>

RelaySpec == RelayInit /\ [][RelayNext]_relayVars

\* Steps that liveness relies on: a call with a deadline returns, an event
\* offered is accepted, an acceptance written is kept.
Send(r) == SendAccepted(r) \/ SendFailed(r)
OfferAccepted(e) == \E r \in Relays :
  relay[r].pc = "send" /\ Head(relay[r].batch) = e /\ SendAccepted(r)
AnswerKept(e) == \E r \in Relays :
  relay[r].pc = "mark" /\ Head(relay[r].batch) = e /\ relay[r].answer # NULL /\ Mark(r)

-----------------------------------------------------------------------------
\* A row marked delivered names the one task its event became, although relays
\* share the table, replies are lost after the commit and tasks are archived
\* meanwhile: no event is dropped, and none is credited to another task.
DeliveredReceipt ==
  \A e \in DOMAIN outbox : outbox[e].delivered =>
    e \in DOMAIN inbox /\ outbox[e].task = inbox[e].task

\* Every committed event that can be read is delivered at last: neither a
\* failing event nor a crash nor an outage keeps the others from the queue.
EventuallyDelivered ==
  \A e \in Events \ BadEvents :
    e \in DOMAIN outbox ~> e \in DOMAIN outbox /\ outbox[e].delivered

\* A readable event is delivered at last, and an event marked as delivered has
\* its task in the queue (relay.go).
RelayDelivers == []DeliveredReceipt /\ EventuallyDelivered
=============================================================================
