----------------------------- MODULE MCProgress -----------------------------
(***************************************************************************)
(* What must happen at last although calls fail, answers are lost and      *)
(* processes die again and again: the outbox relays of two workers, the    *)
(* trigger scheduler, a cleanup lane and a mail delivery.  The initial     *)
(* state picks the subject, and only the subject moves.                    *)
(***************************************************************************)
EXTENDS OutboxRelay, Scheduler, Cleanup, MailDelivery

VARIABLE subject

outboxVars == <<counter, active, archive, inbox, origin, acked, outbox, relay>>
trig == <<control, trigger, event, schedule, order, sched, fired>>
mail == <<rows, attempts, req, accepted, orphans, source, projector>>
all == <<now, outboxVars, trig, gcVars, mail, subject>>

MCFollowups == [c \in Classes |-> 0]
MCEventOrder == <<"bad", "e1">>   \* the first event cannot be read

MCDeadline == [p \in Mailings |-> 2]
MCMailerKeys == [p \in Mailings |-> {}]
MCSpecs == <<[key |-> "k1", kind |-> "smtp", priority |-> 0]>>

ProgressInit ==
  /\ subject \in {"relay", "scheduler", "cleanup", "mail"}
  /\ RelayInit /\ SchedInit /\ MailInit
  /\ GcInit /\ (subject = "cleanup" \/ \A c \in Collectors : config[c] = Indefinite)

OfRelay(A) == subject = "relay" /\ A /\ UNCHANGED <<trig, gcVars, mail, subject>>
OfScheduler(A) == subject = "scheduler" /\ A /\ UNCHANGED <<outboxVars, gcVars, mail, subject>>
OfCleanup(A) == subject = "cleanup" /\ A /\ UNCHANGED <<now, outboxVars, trig, mail, subject>>
OfMail(A) == subject = "mail" /\ A /\ UNCHANGED <<outboxVars, trig, gcVars, subject>>

ProgressNext == OfRelay(RelayNext) \/ OfScheduler(SchedNext) \/ OfCleanup(GcNext) \/ OfMail(MailNext)

\* What keeps running: the relay's and the scheduler's loops tick every second
\* and their backoffs end, a cleanup run that is over is finished, tickers of
\* 5 s drive the mailer's Recover and the projection of its results.  The
\* actions of a subject that does not move are not enabled, so that it asks
\* for nothing.
WeakFairness ==
  /\ \A r \in Relays : WF_relayVars(Select(r))
  /\ \A e \in Events : WF_relayVars(BackoffOver(e))
  /\ \A s \in Schedulers : WF_schedVars(ScheduleCandidates(s))
  /\ \A t \in Triggers : WF_schedVars(DelayOver(t))
  /\ WF_gcVars(subject = "cleanup" /\ GcTick)
  /\ \A c \in Collectors, l \in Lanes : WF_gcVars(Finish(l, c)) /\ WF_gcVars(BatchConflict(l, c))
  /\ WF_mailVars(subject = "mail" /\ MailTick)
  /\ \A kind \in {"submitting", "prepared", "retry_wait"} : WF_mailVars(Recover(kind))
  /\ \A m \in Mails : WF_mailVars(ProjectRead(m))
  /\ WF_mailVars(ProjectDefer \/ ProjectClear)

\* Neither a service nor the database nor every process is down for ever: what
\* is begun again and again succeeds once.  Only one subject moves, and a line
\* asks of it what its own disjunct alone would.
StrongFairness ==
  /\ SF_all(\/ OfRelay(\E r \in Relays : Send(r))
            \/ OfScheduler(\E s \in Schedulers : ScheduleFailed(s))
            \/ OfCleanup(\E l \in Lanes : Claim(l, "c1") /\ LaneLease(l, "c1")' # NoLease)
            \/ OfMail(ProjectApply /\ projector'.acked))
  /\ SF_all(\/ OfRelay(\E r \in Relays : Mark(r))
            \/ OfScheduler(\E s \in Schedulers : Refuse(s) \/ \E n \in Epochs : Plan(s, n))
            \/ OfCleanup(\E l \in Lanes : Batch(l, "c1")))
  /\ SF_all(OfRelay(OfferAccepted("e1")) \/ OfScheduler(FailureKept(1)))
  /\ SF_all(OfRelay(AnswerKept("e1")) \/ OfScheduler(Planned(2)))
  /\ SF_all(OfScheduler(Applied(2)))

ProgressSpec ==
  ProgressInit /\ [][ProgressNext]_all /\ WeakFairness /\ StrongFairness
=============================================================================
