----------------------------- MODULE MCPollers -----------------------------
(***************************************************************************)
(* The loops that poll tables of the application: replicas of the trigger  *)
(* scheduler, webhook dispatchers, and cleanup lanes beside an operator's  *)
(* command.  The initial state picks the subject, and only the subject     *)
(* moves.                                                                  *)
(***************************************************************************)
EXTENDS WebhookDispatcher, Scheduler, Cleanup

CONSTANT s3   \* the goroutine of the second webhook process

VARIABLE subject

webhook == <<row, enabled, changes, slot>>
trig == <<control, trigger, event, schedule, order, sched, fired>>

MCProcOf == [s \in Slots |-> IF s = s3 THEN "p2" ELSE "p1"]

Init ==
  /\ subject \in {"webhook", "scheduler", "cleanup"}
  /\ WebhookInit /\ SchedInit /\ GcInit
  /\ subject = "cleanup" \/ \A c \in Collectors : config[c] = Indefinite

\* Bound: either one good and one malformed request over four seconds and two
\* goroutines at a time, or three good ones that come and are handled in the
\* first two seconds.
WebhookBound ==
  \/ /\ DOMAIN row' \subseteq {"q1", "bad"}
     /\ Cardinality({s \in Slots : slot'[s] # IdleSlot}) <= 2
  \/ "bad" \notin DOMAIN row' /\ now' <= 1 /\ changes' = 0

Next ==
  /\ UNCHANGED subject
  /\ \/ subject = "webhook" /\ WebhookNext /\ WebhookBound /\ UNCHANGED <<trig, gcVars>>
     \/ subject = "scheduler" /\ SchedNext /\ UNCHANGED <<webhook, gcVars>>
     \/ subject = "cleanup" /\ GcNext /\ UNCHANGED <<now, webhook, trig>>

Spec == Init /\ [][Next]_<<now, webhook, trig, gcVars, subject>>

Symmetry == Permutations(Schedulers) \cup Permutations(Slots \ {s3})
=============================================================================
