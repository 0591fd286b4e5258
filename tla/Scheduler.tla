----------------------------- MODULE Scheduler -----------------------------
(***************************************************************************)
(* The trigger scheduler inside the task queue service, several replicas   *)
(* of it on one database, beside the PHP side that edits triggers, moves   *)
(* the ownership of the schedule and runs the schedule while it owns it.   *)
(*                                                                         *)
(* A replica reads snapshots of the triggers that need attention, asks PHP *)
(* for a plan of each one without holding a lock, and commits the plan in  *)
(* a transaction that first compares everything the snapshot read.         *)
(* retryAfter is abstracted to a flag, lastEvaluatedEpoch to the order it  *)
(* gives.  The database identity never differs in one deployment and is    *)
(* left out.                                                               *)
(***************************************************************************)
EXTENDS Clock, Sequences, FiniteSets

CONSTANTS
  Triggers,    \* trigger ids
  Schedulers,  \* replicas
  Failing,     \* triggers whose plan is always refused
  CycleLimit,   \* candidates of one cycle (100)
  MaxNow, MaxVersion, MaxEpoch   \* bounds

ASSUME SchedulerAssumption ==
  /\ Triggers \subseteq Nat \ {0} /\ Failing \subseteq Triggers /\ NULL \notin Int
  /\ CycleLimit \in Nat \ {0} /\ {MaxNow, MaxVersion, MaxEpoch} \subseteq Nat

VARIABLES
  control,   \* worker_gorgeschedulercontrol: owner and epoch
  trigger,   \* worker_trigger: id -> version, 0 once deleted
  event,     \* worker_triggerevent: id -> last and next epoch
  schedule,  \* worker_gorgeschedule: id -> the version scheduled, backing off
  order,     \* id -> its place by lastEvaluatedEpoch, 1 for the oldest
  sched,     \* replica -> the snapshots of its cycle and the plan of the first
  fired      \* history: occurrence -> tasks enqueued for it

schedVars == <<now, control, trigger, event, schedule, order, sched, fired>>

Epochs == 1..(MaxNow + 1) \cup {NULL}
LaterEpochs(e) == {n \in Epochs \ {NULL} : n > e} \cup {NULL}
IdleSched == [pc |-> "idle", batch |-> <<>>, next |-> NULL]

SchedInit ==
  /\ ClockInit
  /\ control = [owner |-> "php", epoch |-> 1]
  /\ trigger = [t \in Triggers |-> 1]
  /\ event = [t \in Triggers |-> [last |-> NULL, next |-> NULL]]
  /\ schedule = [t \in Triggers |-> [version |-> 0, backoff |-> FALSE]]
  /\ order = [t \in Triggers |-> Cardinality({u \in Triggers : u <= t})]
  /\ sched = [s \in Schedulers |-> IdleSched]
  /\ fired = [occ \in {} |-> 0]

-----------------------------------------------------------------------------
(***************************************************************************)
(* The PHP side.                                                           *)
(***************************************************************************)
Elapse == now < MaxNow /\ now' = now + 1
          /\ UNCHANGED <<control, trigger, event, schedule, order, sched, fired>>

Edit(t) ==
  /\ trigger[t] \in 1..(MaxVersion - 1)
  /\ trigger' = [trigger EXCEPT ![t] = @ + 1]
  /\ UNCHANGED <<now, control, event, schedule, order, sched, fired>>

Delete(t) ==
  /\ trigger[t] # 0 /\ trigger' = [trigger EXCEPT ![t] = 0]
  /\ UNCHANGED <<now, control, event, schedule, order, sched, fired>>

\* bin/trigger owner: through paused, and the epoch grows every time.
SetOwner(o) ==
  /\ control.epoch < MaxEpoch
  /\ (o = "paused") # (control.owner = "paused")
  /\ control' = [owner |-> o, epoch |-> control.epoch + 1]
  /\ UNCHANGED <<now, trigger, event, schedule, order, sched, fired>>

Fire(t, v, e) ==
  fired' = LET occ == [id |-> t, version |-> v, epoch |-> e] IN
    [x \in DOMAIN fired \cup {occ} |->
       (IF x \in DOMAIN fired THEN fired[x] ELSE 0) + (IF x = occ THEN 1 ELSE 0)]

\* While PHP owns the schedule it materialises a new version, or fires what is
\* due; the versions it has materialised are recorded when ownership moves.
PhpSchedule(t, n) ==
  /\ control.owner = "php" /\ trigger[t] # 0
  /\ \/ /\ schedule[t].version # trigger[t]
        /\ event' = [event EXCEPT ![t].next = n]
        /\ schedule' = [schedule EXCEPT ![t].version = trigger[t]]
        /\ UNCHANGED fired
     \/ /\ schedule[t].version = trigger[t]
        /\ event[t].next # NULL /\ event[t].next <= now
        /\ n \in LaterEpochs(event[t].next)
        /\ Fire(t, trigger[t], event[t].next)
        /\ event' = [event EXCEPT ![t] = [last |-> event[t].next, next |-> n]]
        /\ UNCHANGED schedule
  /\ UNCHANGED <<now, control, trigger, order, sched>>

DelayOver(t) ==
  /\ schedule[t].backoff
  /\ schedule' = [schedule EXCEPT ![t].backoff = FALSE]
  /\ UNCHANGED <<now, control, trigger, event, order, sched, fired>>

-----------------------------------------------------------------------------
(***************************************************************************)
(* A replica's cycle.                                                      *)
(***************************************************************************)
NeedsAttention(t) ==
  /\ trigger[t] # 0 /\ ~schedule[t].backoff
  /\ \/ schedule[t].version # trigger[t]
     \/ event[t].next # NULL /\ event[t].next <= now

Snapshot(t) ==
  [id |-> t, version |-> trigger[t], epoch |-> control.epoch, last |-> event[t].last,
   next |-> event[t].next, scheduled |-> schedule[t].version, now |-> now]

\* ORDER BY lastEvaluatedEpoch LIMIT: the oldest ones found, in that order
Oldest(found) ==
  {batch \in UNION {[1..n -> found] : n \in 1..CycleLimit} :
     /\ \A i, j \in DOMAIN batch : i < j => order[batch[i]] < order[batch[j]]
     /\ \A t \in found : \/ \E i \in DOMAIN batch : batch[i] = t
                        \/ /\ Len(batch) = CycleLimit
                           /\ \A i \in DOMAIN batch : order[batch[i]] < order[t]}

ScheduleCandidates(s) ==
  /\ sched[s].pc = "idle" /\ control.owner = "gorge"
  /\ \E batch \in Oldest({t \in Triggers : NeedsAttention(t)}) :
       sched' = [sched EXCEPT ![s] = [pc |-> "plan", next |-> NULL,
                   batch |-> [i \in DOMAIN batch |-> Snapshot(batch[i])]]]
  /\ UNCHANGED <<now, control, trigger, event, schedule, order, fired>>

due(snap) == snap.scheduled = snap.version /\ snap.next # NULL /\ snap.next <= snap.now

\* PHP answers with a valid plan: it fires exactly when the snapshot is due,
\* and then the clock moves forward.
Plan(s, n) ==
  LET snap == Head(sched[s].batch) IN
  /\ sched[s].pc = "plan" /\ snap.id \notin Failing
  /\ due(snap) => n \in LaterEpochs(snap.next)
  /\ sched' = [sched EXCEPT ![s].pc = "apply", ![s].next = n]
  /\ UNCHANGED <<now, control, trigger, event, schedule, order, fired>>

\* The plan is refused, invalid or late, or the transaction fails.
Refuse(s) ==
  /\ sched[s].pc \in {"plan", "apply"}
  /\ sched' = [sched EXCEPT ![s].pc = "failed"]
  /\ UNCHANGED <<now, control, trigger, event, schedule, order, fired>>

\* Mutant: the trigger's version is not compared.
lockScheduleIgnoresVersion(snap) ==
  /\ control.owner = "gorge" /\ control.epoch = snap.epoch
  /\ event[snap.id].last = snap.last /\ event[snap.id].next = snap.next
  /\ schedule[snap.id].version = snap.scheduled

\* Everything the snapshot read is as it was.
lockSchedule(snap) ==
  /\ control.owner = "gorge" /\ control.epoch = snap.epoch
  /\ trigger[snap.id] = snap.version
  /\ event[snap.id].last = snap.last /\ event[snap.id].next = snap.next
  /\ schedule[snap.id].version = snap.scheduled

NextCandidate(s) ==
  sched' = [sched EXCEPT ![s] = IF Len(@.batch) = 1 THEN IdleSched
                                ELSE [pc |-> "plan", next |-> NULL, batch |-> Tail(@.batch)]]

ToTheEnd(t) ==
  order' = [u \in Triggers |-> IF u = t THEN Cardinality(Triggers)
                               ELSE IF order[u] > order[t] THEN order[u] - 1 ELSE order[u]]

\* The task, the event's epochs and the scheduled version commit together; a
\* snapshot that is out of date is dropped without a trace.  When the reply to
\* the commit is lost the candidate counts as failed.
ApplySchedule(s) ==
  LET snap == Head(sched[s].batch) IN
  /\ sched[s].pc = "apply"
  /\ \/ /\ lockSchedule(snap)
        /\ IF due(snap) THEN Fire(snap.id, snap.version, snap.next) ELSE UNCHANGED fired
        /\ event' = [event EXCEPT ![snap.id] =
                       [last |-> IF due(snap) THEN snap.next ELSE snap.last,
                        next |-> sched[s].next]]
        /\ schedule' = [schedule EXCEPT ![snap.id] =
                          [version |-> snap.version, backoff |-> FALSE]]
        /\ ToTheEnd(snap.id)
        /\ NextCandidate(s) \/ sched' = [sched EXCEPT ![s].pc = "failed"]
     \/ ~lockSchedule(snap) /\ NextCandidate(s) /\ UNCHANGED <<event, schedule, order, fired>>
  /\ UNCHANGED <<now, control, trigger>>

\* Mutant: the failure is logged and nothing is written.
ScheduleFailedSilently(s) ==
  /\ sched[s].pc = "failed"
  /\ NextCandidate(s)
  /\ UNCHANGED <<now, control, trigger, event, schedule, order, fired>>

\* A retry delay is recorded, if the snapshot still holds and the database
\* answers.
ScheduleFailed(s) ==
  LET snap == Head(sched[s].batch) IN
  /\ sched[s].pc = "failed"
  /\ \/ /\ lockSchedule(snap)
        /\ schedule' = [schedule EXCEPT ![snap.id].backoff = TRUE]
        /\ ToTheEnd(snap.id)
     \/ UNCHANGED <<schedule, order>>
  /\ NextCandidate(s)
  /\ UNCHANGED <<now, control, trigger, event, fired>>

\* The cycle's time is over, or the process dies.
AbandonCycle(s) ==
  /\ sched[s].pc # "idle"
  /\ sched' = [sched EXCEPT ![s] = IdleSched]
  /\ UNCHANGED <<now, control, trigger, event, schedule, order, fired>>

-----------------------------------------------------------------------------
SchedNext ==
  \/ Elapse
  \/ \E t \in Triggers :
        \/ Edit(t)
        \/ Delete(t)
        \/ DelayOver(t)
        \/ \E n \in Epochs : PhpSchedule(t, n)
  \/ \E o \in {"php", "paused", "gorge"} : SetOwner(o)
  \/ \E s \in Schedulers :
        \/ ScheduleCandidates(s)
        \/ \E n \in Epochs : Plan(s, n)
        \/ Refuse(s)
        \/ ApplySchedule(s)
        \/ ScheduleFailed(s)
        \/ AbandonCycle(s)

SchedSpec == SchedInit /\ [][SchedNext]_schedVars

\* Steps that liveness relies on: a trigger is planned, its plan is applied,
\* and the failure of one that cannot be planned is recorded.
Planned(t) == \E s \in Schedulers, n \in Epochs :
  sched[s].pc = "plan" /\ Head(sched[s].batch).id = t /\ Plan(s, n)
Applied(t) == \E s \in Schedulers :
  sched[s].pc = "apply" /\ Head(sched[s].batch).id = t /\ ApplySchedule(s)
FailureKept(t) == \E s \in Schedulers :
  /\ sched[s].pc = "failed" /\ Head(sched[s].batch).id = t
  /\ lockSchedule(Head(sched[s].batch)) /\ ScheduleFailed(s) /\ schedule'[t].backoff

-----------------------------------------------------------------------------
\* An occurrence becomes one task, whoever fires it: replicas working on the
\* same snapshot, PHP before and after it hands over the schedule, a replica
\* that comes back with an old plan.
FiredOnce == \A occ \in DOMAIN fired : fired[occ] = 1

\* A task is enqueued only for the trigger as it is now: an edit, a deletion or
\* a change of owner between the snapshot and the commit defeats the plan, and
\* nothing fires before its time.
NoStaleFireStep ==
  \A occ \in DOMAIN fired' \ DOMAIN fired :
    /\ trigger[occ.id] = occ.version
    /\ event[occ.id].next = occ.epoch /\ occ.epoch <= now
    /\ control.owner # "paused"
NoStaleFire == [][NoStaleFireStep]_schedVars

\* While gorge owns the schedule no occurrence of a plannable trigger stays due
\* for ever: triggers whose plans fail do not keep the others waiting.
Due(t, n) ==
  /\ control.owner = "gorge" /\ trigger[t] # 0
  /\ schedule[t].version = trigger[t] /\ event[t].next = n /\ n <= now
DueFires ==
  \A t \in Triggers \ Failing, n \in 1..MaxNow : Due(t, n) ~> ~Due(t, n)

\* Every occurrence is fired once and from a plan that is not stale, whoever
\* edits, deletes or owns the trigger meanwhile (ApplySchedule).
FiresOnceAsPlanned == []FiredOnce /\ NoStaleFire
=============================================================================
