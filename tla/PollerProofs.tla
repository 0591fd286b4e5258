---------------------------- MODULE PollerProofs ----------------------------
(***************************************************************************)
(* The two services that poll tables they share with PHP, and the write    *)
(* of the storage router.                                                  *)
(*                                                                         *)
(* The trigger scheduler fires every occurrence once and never from a plan *)
(* that is stale, for any number of triggers, replicas, versions and       *)
(* epochs.  The argument: a version of a trigger is materialised once, and *)
(* from then on its next epoch only grows, so that an occurrence that has  *)
(* become a task lies behind the next epoch; a plan that passes            *)
(* lockSchedule speaks of the state as it is.                              *)
(*                                                                         *)
(* The cleanup deletes a row only under the policy in force, for any       *)
(* number of collectors, lanes and rows.  The argument: a lane's cutoff    *)
(* only grows older than the policy it was claimed under, and a lease that *)
(* passes checkLease still has that policy.                                *)
(*                                                                         *)
(* A storage write that falls through its engines stores the whole body:   *)
(* the recording it rewinds to outlasts every engine with a size limit.    *)
(***************************************************************************)
EXTENDS Scheduler, Cleanup, StorageRouter, WellFoundedInduction,
        NaturalsInduction, TLAPS

Snapshots ==
  [id : Triggers, version : Nat, epoch : Nat, last : Epochs, next : Epochs,
   scheduled : Nat, now : Nat]
Occurrences == [id : Triggers, version : Nat, epoch : Epochs \ {NULL}]

SchedTypeOK ==
  /\ now \in Nat
  /\ control \in [owner : {"php", "paused", "gorge"}, epoch : Nat]
  /\ trigger \in [Triggers -> Nat]
  /\ event \in [Triggers -> [last : Epochs, next : Epochs]]
  /\ schedule \in [Triggers -> [version : Nat, backoff : BOOLEAN]]
  /\ sched \in [Schedulers -> [pc : {"idle", "plan", "apply", "failed"},
                               batch : Seq(Snapshots), next : Epochs]]
  /\ DOMAIN fired \subseteq Occurrences

\* What ScheduleCandidates selects: a trigger that exists, due or edited.
Selected(snap) ==
  /\ snap.version # 0 /\ snap.now <= now
  /\ snap.scheduled = snap.version => due(snap)

\* A replica inside a cycle has candidates left, all of them selected, and the
\* plan it is about to apply moves a due trigger forward.
CyclesOK ==
  \A s \in Schedulers : sched[s].pc # "idle" =>
    /\ sched[s].batch # <<>>
    /\ \A i \in 1..Len(sched[s].batch) : Selected(sched[s].batch[i])
    /\ sched[s].pc = "apply" /\ due(Head(sched[s].batch))
         => sched[s].next \in LaterEpochs(Head(sched[s].batch).next)

\* No version is scheduled before it exists.
VersionsOK == \A t \in Triggers : trigger[t] # 0 => schedule[t].version <= trigger[t]

\* An occurrence of e has been left behind by the schedule of its trigger.
Behind(occ) ==
  /\ occ.version <= schedule[occ.id].version
  /\ occ.version = schedule[occ.id].version
       => event[occ.id].next = NULL \/ occ.epoch < event[occ.id].next

FiredOK == \A occ \in DOMAIN fired : fired[occ] = 1 /\ Behind(occ)

SchedInv == SchedTypeOK /\ CyclesOK /\ VersionsOK /\ FiredOK

-----------------------------------------------------------------------------
(* The set of tasks when a version is materialised and when one is fired,  *)
(* whoever does it.                                                        *)

\* Nothing but the schedule of t moves.
OnlyMoves(t) ==
  \A u \in Triggers \ {t} :
    schedule'[u].version = schedule[u].version /\ event'[u].next = event[u].next

\* A version that is materialised is new: no task was made for it.
LEMMA MaterialiseKeepsFired ==
  ASSUME SchedTypeOK, VersionsOK, FiredOK, NEW t \in Triggers, OnlyMoves(t),
         trigger[t] # 0, schedule[t].version # trigger[t],
         schedule'[t].version = trigger[t], UNCHANGED fired
  PROVE  FiredOK'
<1>1. schedule[t].version \in Nat /\ trigger[t] \in Nat
  BY ZenonT(60) DEF SchedTypeOK
<1>2. schedule[t].version < trigger[t]
  BY <1>1 DEF VersionsOK
<1>3. ASSUME NEW occ \in DOMAIN fired
      PROVE  Behind(occ)'
  <2>1. occ.id \in Triggers /\ occ.version \in Nat
    BY ZenonT(60) DEF SchedTypeOK, Occurrences
  <2>2. CASE occ.id = t
    BY <1>1, <1>2, <2>1, <2>2 DEF FiredOK, Behind
  <2>3. CASE occ.id # t
    BY ZenonT(60), <2>1, <2>3 DEF FiredOK, Behind, OnlyMoves
  <2> QED BY ZenonT(60), <2>2, <2>3
<1> QED BY ZenonT(60), <1>3 DEF FiredOK

\* The occurrence that is fired is the next one, which lies ahead of every
\* occurrence of its version that has a task; afterwards it is left behind.
LEMMA FireKeepsFired ==
  ASSUME SchedTypeOK, FiredOK, NEW t \in Triggers, OnlyMoves(t),
         schedule[t].version = trigger[t], schedule'[t].version = trigger[t],
         event[t].next # NULL, event'[t].next \in LaterEpochs(event[t].next),
         Fire(t, trigger[t], event[t].next)
  PROVE  FiredOK' /\ DOMAIN fired' \subseteq Occurrences
<1>0. PICK new : new = [id |-> t, version |-> trigger[t], epoch |-> event[t].next]
  BY ZenonT(60)
<1>1. event[t].next \in Epochs \ {NULL} /\ trigger[t] \in Nat
  BY ZenonT(60) DEF SchedTypeOK
<1>2. new \in Occurrences
  BY ZenonT(60), <1>0, <1>1 DEF Occurrences
<1>3. event[t].next \in Int
  BY <1>1 DEF Epochs
<1>4. new \notin DOMAIN fired
  <2> SUFFICES ASSUME new \in DOMAIN fired PROVE FALSE
    BY ZenonT(60)
  <2>1. Behind(new)
    BY ZenonT(60) DEF FiredOK
  <2>2. new.id = t /\ new.version = trigger[t] /\ new.epoch = event[t].next
    BY ZenonT(60), <1>0
  <2> QED BY <1>3, <2>1, <2>2 DEF Behind
<1>5. fired' = [x \in DOMAIN fired \cup {new} |->
                 (IF x \in DOMAIN fired THEN fired[x] ELSE 0) + (IF x = new THEN 1 ELSE 0)]
  BY ZenonT(60), <1>0 DEF Fire
<1>6. DOMAIN fired' = DOMAIN fired \cup {new}
  BY ZenonT(60), <1>5
<1>7. fired'[new] = 1
  BY <1>4, <1>5
<1>8. ASSUME NEW x \in DOMAIN fired
      PROVE  fired'[x] = 1
  <2>1. x # new /\ fired[x] = 1
    BY ZenonT(60), <1>4 DEF FiredOK
  <2>2. fired'[x] = fired[x] + 0
    BY ZenonT(60), <1>5, <2>1
  <2> QED BY <2>1, <2>2
<1>9. ASSUME NEW occ \in DOMAIN fired
      PROVE  Behind(occ)'
  <2>1. occ.id \in Triggers /\ occ.version \in Nat /\ occ.epoch \in Int
    BY DEF SchedTypeOK, Occurrences, Epochs
  <2>2. CASE occ.id = t
    <3>1. occ.version <= trigger[t]
      BY ZenonT(60), <2>2 DEF FiredOK, Behind
    <3>2. ASSUME occ.version = trigger[t] PROVE occ.epoch < event[t].next
      BY ZenonT(60), <2>2, <3>2 DEF FiredOK, Behind
    <3> QED BY <1>3, <2>1, <2>2, <3>1, <3>2 DEF Behind, LaterEpochs, Epochs
  <2>3. CASE occ.id # t
    BY ZenonT(60), <2>1, <2>3 DEF FiredOK, Behind, OnlyMoves
  <2> QED BY ZenonT(60), <2>2, <2>3
<1>10. Behind(new)'
  <2>1. new.id = t /\ new.version = trigger[t] /\ new.epoch = event[t].next
    BY ZenonT(60), <1>0
  <2>2. event'[t].next = NULL \/ event[t].next < event'[t].next
    BY ZenonT(60), <1>3 DEF LaterEpochs, Epochs
  <2> QED BY <1>1, <2>1, <2>2 DEF Behind
<1> QED BY ZenonT(60), <1>2, <1>6, <1>7, <1>8, <1>9, <1>10 DEF FiredOK, SchedTypeOK

-----------------------------------------------------------------------------
(* The replicas' cycles.                                                   *)

SchedRecords ==
  [pc : {"idle", "plan", "apply", "failed"}, batch : Seq(Snapshots), next : Epochs]

\* Only replica s moves: the others keep what they know.
LEMMA OneReplicaMoves ==
  ASSUME SchedTypeOK, CyclesOK, NEW s \in Schedulers, NEW r \in SchedRecords,
         UNCHANGED now, sched' = [sched EXCEPT ![s] = r],
         r.pc # "idle" =>
           /\ r.batch # <<>>
           /\ \A i \in 1..Len(r.batch) : Selected(r.batch[i])
           /\ r.pc = "apply" /\ due(Head(r.batch)) => r.next \in LaterEpochs(Head(r.batch).next)
  PROVE  CyclesOK' /\ sched' \in [Schedulers -> SchedRecords]
<1>1. sched \in [Schedulers -> SchedRecords]
  BY ZenonT(60) DEF SchedTypeOK, SchedRecords
<1>2. sched'[s] = r /\ \A u \in Schedulers \ {s} : sched'[u] = sched[u]
  BY ZenonT(60), <1>1
<1>3. CyclesOK'
  BY <1>2 DEF CyclesOK, Selected, due, LaterEpochs, Epochs
<1> QED BY ZenonT(60), <1>1, <1>3

\* A cycle goes on with its next snapshot or ends.
LEMMA NextCandidateOK ==
  ASSUME SchedTypeOK, CyclesOK, NEW s \in Schedulers, sched[s].pc # "idle",
         UNCHANGED now, NextCandidate(s)
  PROVE  CyclesOK' /\ sched' \in [Schedulers -> SchedRecords]
<1>1. sched[s].batch \in Seq(Snapshots) /\ sched[s].batch # <<>>
  BY ZenonT(60) DEF SchedTypeOK, CyclesOK
<1>2. CASE Len(sched[s].batch) = 1
  <2>1. IdleSched \in SchedRecords /\ IdleSched.pc = "idle"
    BY DEF IdleSched, SchedRecords, Epochs
  <2>2. sched' = [sched EXCEPT ![s] = IdleSched]
    BY ZenonT(60), <1>2 DEF NextCandidate
  <2> HIDE DEF IdleSched
  <2> QED BY ZenonT(60), <2>1, <2>2, OneReplicaMoves
<1>3. CASE Len(sched[s].batch) # 1
  <2>1. PICK r : r = [pc |-> "plan", next |-> NULL, batch |-> Tail(sched[s].batch)]
    BY ZenonT(60)
  <2>2. Tail(sched[s].batch) \in Seq(Snapshots) /\ Tail(sched[s].batch) # <<>>
    <3>1. Tail(sched[s].batch) \in Seq(Snapshots) /\ Len(Tail(sched[s].batch)) = Len(sched[s].batch) - 1
      BY <1>1
    <3>2. Len(sched[s].batch) \in Nat
      BY <1>1
    <3>3. Tail(sched[s].batch) = <<>> => Len(Tail(sched[s].batch)) = 0
      <4>1. Len(<<>>) = 0
        BY ZenonT(60)
      <4> QED BY ZenonT(60), <4>1
    <3> QED BY <1>3, <3>1, <3>2, <3>3
  <2>3. r \in SchedRecords
    BY ZenonT(60), <2>1, <2>2 DEF SchedRecords, Epochs
  <2>4. \A i \in 1..Len(Tail(sched[s].batch)) : Selected(Tail(sched[s].batch)[i])
    BY <1>1 DEF CyclesOK
  <2>5. sched' = [sched EXCEPT ![s] = r]
    BY ZenonT(60), <1>3, <2>1 DEF NextCandidate
  <2> QED BY ZenonT(60), <2>1, <2>2, <2>3, <2>4, <2>5, OneReplicaMoves
<1> QED BY ZenonT(60), <1>2, <1>3

\* The snapshots of a new cycle are selected from the tables as they are.
LEMMA ScheduleCandidatesOK ==
  ASSUME SchedInv, NEW s \in Schedulers, ScheduleCandidates(s)
  PROVE  SchedInv'
<1>1. PICK batch \in Oldest({t \in Triggers : NeedsAttention(t)}) :
        sched' = [sched EXCEPT ![s] = [pc |-> "plan", next |-> NULL,
                    batch |-> [i \in DOMAIN batch |-> Snapshot(batch[i])]]]
  BY ZenonT(60) DEF ScheduleCandidates
<1>2. PICK n \in 1..CycleLimit : batch \in [1..n -> {t \in Triggers : NeedsAttention(t)}]
  BY ZenonT(60) DEF Oldest
<1>3. n \in Nat \ {0}
  BY SchedulerAssumption
<1>4. ASSUME NEW t \in Triggers, NeedsAttention(t)
      PROVE  Snapshot(t) \in Snapshots /\ Selected(Snapshot(t))
  BY <1>4 DEF SchedInv, SchedTypeOK, Snapshot, Snapshots, Selected, NeedsAttention, due
<1>5. PICK snaps : snaps = [i \in 1..n |-> Snapshot(batch[i])]
  BY ZenonT(60)
<1>6. snaps \in [1..n -> Snapshots] /\ \A i \in 1..n : Selected(snaps[i])
  BY ZenonT(60), <1>2, <1>4, <1>5
<1>7. snaps \in Seq(Snapshots) /\ Len(snaps) = n /\ snaps # <<>>
  BY <1>3, <1>6
<1>8. PICK r : r = [pc |-> "plan", next |-> NULL, batch |-> snaps]
  BY ZenonT(60)
<1>9. r \in SchedRecords
  BY ZenonT(60), <1>7, <1>8 DEF SchedRecords, Epochs
<1>10. sched' = [sched EXCEPT ![s] = r]
  BY ZenonT(60), <1>1, <1>2, <1>5, <1>8
<1>11. CyclesOK' /\ sched' \in [Schedulers -> SchedRecords]
  BY ZenonT(60), <1>6, <1>7, <1>8, <1>9, <1>10, OneReplicaMoves DEF SchedInv, ScheduleCandidates
<1> QED BY ZenonT(60), <1>11 DEF SchedInv, SchedTypeOK, SchedRecords, ScheduleCandidates, VersionsOK, FiredOK, Behind

\* What a replica knows of its first candidate.
LEMMA HeadSelected ==
  ASSUME SchedTypeOK, CyclesOK, NEW s \in Schedulers, sched[s].pc # "idle"
  PROVE  /\ Head(sched[s].batch) \in Snapshots
         /\ Selected(Head(sched[s].batch))
<1>1. sched[s].batch \in Seq(Snapshots) /\ sched[s].batch # <<>>
  BY ZenonT(60) DEF SchedTypeOK, CyclesOK
<1>2. Head(sched[s].batch) \in Snapshots
  BY <1>1
<1>3. Len(sched[s].batch) \in Nat \ {0}
  BY <1>1
<1>4. Head(sched[s].batch) = sched[s].batch[1]
  BY <1>1
<1>5. \A i \in 1..Len(sched[s].batch) : Selected(sched[s].batch[i])
  BY ZenonT(60) DEF CyclesOK
<1>6. Selected(sched[s].batch[1])
  BY <1>3, <1>5
<1> QED BY ZenonT(60), <1>2, <1>4, <1>6

\* The steps of a replica that write no table.
LEMMA PlanOK ==
  ASSUME SchedInv, NEW s \in Schedulers, NEW n \in Epochs, Plan(s, n)
  PROVE  SchedInv'
<1>1. PICK r : r = [sched[s] EXCEPT !.pc = "apply", !.next = n]
  BY ZenonT(60)
<1>2. sched[s] \in SchedRecords /\ sched[s].pc = "plan"
  BY ZenonT(60) DEF SchedInv, SchedTypeOK, SchedRecords, Plan
<1>3. r \in SchedRecords /\ r.pc = "apply" /\ r.next = n /\ r.batch = sched[s].batch
  BY ZenonT(60), <1>1, <1>2 DEF SchedRecords
<1>4. sched' = [sched EXCEPT ![s] = r]
  BY ZenonT(60), <1>1, <1>2 DEF Plan, SchedInv, SchedTypeOK, SchedRecords
<1>5. r.batch # <<>> /\ \A i \in 1..Len(r.batch) : Selected(r.batch[i])
  BY ZenonT(60), <1>2, <1>3 DEF SchedInv, CyclesOK
<1>6. due(Head(r.batch)) => r.next \in LaterEpochs(Head(r.batch).next)
  BY ZenonT(60), <1>3 DEF Plan
<1>7. CyclesOK' /\ sched' \in [Schedulers -> SchedRecords]
  BY ZenonT(60), <1>3, <1>4, <1>5, <1>6, OneReplicaMoves DEF SchedInv, Plan
<1> QED BY ZenonT(60), <1>7 DEF SchedInv, SchedTypeOK, SchedRecords, Plan, VersionsOK, FiredOK, Behind

\* A cycle whose candidate is marked as failed.
LEMMA MarkFailedOK ==
  ASSUME SchedTypeOK, CyclesOK, NEW s \in Schedulers, sched[s].pc # "idle", UNCHANGED now,
         sched' = [sched EXCEPT ![s].pc = "failed"]
  PROVE  CyclesOK' /\ sched' \in [Schedulers -> SchedRecords]
<1>1. PICK r : r = [sched[s] EXCEPT !.pc = "failed"]
  BY ZenonT(60)
<1>2. sched[s] \in SchedRecords
  BY ZenonT(60) DEF SchedTypeOK, SchedRecords
<1>3. r \in SchedRecords /\ r.pc = "failed" /\ r.batch = sched[s].batch
  BY ZenonT(60), <1>1, <1>2 DEF SchedRecords
<1>4. sched' = [sched EXCEPT ![s] = r]
  BY ZenonT(60), <1>1, <1>2 DEF SchedTypeOK, SchedRecords
<1>5. r.batch # <<>> /\ \A i \in 1..Len(r.batch) : Selected(r.batch[i])
  BY ZenonT(60), <1>3 DEF CyclesOK
<1> QED BY ZenonT(60), <1>3, <1>4, <1>5, OneReplicaMoves

\* PHP refuses a plan.
LEMMA RefuseOK ==
  ASSUME SchedInv, NEW s \in Schedulers, Refuse(s)
  PROVE  SchedInv'
<1>1. CyclesOK' /\ sched' \in [Schedulers -> SchedRecords]
  BY ZenonT(60), MarkFailedOK DEF SchedInv, Refuse
<1> QED BY ZenonT(60), <1>1 DEF SchedInv, SchedTypeOK, SchedRecords, Refuse, VersionsOK, FiredOK, Behind

\* A cycle is given up.
LEMMA AbandonCycleOK ==
  ASSUME SchedInv, NEW s \in Schedulers, AbandonCycle(s)
  PROVE  SchedInv'
<1>1. IdleSched \in SchedRecords /\ IdleSched.pc = "idle"
  BY DEF IdleSched, SchedRecords, Epochs
<1> HIDE DEF IdleSched
<1>2. CyclesOK' /\ sched' \in [Schedulers -> SchedRecords]
  BY ZenonT(60), <1>1, OneReplicaMoves DEF SchedInv, AbandonCycle
<1> QED BY ZenonT(60), <1>2 DEF SchedInv, SchedTypeOK, SchedRecords, AbandonCycle, VersionsOK, FiredOK, Behind

\* A failure is recorded if the schedule is as the snapshot saw it.
LEMMA ScheduleFailedOK ==
  ASSUME SchedInv, NEW s \in Schedulers, ScheduleFailed(s)
  PROVE  SchedInv'
<1>1. sched[s].pc # "idle"
  BY ZenonT(60) DEF ScheduleFailed
<1>2. Head(sched[s].batch) \in Snapshots
  BY ZenonT(60), <1>1, HeadSelected DEF SchedInv
<1>3. Head(sched[s].batch).id \in Triggers
  BY ZenonT(60), <1>2 DEF Snapshots
<1>4. CyclesOK' /\ sched' \in [Schedulers -> SchedRecords]
  BY ZenonT(60), <1>1, NextCandidateOK DEF SchedInv, ScheduleFailed
<1>5. /\ schedule' \in [Triggers -> [version : Nat, backoff : BOOLEAN]]
      /\ \A t \in Triggers : schedule'[t].version = schedule[t].version
  <2>1. CASE UNCHANGED schedule
    BY ZenonT(60), <2>1 DEF SchedInv, SchedTypeOK
  <2>2. CASE schedule' = [schedule EXCEPT ![Head(sched[s].batch).id].backoff = TRUE]
    BY ZenonT(60), <2>2, <1>3 DEF SchedInv, SchedTypeOK
  <2> QED BY ZenonT(60), <2>1, <2>2 DEF ScheduleFailed
<1>6. FiredOK'
  BY <1>5 DEF SchedInv, SchedTypeOK, Occurrences, ScheduleFailed, FiredOK, Behind
<1> QED BY ZenonT(60), <1>4, <1>5, <1>6 DEF SchedInv, SchedTypeOK, SchedRecords, ScheduleFailed, VersionsOK

-----------------------------------------------------------------------------
(* The commit of a plan.                                                   *)

\* A plan that passes lockSchedule moves the trigger past the epoch it fires.
LEMMA ApplyScheduleOK ==
  ASSUME SchedInv, NEW s \in Schedulers, ApplySchedule(s)
  PROVE  SchedInv' /\ NoStaleFireStep
<1>1. sched[s].pc = "apply"
  BY ZenonT(60) DEF ApplySchedule
<1>2. PICK snap : snap = Head(sched[s].batch)
  BY ZenonT(60)
<1>3. snap \in Snapshots /\ Selected(snap)
  BY ZenonT(60), <1>1, <1>2, HeadSelected DEF SchedInv
<1>4. CyclesOK' /\ sched' \in [Schedulers -> SchedRecords]
  BY ZenonT(60), <1>1, NextCandidateOK, MarkFailedOK DEF SchedInv, ApplySchedule
<1>5. CASE ~lockSchedule(snap)
  <2>1. UNCHANGED <<event, schedule, fired, now, control, trigger>>
    BY ZenonT(60), <1>2, <1>5 DEF ApplySchedule
  <2>2. FiredOK' /\ NoStaleFireStep
    BY ZenonT(60), <2>1 DEF SchedInv, FiredOK, Behind, NoStaleFireStep
  <2> QED BY ZenonT(60), <1>4, <2>1, <2>2 DEF SchedInv, SchedTypeOK, SchedRecords, VersionsOK
<1>6. CASE lockSchedule(snap)
  <2>1. PICK t : t = snap.id
    BY ZenonT(60)
  <2>2. /\ t \in Triggers /\ trigger[t] = snap.version /\ event[t].next = snap.next
        /\ schedule[t].version = snap.scheduled /\ trigger[t] # 0 /\ control.owner = "gorge"
    BY ZenonT(60), <1>3, <1>6, <2>1 DEF lockSchedule, Snapshots, Selected
  <2>3. sched[s].next \in Epochs /\ snap.last \in Epochs /\ snap.next \in Epochs
    BY ZenonT(60), <1>3 DEF SchedInv, SchedTypeOK, Snapshots
  <2>4. /\ IF due(snap) THEN Fire(snap.id, snap.version, snap.next) ELSE UNCHANGED fired
        /\ event' = [event EXCEPT ![snap.id] = [last |-> IF due(snap) THEN snap.next ELSE snap.last,
                                                next |-> sched[s].next]]
        /\ schedule' = [schedule EXCEPT ![snap.id] = [version |-> snap.version, backoff |-> FALSE]]
        /\ UNCHANGED <<now, control, trigger>>
    BY ZenonT(60), <1>2, <1>6 DEF ApplySchedule
  <2>5. /\ event' \in [Triggers -> [last : Epochs, next : Epochs]]
        /\ event'[t].next = sched[s].next
        /\ \A u \in Triggers \ {t} : event'[u] = event[u]
    BY ZenonT(60), <2>1, <2>2, <2>3, <2>4 DEF SchedInv, SchedTypeOK
  <2>6. /\ schedule' \in [Triggers -> [version : Nat, backoff : BOOLEAN]]
        /\ schedule'[t].version = trigger[t]
        /\ \A u \in Triggers \ {t} : schedule'[u] = schedule[u]
    BY ZenonT(60), <1>3, <2>1, <2>2, <2>4 DEF SchedInv, SchedTypeOK, Snapshots
  <2>7. OnlyMoves(t)
    BY ZenonT(60), <2>5, <2>6 DEF OnlyMoves
  <2>8. VersionsOK'
    BY <2>4, <2>6 DEF SchedInv, SchedTypeOK, VersionsOK
  <2>9. CASE due(snap)
    <3>1. snap.next # NULL /\ snap.next <= snap.now /\ snap.now <= now /\ snap.scheduled = snap.version
      BY ZenonT(60), <1>3, <2>9 DEF due, Selected
    <3>2. sched[s].next \in LaterEpochs(snap.next)
      BY ZenonT(60), <1>1, <1>2, <2>9 DEF SchedInv, CyclesOK
    <3>3. LaterEpochs(snap.next) = LaterEpochs(event[t].next)
      BY ZenonT(60), <2>2
    <3>4. Fire(t, trigger[t], event[t].next)
      BY ZenonT(60), <2>1, <2>2, <2>4, <2>9
    <3>5. FiredOK' /\ DOMAIN fired' \subseteq Occurrences
      BY ZenonT(60), <2>2, <2>5, <2>6, <2>7, <3>1, <3>2, <3>3, <3>4, FireKeepsFired DEF SchedInv
    <3>6. NoStaleFireStep
      <4> SUFFICES ASSUME NEW occ \in DOMAIN fired' \ DOMAIN fired
                   PROVE  /\ trigger[occ.id] = occ.version
                          /\ event[occ.id].next = occ.epoch /\ occ.epoch <= now
                          /\ control.owner # "paused"
        BY ZenonT(60) DEF NoStaleFireStep
      <4>1. occ = [id |-> t, version |-> trigger[t], epoch |-> event[t].next]
        BY ZenonT(60), <3>4 DEF Fire
      <4>2. snap.next \in Int /\ snap.now \in Nat /\ now \in Nat
        BY <1>3, <3>1, <2>3 DEF SchedInv, SchedTypeOK, Snapshots, Epochs
      <4> QED BY <2>2, <3>1, <4>1, <4>2
    <3> QED BY ZenonT(60), <1>4, <2>4, <2>5, <2>6, <2>8, <3>5, <3>6 DEF SchedInv, SchedTypeOK, SchedRecords
  <2>10. CASE ~due(snap)
    <3>1. schedule[t].version # trigger[t]
      BY ZenonT(60), <1>3, <2>2, <2>10 DEF Selected
    <3>2. UNCHANGED fired
      BY ZenonT(60), <2>4, <2>10
    <3>3. FiredOK' /\ NoStaleFireStep
      BY ZenonT(60), <2>2, <2>6, <2>7, <3>1, <3>2, MaterialiseKeepsFired DEF SchedInv, NoStaleFireStep
    <3> QED BY ZenonT(60), <1>4, <2>4, <2>5, <2>6, <2>8, <3>2, <3>3 DEF SchedInv, SchedTypeOK, SchedRecords
  <2> QED BY ZenonT(60), <2>9, <2>10
<1> QED BY ZenonT(60), <1>5, <1>6

-----------------------------------------------------------------------------
(* The PHP side.                                                           *)

\* PHP schedules while it owns the schedule.
LEMMA PhpScheduleOK ==
  ASSUME SchedInv, NEW t \in Triggers, NEW n \in Epochs, PhpSchedule(t, n)
  PROVE  SchedInv' /\ NoStaleFireStep
<1>1. trigger[t] # 0 /\ trigger[t] \in Nat /\ control.owner = "php" /\ UNCHANGED <<now, control, trigger, sched>>
  BY ZenonT(60) DEF PhpSchedule, SchedInv, SchedTypeOK
<1>2. CyclesOK'
  BY <1>1 DEF SchedInv, CyclesOK, Selected, due, LaterEpochs, Epochs
<1>3. CASE schedule[t].version # trigger[t]
  <2>1. /\ event' = [event EXCEPT ![t].next = n]
        /\ schedule' = [schedule EXCEPT ![t].version = trigger[t]]
        /\ UNCHANGED fired
    BY ZenonT(60), <1>3 DEF PhpSchedule
  <2>2. /\ event' \in [Triggers -> [last : Epochs, next : Epochs]]
        /\ schedule' \in [Triggers -> [version : Nat, backoff : BOOLEAN]]
        /\ schedule'[t].version = trigger[t] /\ OnlyMoves(t)
    BY ZenonT(60), <1>1, <2>1 DEF SchedInv, SchedTypeOK, OnlyMoves
  <2>3. VersionsOK'
    <3> SUFFICES ASSUME NEW u \in Triggers, trigger'[u] # 0
                 PROVE  schedule'[u].version <= trigger'[u]
      BY ZenonT(60) DEF VersionsOK
    <3>1. trigger[u] # 0 /\ trigger'[u] = trigger[u]
      BY ZenonT(60), <1>1
    <3>2. CASE u = t
      BY <1>1, <2>2, <3>1, <3>2
    <3>3. CASE u # t
      BY ZenonT(60), <2>2, <3>1, <3>3 DEF SchedInv, VersionsOK, OnlyMoves
    <3> QED BY ZenonT(60), <3>2, <3>3
  <2>4. FiredOK' /\ NoStaleFireStep
    BY ZenonT(60), <1>1, <1>3, <2>1, <2>2, MaterialiseKeepsFired DEF SchedInv, NoStaleFireStep
  <2> QED BY ZenonT(60), <1>1, <1>2, <2>1, <2>2, <2>3, <2>4 DEF SchedInv, SchedTypeOK
<1>4. CASE schedule[t].version = trigger[t]
  <2>1. /\ event[t].next # NULL /\ event[t].next <= now
        /\ n \in LaterEpochs(event[t].next)
        /\ Fire(t, trigger[t], event[t].next)
        /\ event' = [event EXCEPT ![t] = [last |-> event[t].next, next |-> n]]
        /\ UNCHANGED schedule
    BY ZenonT(60), <1>4 DEF PhpSchedule
  <2>2. /\ event' \in [Triggers -> [last : Epochs, next : Epochs]]
        /\ event'[t].next = n /\ OnlyMoves(t)
    <3>1. event[t].next \in Epochs
      BY ZenonT(60) DEF SchedInv, SchedTypeOK
    <3>2. [last |-> event[t].next, next |-> n] \in [last : Epochs, next : Epochs]
      BY ZenonT(60), <3>1
    <3> QED BY ZenonT(60), <2>1, <3>2 DEF SchedInv, SchedTypeOK, OnlyMoves
  <2>3. VersionsOK'
    BY ZenonT(60), <1>1, <2>1 DEF SchedInv, VersionsOK
  <2>4. FiredOK' /\ DOMAIN fired' \subseteq Occurrences
    BY ZenonT(60), <1>4, <2>1, <2>2, FireKeepsFired DEF SchedInv
  <2>5. NoStaleFireStep
    <3> SUFFICES ASSUME NEW occ \in DOMAIN fired' \ DOMAIN fired
                 PROVE  /\ trigger[occ.id] = occ.version
                        /\ event[occ.id].next = occ.epoch /\ occ.epoch <= now
                        /\ control.owner # "paused"
      BY ZenonT(60) DEF NoStaleFireStep
    <3>1. occ = [id |-> t, version |-> trigger[t], epoch |-> event[t].next]
      BY ZenonT(60), <2>1 DEF Fire
    <3> QED BY ZenonT(60), <1>1, <2>1, <3>1
  <2> QED BY ZenonT(60), <1>1, <1>2, <2>1, <2>2, <2>3, <2>4, <2>5 DEF SchedInv, SchedTypeOK
<1> QED BY ZenonT(60), <1>3, <1>4

-----------------------------------------------------------------------------
\* The empty tables satisfy the invariant.
LEMMA SchedInitOK == SchedInit => SchedInv
<1> SUFFICES ASSUME SchedInit PROVE SchedInv
  BY ZenonT(60)
<1>1. IdleSched \in SchedRecords /\ IdleSched.pc = "idle"
  BY DEF IdleSched, SchedRecords, Epochs
<1>2. \A s \in Schedulers : sched[s] = IdleSched
  BY ZenonT(60) DEF SchedInit
<1>3. sched \in [Schedulers -> SchedRecords] /\ CyclesOK
  <2> HIDE DEF IdleSched
  <2> QED BY ZenonT(60), <1>1, <1>2 DEF SchedInit, CyclesOK
<1>4. SchedTypeOK
  BY ZenonT(60), <1>3 DEF SchedInit, ClockInit, SchedTypeOK, SchedRecords, Epochs
<1>5. VersionsOK /\ FiredOK
  BY DEF SchedInit, VersionsOK, FiredOK
<1> QED BY ZenonT(60), <1>3, <1>4, <1>5 DEF SchedInv

\* Every step keeps the invariant and fires nothing stale.
LEMMA SchedStepOK ==
  ASSUME SchedInv, [SchedNext]_schedVars
  PROVE  SchedInv' /\ NoStaleFireStep
<1> USE DEF SchedInv, SchedTypeOK
<1>1. CASE Elapse
  <2>1. now' \in Nat /\ now <= now' /\ UNCHANGED <<control, trigger, event, schedule, sched, fired>>
    BY <1>1 DEF Elapse
  <2>2. CyclesOK'
    <3> SUFFICES ASSUME NEW s \in Schedulers, sched[s].pc # "idle",
                        NEW i \in 1..Len(sched[s].batch)
                 PROVE  Selected(sched[s].batch[i])'
      BY ZenonT(60), <2>1 DEF CyclesOK, due, LaterEpochs, Epochs
    <3>1. Selected(sched[s].batch[i])
      BY ZenonT(60) DEF CyclesOK
    <3>2. sched[s].batch[i].now \in Nat
      <4>1. sched[s].batch \in Seq(Snapshots)
        BY ZenonT(60)
      <4>2. sched[s].batch[i] \in Snapshots
        BY <4>1
      <4> QED BY ZenonT(60), <4>2 DEF Snapshots
    <3> QED BY <2>1, <3>1, <3>2 DEF Selected, due
  <2> QED BY ZenonT(60), <2>1, <2>2 DEF VersionsOK, FiredOK, Behind, NoStaleFireStep
<1>2. ASSUME NEW t \in Triggers, Edit(t) \/ Delete(t)
      PROVE  SchedInv' /\ NoStaleFireStep
  <2>1. UNCHANGED <<now, control, event, schedule, sched, fired>>
    BY ZenonT(60), <1>2 DEF Edit, Delete
  <2>2. PICK v \in Nat : trigger' = [trigger EXCEPT ![t] = v] /\ (v # 0 => v = trigger[t] + 1 /\ trigger[t] # 0)
    BY <1>2 DEF Edit, Delete
  <2>3. trigger' \in [Triggers -> Nat] /\ VersionsOK'
    BY <2>1, <2>2 DEF VersionsOK
  <2>4. CyclesOK'
    BY ZenonT(60), <2>1 DEF CyclesOK, Selected, due, LaterEpochs, Epochs
  <2> QED BY ZenonT(60), <2>1, <2>3, <2>4 DEF FiredOK, Behind, NoStaleFireStep
<1>3. ASSUME NEW t \in Triggers, DelayOver(t)
      PROVE  SchedInv' /\ NoStaleFireStep
  <2>1. /\ schedule' \in [Triggers -> [version : Nat, backoff : BOOLEAN]]
        /\ \A u \in Triggers : schedule'[u].version = schedule[u].version
    BY ZenonT(60), <1>3 DEF DelayOver
  <2>2. FiredOK' /\ VersionsOK'
    BY <1>3, <2>1 DEF DelayOver, FiredOK, Behind, VersionsOK, Occurrences
  <2> QED BY <1>3, <2>1, <2>2 DEF DelayOver, CyclesOK, Selected, due, LaterEpochs, Epochs, NoStaleFireStep
<1>4. ASSUME NEW o \in {"php", "paused", "gorge"}, SetOwner(o)
      PROVE  SchedInv' /\ NoStaleFireStep
  <2>1. UNCHANGED <<now, trigger, event, schedule, sched, fired>>
    BY ZenonT(60), <1>4 DEF SetOwner
  <2>2. CyclesOK' /\ VersionsOK'
    BY ZenonT(60), <2>1 DEF CyclesOK, Selected, due, LaterEpochs, Epochs, VersionsOK
  <2>3. FiredOK' /\ NoStaleFireStep
    BY ZenonT(60), <2>1 DEF FiredOK, Behind, NoStaleFireStep
  <2> QED BY <1>4, <2>1, <2>2, <2>3 DEF SetOwner
<1>5. ASSUME NEW s \in Schedulers,
             ScheduleCandidates(s) \/ (\E n \in Epochs : Plan(s, n)) \/ Refuse(s)
               \/ ScheduleFailed(s) \/ AbandonCycle(s)
      PROVE  SchedInv' /\ NoStaleFireStep
  <2>1. SchedInv'
    <3>1. \A n \in Epochs : Plan(s, n) => SchedInv'
      BY ZenonT(60), PlanOK
    <3>2. Refuse(s) \/ ScheduleFailed(s) \/ AbandonCycle(s) => SchedInv'
      BY ZenonT(60), RefuseOK, ScheduleFailedOK, AbandonCycleOK
    <3>3. ScheduleCandidates(s) => SchedInv'
      BY ZenonT(60), ScheduleCandidatesOK
    <3> QED BY ZenonT(60), <1>5, <3>1, <3>2, <3>3
  <2>2. UNCHANGED fired
    <3>1. \A n \in Epochs : Plan(s, n) => UNCHANGED fired
      BY ZenonT(60) DEF Plan
    <3>2. Refuse(s) \/ ScheduleFailed(s) \/ AbandonCycle(s) => UNCHANGED fired
      BY ZenonT(60) DEF Refuse, ScheduleFailed, AbandonCycle
    <3>3. ScheduleCandidates(s) => UNCHANGED fired
      BY ZenonT(60) DEF ScheduleCandidates
    <3> QED BY ZenonT(60), <1>5, <3>1, <3>2, <3>3
  <2> QED BY ZenonT(60), <2>1, <2>2 DEF NoStaleFireStep
<1>6. CASE UNCHANGED schedVars
  BY ZenonT(60), <1>6 DEF schedVars, CyclesOK, Selected, due, LaterEpochs, Epochs, VersionsOK, FiredOK, Behind, NoStaleFireStep
<1> QED
  BY ZenonT(60), <1>1, <1>2, <1>3, <1>4, <1>5, <1>6, PhpScheduleOK, ApplyScheduleOK DEF SchedNext

(* What makes the two properties below hold is an invariant of every       *)
(* behaviour: an occurrence that has a task lies behind the schedule.      *)
THEOREM SchedulerInvariant == SchedSpec => []SchedInv
  BY SchedInitOK, SchedStepOK, PTL DEF SchedSpec

(* ApplySchedule and the PHP scheduler turn every occurrence into one task *)
(* and never fire a trigger that was edited, deleted or taken over since   *)
(* it was read, whatever replicas, owners and lost replies do.             *)
THEOREM SchedulerFiresOnceAsPlanned == SchedSpec => FiresOnceAsPlanned
<1>1. SchedInv => FiredOnce
  BY ZenonT(60) DEF SchedInv, FiredOK, FiredOnce
<1>2. SchedInv /\ [SchedNext]_schedVars => [NoStaleFireStep]_schedVars
  BY ZenonT(60), SchedStepOK
<1> QED BY <1>1, <1>2, SchedulerInvariant, PTL DEF SchedSpec, FiresOnceAsPlanned, NoStaleFire

-----------------------------------------------------------------------------
(* Cleanup.                                                                *)

GcFields ==
  {"owner", "policy", "intact", "holder", "lease", "wait", "cutoff", "state", "failures"}
LeaseFields == {"current", "cutoff", "policy", "left", "rows", "next"}

\* A control row: only the service hands out leases.
ControlOK(row) ==
  /\ DOMAIN row = GcFields /\ row.policy \in Retentions
  /\ row.holder # Free => row.owner = "gorge"

\* A lease a lane works under was given a definite policy, and the cutoff it
\* was computed with has not become younger.
LeaseOK(k) ==
  /\ DOMAIN k = LeaseFields
  /\ k.policy \in Retentions \ {Indefinite} /\ k.cutoff \in Int /\ k.policy <= k.cutoff

LanesOK(lanes) ==
  /\ DOMAIN lanes = Lanes \cup Commands
  /\ \A l \in Lanes \cup Commands :
       /\ DOMAIN lanes[l] = Collectors
       /\ \A c \in Collectors : lanes[l][c] = NoLease \/ LeaseOK(lanes[l][c])

Ages == Nat \cup {-1}

GcInv ==
  /\ DOMAIN gc = Collectors /\ \A c \in Collectors : ControlOK(gc[c])
  /\ age \in [Collectors -> [GcRows -> Ages]]
  /\ config \in [Collectors -> Retentions]
  /\ LanesOK(lane)

\* The row without its lease.
LEMMA ReleasedOK ==
  ASSUME NEW row, ControlOK(row)
  PROVE  ControlOK(Released(row)) /\ Released(row).holder = Free /\ Released(row).owner = row.owner
BY ZenonT(60) DEF ControlOK, GcFields, Released

\* A new generation: the leases of older ones stay in memory, outdated.
LEMMA OutdatedOK ==
  ASSUME LanesOK(lane), NEW c \in Collectors
  PROVE  LanesOK(Outdated(c))
<1>1. \A l \in Lanes \cup Commands : lane[l][c] # NoLease =>
        LeaseOK([lane[l][c] EXCEPT !.current = FALSE])
  BY ZenonT(60) DEF LanesOK, LeaseOK, LeaseFields
<1>2. ASSUME NEW l \in Lanes \cup Commands
      PROVE  /\ DOMAIN Outdated(c)[l] = Collectors
             /\ \A d \in Collectors : Outdated(c)[l][d] = NoLease \/ LeaseOK(Outdated(c)[l][d])
  BY ZenonT(60), <1>1 DEF LanesOK, Outdated
<1>3. DOMAIN Outdated(c) = Lanes \cup Commands
  BY ZenonT(60) DEF LanesOK, Outdated
<1> QED BY ZenonT(60), <1>2, <1>3 DEF LanesOK

\* One lease of one lane is written.
LEMMA LanePut ==
  ASSUME NEW lanes, LanesOK(lanes), NEW l \in Lanes \cup Commands, NEW c \in Collectors,
         NEW k, k = NoLease \/ LeaseOK(k)
  PROVE  LanesOK([lanes EXCEPT ![l][c] = k])
BY ZenonT(60) DEF LanesOK

\* What a step may do: the two action properties of Cleanup.
MayDelete ==
  \A c \in Collectors, r \in GcRows :
    age[c][r] # -1 /\ age'[c][r] = -1 =>
      \/ gc[c].owner = "php" /\ age[c][r] > config[c]
      \/ gc[c].owner = "gorge" /\ gc[c].intact /\ age[c][r] > gc[c].policy

MayRelease ==
  \A c \in Collectors :
    gc[c].holder # Free /\ gc'[c].holder = Free /\ gc'[c].owner = gc[c].owner =>
      LaneLease(gc[c].holder, c) # NoLease /\ lane'[gc[c].holder][c] = NoLease

\* One control row is written.
LEMMA ControlPut ==
  ASSUME GcInv, NEW c \in Collectors, NEW row, ControlOK(row), gc' = [gc EXCEPT ![c] = row]
  PROVE  /\ DOMAIN gc' = Collectors /\ \A d \in Collectors : ControlOK(gc'[d])
         /\ gc'[c] = row /\ \A d \in Collectors \ {c} : gc'[d] = gc[d]
BY ZenonT(60) DEF GcInv

\* Time passes: rows and cutoffs age together.
LEMMA GcTickOK == GcInv /\ GcTick => GcInv' /\ MayDelete /\ MayRelease
<1> SUFFICES ASSUME GcInv, GcTick PROVE GcInv' /\ MayDelete /\ MayRelease
  BY ZenonT(60)
<1>1. \A n \in Int : Older(n) \in Int /\ n <= Older(n)
  BY CleanupAssumption DEF Older
<1>2. /\ DOMAIN gc' = Collectors
      /\ \A c \in Collectors : ControlOK(gc'[c]) /\ gc'[c].holder = gc[c].holder
  BY ZenonT(60) DEF GcInv, GcTick, ControlOK, GcFields
<1>3. /\ age' \in [Collectors -> [GcRows -> Ages]]
      /\ \A c \in Collectors, r \in GcRows : age'[c][r] = -1 => age[c][r] = -1
  <2>1. \A n \in Nat : Older(n) \in Nat
    BY CleanupAssumption DEF Older
  <2>2. ASSUME NEW c \in Collectors, NEW r \in GcRows
        PROVE  age'[c][r] \in Ages /\ (age'[c][r] = -1 => age[c][r] = -1)
    <3>1. PICK a \in Ages : a = age[c][r]
      BY ZenonT(60) DEF GcInv
    <3>2. age'[c][r] = IF a = -1 THEN -1 ELSE Older(a)
      BY ZenonT(60), <3>1 DEF GcTick
    <3> QED BY <2>1, <3>1, <3>2 DEF Ages
  <2>3. age' = [c \in Collectors |-> [r \in GcRows |-> age'[c][r]]]
    BY ZenonT(60) DEF GcTick
  <2> QED BY ONLY <2>2, <2>3
<1>4. LanesOK(lane')
  <2>1. ASSUME NEW l \in Lanes \cup Commands, NEW c \in Collectors
        PROVE  lane'[l][c] = NoLease \/ LeaseOK(lane'[l][c])
    <3>1. CASE lane[l][c] = NoLease
      BY ZenonT(60), <3>1 DEF GcInv, GcTick, LanesOK
    <3>2. CASE lane[l][c] # NoLease
      <4>1. PICK k : k = lane[l][c] /\ LeaseOK(k)
        BY ZenonT(60), <3>2 DEF GcInv, LanesOK
      <4>2. lane'[l][c] = [k EXCEPT !.cutoff = Older(k.cutoff), !.left = Shorter(k.left)]
        BY ZenonT(60), <3>2, <4>1 DEF GcInv, GcTick, LanesOK
      <4>3. Older(k.cutoff) \in Int /\ k.cutoff <= Older(k.cutoff)
        BY ZenonT(60), <1>1, <4>1 DEF LeaseOK
      <4>4. k.policy \in Int
        BY ZenonT(60), <4>1, CleanupAssumption DEF LeaseOK
      <4> QED BY <4>1, <4>2, <4>3, <4>4 DEF LeaseOK, LeaseFields
    <3> QED BY ZenonT(60), <3>1, <3>2
  <2> QED BY ZenonT(60), <2>1 DEF GcInv, GcTick, LanesOK
<1>5. config' = config
  BY ZenonT(60) DEF GcTick
<1> QED BY ZenonT(60), <1>2, <1>3, <1>4, <1>5 DEF GcInv, MayRelease, MayDelete

\* A step that writes the control row of c and leaves the tables alone.
LEMMA ControlStep ==
  ASSUME GcInv, NEW c \in Collectors, NEW row, ControlOK(row), gc' = [gc EXCEPT ![c] = row],
         row.holder = Free => gc[c].holder = Free \/ row.owner # gc[c].owner,
         LanesOK(lane'), config' \in [Collectors -> Retentions], UNCHANGED age
  PROVE  GcInv' /\ MayDelete /\ MayRelease
<1>1. GcInv'
  BY ZenonT(60), ControlPut DEF GcInv
<1>2. gc'[c] = row /\ \A d \in Collectors \ {c} : gc'[d] = gc[d]
  BY ZenonT(60), ControlPut
<1> QED BY ZenonT(60), <1>1, <1>2 DEF MayDelete, MayRelease

\* A policy is imported while no lease is out.
LEMMA ImportOK ==
  ASSUME GcInv, NEW c \in Collectors, Import(c)
  PROVE  GcInv' /\ MayDelete /\ MayRelease
<1>1. PICK base : base = Released(gc[c])
  BY ZenonT(60)
<1>2. ControlOK(gc[c]) /\ config[c] \in Retentions
  BY ZenonT(60) DEF GcInv
<1>3. ControlOK(base) /\ base.holder = Free
  BY ZenonT(60), <1>1, <1>2, ReleasedOK
<1>4. PICK row : row = [base EXCEPT !.policy = config[c], !.intact = TRUE,
              !.state = "idle", !.failures = 0]
  BY ZenonT(60)
<1>5. ControlOK(row)
  BY ZenonT(60), <1>2, <1>3, <1>4 DEF ControlOK, GcFields
<1>6. gc' = [gc EXCEPT ![c] = row]
  BY ZenonT(60), <1>1, <1>4 DEF Import
<1>7. gc[c].holder = Free
  BY ZenonT(60), <1>2 DEF Import, ControlOK
<1>8. LanesOK(lane') /\ config' = config /\ UNCHANGED age
  BY ZenonT(60), OutdatedOK DEF GcInv, Import
<1> QED BY ZenonT(60), <1>5, <1>6, <1>7, <1>8, ControlStep DEF GcInv

\* The owner changes, and no lease survives the change.
LEMMA TransferOK ==
  ASSUME GcInv, NEW c \in Collectors, NEW owner \in {"php", "paused", "gorge"}, Transfer(c, owner)
  PROVE  GcInv' /\ MayDelete /\ MayRelease
<1>1. PICK base : base = Released(gc[c])
  BY ZenonT(60)
<1>2. ControlOK(gc[c])
  BY ZenonT(60) DEF GcInv
<1>3. ControlOK(base) /\ base.holder = Free
  BY ZenonT(60), <1>1, <1>2, ReleasedOK
<1>4. PICK row : row = [base EXCEPT !.owner = owner, !.state = owner]
  BY ZenonT(60)
<1>5. ControlOK(row) /\ row.owner = owner
  BY ZenonT(60), <1>3, <1>4 DEF ControlOK, GcFields
<1>6. gc' = [gc EXCEPT ![c] = row]
  BY ZenonT(60), <1>1, <1>4 DEF Transfer
<1>7. gc[c].holder = Free \/ row.owner # gc[c].owner
  BY ZenonT(60), <1>2, <1>5 DEF Transfer, ControlOK
<1>8. LanesOK(lane') /\ config' = config /\ UNCHANGED age
  BY ZenonT(60), OutdatedOK DEF GcInv, Transfer
<1> QED BY ZenonT(60), <1>5, <1>6, <1>7, <1>8, ControlStep DEF GcInv

\* A policy change closes the collector until the new policy is imported.
LEMMA ChangeOK ==
  ASSUME GcInv, NEW c \in Collectors, ChangeBegins(c) \/ ChangeEnds(c)
  PROVE  GcInv' /\ MayDelete /\ MayRelease
<1>1. ControlOK(gc[c])
  BY ZenonT(60) DEF GcInv
<1>2. CASE ChangeBegins(c)
  <2>1. PICK row : row = [gc[c] EXCEPT !.intact = FALSE, !.state = "policy_changing"]
    BY ZenonT(60)
  <2>2. ControlOK(row) /\ row.holder = gc[c].holder
    BY ZenonT(60), <1>1, <2>1 DEF ControlOK, GcFields
  <2>3. gc' = [gc EXCEPT ![c] = row]
    BY ZenonT(60), <1>2, <2>1 DEF ChangeBegins, GcInv
  <2>4. LanesOK(lane') /\ config' = config /\ UNCHANGED age
    BY ZenonT(60), <1>2, OutdatedOK DEF GcInv, ChangeBegins
  <2> QED BY ZenonT(60), <2>2, <2>3, <2>4, ControlStep DEF GcInv
<1>3. CASE ChangeEnds(c)
  <2>1. PICK row : row = [gc[c] EXCEPT !.state = "policy_pending"]
    BY ZenonT(60)
  <2>2. ControlOK(row) /\ row.holder = gc[c].holder
    BY ZenonT(60), <1>1, <2>1 DEF ControlOK, GcFields
  <2>3. gc' = [gc EXCEPT ![c] = row]
    BY ZenonT(60), <1>3, <2>1 DEF ChangeEnds
  <2>4. LanesOK(lane') /\ config' \in [Collectors -> Retentions] /\ UNCHANGED age
    BY ZenonT(60), <1>3 DEF GcInv, ChangeEnds
  <2> QED BY ZenonT(60), <2>2, <2>3, <2>4, ControlStep
<1> QED BY ZenonT(60), <1>2, <1>3

\* PHP's collection and the application's writes touch the tables only.
LEMMA TableOK ==
  ASSUME GcInv, NEW c \in Collectors, PhpCollects(c) \/ \E r \in GcRows : Touch(c, r)
  PROVE  GcInv' /\ MayDelete /\ MayRelease
<1>1. UNCHANGED <<gc, lane, config>>
  BY ZenonT(60) DEF PhpCollects, Touch
<1>2. MayRelease
  BY ZenonT(60), <1>1 DEF MayRelease
<1>3. CASE PhpCollects(c)
  <2>1. age' \in [Collectors -> [GcRows -> Ages]]
    BY ZenonT(60), <1>3 DEF GcInv, PhpCollects, Ages
  <2>2. MayDelete
    BY ZenonT(60), <1>3 DEF GcInv, PhpCollects, MayDelete
  <2> QED BY ZenonT(60), <1>1, <1>2, <2>1, <2>2 DEF GcInv
<1>4. ASSUME NEW r \in GcRows, Touch(c, r)
      PROVE  GcInv' /\ MayDelete
  <2>1. age' \in [Collectors -> [GcRows -> Ages]]
    BY ZenonT(60), <1>4 DEF GcInv, Touch, Ages
  <2>2. MayDelete
    BY <1>4 DEF GcInv, Touch, MayDelete
  <2> QED BY ZenonT(60), <1>1, <2>1, <2>2 DEF GcInv
<1> QED BY ZenonT(60), <1>2, <1>3, <1>4

\* A claim computes its cutoff from the policy it copies.
LEMMA ClaimOK ==
  ASSUME GcInv, NEW l \in Lanes \cup Commands, NEW c \in Collectors, Claim(l, c)
  PROVE  GcInv' /\ MayDelete /\ MayRelease
<1>1. ControlOK(gc[c]) /\ LanesOK(Outdated(c))
  BY ZenonT(60), OutdatedOK DEF GcInv
<1>2. PICK row : row = [gc[c] EXCEPT !.holder = l, !.lease = LeaseTicks,
              !.cutoff = gc[c].policy, !.state = "running"]
  BY ZenonT(60)
<1>3. ControlOK(row) /\ row.holder # Free
  BY ZenonT(60), <1>1, <1>2, CleanupAssumption DEF ControlOK, GcFields, Claim
<1>4. gc' = [gc EXCEPT ![c] = row]
  BY ZenonT(60), <1>2 DEF Claim
<1>5. PICK k : k = [current |-> TRUE, cutoff |-> gc[c].policy, policy |-> gc[c].policy,
                    left |-> RunTicks, rows |-> 0, next |-> "batch"]
  BY ZenonT(60)
<1>6. LeaseOK(k)
  <2>1. gc[c].policy \in Retentions \ {Indefinite} /\ gc[c].policy \in Int
    BY ZenonT(60), <1>1, CleanupAssumption DEF ControlOK, Claim
  <2> QED BY <1>5, <2>1 DEF LeaseOK, LeaseFields
<1>7. LanesOK([Outdated(c) EXCEPT ![l][c] = k])
  BY ZenonT(60), <1>1, <1>6, LanePut
<1>8. LanesOK(lane')
  BY ZenonT(60), <1>1, <1>5, <1>7 DEF Claim
<1>9. config' = config /\ UNCHANGED age
  BY ZenonT(60) DEF Claim
<1> QED BY ZenonT(60), <1>3, <1>4, <1>8, <1>9, ControlStep DEF GcInv

\* The rows of a batch are past its cutoff, hence past the policy it checks.
LEMMA BatchOK ==
  ASSUME GcInv, NEW l \in Lanes \cup Commands, NEW c \in Collectors, Batch(l, c)
  PROVE  GcInv' /\ MayDelete /\ MayRelease
<1>1. PICK k : k = lane[l][c] /\ LeaseOK(k)
  BY ZenonT(60) DEF GcInv, LanesOK, Batch, LaneLease
<1>2. PICK del \in Victims(l, c) :
        /\ age' = [age EXCEPT ![c] = [r \in GcRows |-> IF r \in del THEN -1 ELSE @[r]]]
        /\ \/ \E n, m : lane' = [lane EXCEPT ![l][c] = [k EXCEPT !.rows = n, !.next = m]]
           \/ lane' = [lane EXCEPT ![l][c] = [k EXCEPT !.next = "failed"]]
  <2>1. PICK del \in Victims(l, c) :
        /\ age' = [age EXCEPT ![c] = [r \in GcRows |-> IF r \in del THEN -1 ELSE @[r]]]
        /\ \/ lane' = [lane EXCEPT ![l][c].rows = @ + Cardinality(del),
                        ![l][c].next = IF Cardinality(del) < Limit(l, c) THEN "exhausted" ELSE "batch"]
           \/ lane' = [lane EXCEPT ![l][c].next = "failed"]
    BY ZenonT(60) DEF Batch
  <2>2. PICK n, m : n = lane[l][c].rows + Cardinality(del)
                    /\ m = IF Cardinality(del) < Limit(l, c) THEN "exhausted" ELSE "batch"
    BY ZenonT(60)
  <2>3. CASE lane' = [lane EXCEPT ![l][c].rows = @ + Cardinality(del),
                        ![l][c].next = IF Cardinality(del) < Limit(l, c) THEN "exhausted" ELSE "batch"]
    <3>1. lane' = [lane EXCEPT ![l][c] = [lane[l][c] EXCEPT !.rows = n, !.next = m]]
      BY ZenonT(60), <2>2, <2>3 DEF GcInv, LanesOK
    <3> QED BY ZenonT(60), <1>1, <2>1, <3>1
  <2>4. CASE lane' = [lane EXCEPT ![l][c].next = "failed"]
    <3>1. lane' = [lane EXCEPT ![l][c] = [lane[l][c] EXCEPT !.next = "failed"]]
      BY ZenonT(60), <2>4
    <3> QED BY ZenonT(60), <1>1, <2>1, <3>1
  <2> QED BY ZenonT(60), <2>1, <2>3, <2>4
<1>3. LanesOK(lane')
  <2>1. \A n, m : LeaseOK([k EXCEPT !.rows = n, !.next = m]) /\ LeaseOK([k EXCEPT !.next = "failed"])
    BY ZenonT(60), <1>1 DEF LeaseOK, LeaseFields
  <2>2. \A x : LeaseOK(x) => LanesOK([lane EXCEPT ![l][c] = x])
    BY ZenonT(60), LanePut DEF GcInv
  <2> QED BY ZenonT(60), <1>2, <2>1, <2>2
<1>4. PICK row : row = [gc[c] EXCEPT !.lease = LeaseTicks, !.failures = 0]
  BY ZenonT(60)
<1>5. ControlOK(gc[c]) /\ ControlOK(row) /\ row.holder = gc[c].holder
  BY ZenonT(60), <1>4 DEF GcInv, ControlOK, GcFields
<1>6. gc' = [gc EXCEPT ![c] = row]
  BY ZenonT(60), <1>4 DEF Batch, GcInv
<1>7. /\ DOMAIN gc' = Collectors /\ \A d \in Collectors : ControlOK(gc'[d])
      /\ gc'[c] = row /\ \A d \in Collectors \ {c} : gc'[d] = gc[d]
  BY ZenonT(60), <1>5, <1>6, ControlPut
<1>8. age' \in [Collectors -> [GcRows -> Ages]]
  BY ZenonT(60), <1>2 DEF GcInv, Ages
<1>9. config' = config
  BY ZenonT(60) DEF Batch
<1>10. GcInv'
  BY ZenonT(60), <1>3, <1>7, <1>8, <1>9 DEF GcInv
<1>11. MayRelease
  BY ZenonT(60), <1>5, <1>7 DEF MayRelease
<1>12. ASSUME NEW r \in del
       PROVE  gc[c].owner = "gorge" /\ gc[c].intact /\ age[c][r] > gc[c].policy
  <2>1. gc[c].owner = "gorge" /\ gc[c].intact /\ gc[c].policy = k.policy
    BY ZenonT(60), <1>1 DEF Batch, checkLease, PolicyUnchanged, Decodes, LaneLease
  <2>2. r \in GcRows /\ age[c][r] > k.cutoff
    BY ZenonT(60), <1>1, <1>2 DEF Victims, LaneLease
  <2>3. age[c][r] \in Int /\ k.cutoff \in Int /\ k.policy \in Int /\ k.policy <= k.cutoff
    BY <1>1, <2>2, CleanupAssumption DEF GcInv, Ages, LeaseOK
  <2> QED BY <2>1, <2>2, <2>3
<1>13. MayDelete
  <2>1. \A d \in Collectors, r \in GcRows : age'[d][r] # age[d][r] => d = c /\ r \in del
    BY ZenonT(60), <1>2 DEF GcInv
  <2> QED BY ZenonT(60), <1>12, <2>1 DEF MayDelete
<1> QED BY ZenonT(60), <1>10, <1>11, <1>13

\* A lane that lets go, or notes a failure, writes nothing but its own lease,
\* unless it holds the control row and gives it back.
LEMMA LaneOK ==
  ASSUME GcInv, NEW l \in Lanes \cup Commands, NEW c \in Collectors,
         BatchConflict(l, c) \/ BatchFails(l, c) \/ Finish(l, c)
  PROVE  GcInv' /\ MayDelete /\ MayRelease
<1>1. PICK k : k = lane[l][c] /\ LeaseOK(k)
  BY ZenonT(60) DEF GcInv, LanesOK, BatchConflict, BatchFails, Finish, LaneLease
<1>2. LanesOK(lane')
  <2>1. \A x : x = NoLease \/ LeaseOK(x) => LanesOK([lane EXCEPT ![l][c] = x])
    BY ZenonT(60), LanePut DEF GcInv
  <2>2. LeaseOK([k EXCEPT !.next = "failed"])
    BY ZenonT(60), <1>1 DEF LeaseOK, LeaseFields
  <2>3. CASE BatchFails(l, c)
    <3>1. lane' = [lane EXCEPT ![l][c] = [k EXCEPT !.next = "failed"]]
      BY ZenonT(60), <1>1, <2>3 DEF BatchFails
    <3> QED BY ZenonT(60), <2>1, <2>2, <3>1
  <2>4. CASE LetGo(l, c)
    BY ZenonT(60), <2>1, <2>4 DEF LetGo
  <2> QED BY ZenonT(60), <2>3, <2>4 DEF BatchConflict, Finish
<1>3. config' = config /\ UNCHANGED age
  BY ZenonT(60) DEF BatchConflict, BatchFails, Finish
<1>4. CASE UNCHANGED gc
  BY ZenonT(60), <1>2, <1>3, <1>4 DEF GcInv, MayDelete, MayRelease
<1>5. CASE Finish(l, c) /\ checkLease(l, c) /\ gc' = [gc EXCEPT ![c] = Finished(gc[c], Outcome(l, c))]
  <2>1. PICK row : row = Finished(gc[c], Outcome(l, c))
    BY ZenonT(60)
  <2>2. ControlOK(row)
    BY ZenonT(60), <2>1 DEF GcInv, ControlOK, GcFields, Finished
  <2>3. /\ DOMAIN gc' = Collectors /\ \A d \in Collectors : ControlOK(gc'[d])
        /\ gc'[c] = row /\ \A d \in Collectors \ {c} : gc'[d] = gc[d]
    BY ZenonT(60), <1>5, <2>1, <2>2, ControlPut
  <2>4. gc[c].holder = l /\ LaneLease(l, c) # NoLease /\ lane'[l][c] = NoLease
    BY ZenonT(60), <1>5 DEF checkLease, Finish, LetGo, GcInv, LanesOK
  <2> QED BY ZenonT(60), <1>2, <1>3, <2>3, <2>4 DEF GcInv, MayDelete, MayRelease
<1> QED BY ZenonT(60), <1>4, <1>5 DEF BatchConflict, BatchFails, Finish

\* A crash leaves the control row to time out.
LEMMA LaneCrashOK ==
  ASSUME GcInv, NEW l \in Lanes \cup Commands, LaneCrash(l)
  PROVE  GcInv' /\ MayDelete /\ MayRelease
<1>1. LanesOK(lane')
  BY ZenonT(60) DEF GcInv, LaneCrash, LanesOK
<1> QED BY ZenonT(60), <1>1 DEF LaneCrash, GcInv, MayDelete, MayRelease

\* Every step keeps the invariant and the two properties.
LEMMA GcStepOK == GcInv /\ [GcNext]_gcVars => GcInv' /\ MayDelete /\ MayRelease
<1> SUFFICES ASSUME GcInv, [GcNext]_gcVars PROVE GcInv' /\ MayDelete /\ MayRelease
  BY ZenonT(60)
<1>1. CASE UNCHANGED gcVars
  BY ZenonT(60), <1>1 DEF gcVars, GcInv, MayDelete, MayRelease
<1>2. CASE GcNext
  <2>1. DOMAIN lane = Lanes \cup Commands
    BY ZenonT(60) DEF GcInv, LanesOK
  <2> QED BY ZenonT(60), <1>2, <2>1, GcTickOK, ImportOK, TransferOK, ChangeOK, TableOK, ClaimOK, BatchOK,
             LaneOK, LaneCrashOK DEF GcNext
<1> QED BY ZenonT(60), <1>1, <1>2

\* It holds at first.
LEMMA GcInitOK == GcInit => GcInv
<1> SUFFICES ASSUME GcInit PROVE GcInv
  BY ZenonT(60)
<1>1. /\ DOMAIN gc = Collectors /\ \A c \in Collectors : ControlOK(gc[c])
  BY ZenonT(60) DEF GcInit, ControlOK, GcFields
<1>2. age \in [Collectors -> [GcRows -> Ages]] /\ config \in [Collectors -> Retentions]
  BY ZenonT(60) DEF GcInit, Ages
<1>3. LanesOK(lane)
  BY ZenonT(60) DEF GcInit, LanesOK
<1> QED BY ZenonT(60), <1>1, <1>2, <1>3 DEF GcInv

\* gorge-maintenance (Claim, Batch, Finish): whatever lanes, commands, policy changes,
\* transfers and crashes interleave, a row goes only under the policy in force for
\* the owner of its collector, and only the holder of a lease gives it up.
THEOREM CollectsUnderLeaseAlways == GcSpec => CollectsUnderLease
<1>1. GcInv /\ [GcNext]_gcVars => [MayDelete]_gcVars /\ [MayRelease]_gcVars
  BY ZenonT(60), GcStepOK
<1> QED BY <1>1, GcInitOK, GcStepOK, PTL
        DEF GcSpec, CollectsUnderLease, DeletedUnderPolicy, LeaseKept, MayDelete, MayRelease

-----------------------------------------------------------------------------
(***************************************************************************)
(* The storage router's write: the engines that may take the file are      *)
(* tried in order, over a reader that records what it reads as long as the *)
(* budget lasts.  The recording is given up only by a body longer than     *)
(* every size limit, and no engine with a limit is a candidate for such a  *)
(* body: that is why falling through always finds the reader rewindable.   *)
(***************************************************************************)
\* While the recording lives, it is the prefix read from the source, and the
\* engine has received the part of it that was replayed; once the recording
\* is given up, the engine has received everything that was read.
Recorded ==
  /\ buf = SubSeq(body, 1, position) /\ off \in 0..position
  /\ received = SubSeq(body, 1, off) /\ position <= rewindBudget
Streamed ==
  /\ buf = <<>> /\ off = 0 /\ received = SubSeq(body, 1, position)
  /\ rewindBudget < Len(body)

WriteInv ==
  /\ body \in Seq(Nat) /\ position \in 0..Len(body)
  /\ ~spent => Recorded
  /\ spent => Streamed
  /\ candidates \subseteq WriteTo(Len(body))
  /\ answer # "ErrNoEngine" => candidates # {}
  /\ answer = "failed" => candidates = {Engine} \/ spent
  /\ WrittenWhole

\* A set of numbers has a least element.
LEMMA Smallest ==
  ASSUME NEW S \in SUBSET Nat, S # {}
  PROVE  \E m \in S : \A k \in S : m <= k
<1>1. PICK m \in S : ~ \E y \in S : <<y, m>> \in OpToRel(<, Nat)
  BY ZenonT(60), WFMin, NatLessThanWellFounded
<1> QED BY <1>1 DEF OpToRel

\* The engine tried next is one of the candidates that are left.
LEMMA EngineIsCandidate ==
  ASSUME candidates \subseteq WriteTo(Len(body)), candidates # {}
  PROVE  Engine \in candidates
<1>1. candidates \in SUBSET Nat
  BY EnginesAssumption DEF WriteTo
<1> QED BY ZenonT(60), <1>1, Smallest DEF Engine

\* A bounded set of numbers has a greatest element.
LEMMA Largest ==
  ASSUME NEW n \in Nat, NEW S \in SUBSET (0..n), S # {}
  PROVE  \E m \in S : \A k \in S : k <= m
<1>1. PICK gaps : gaps = {g \in 0..n : n - g \in S}
  BY ZenonT(60)
<1>2. PICK s \in S : TRUE
  BY ZenonT(60)
<1>3. n - s \in gaps
  BY <1>1, <1>2
<1>4. gaps \in SUBSET Nat /\ gaps # {}
  BY <1>1, <1>3
<1>5. PICK g \in gaps : \A k \in gaps : g <= k
  BY ZenonT(60), <1>4, Smallest
<1>6. \A k \in S : n - k \in gaps
  BY <1>1
<1>7. n - g \in S /\ \A k \in S : k <= n - g
  BY <1>1, <1>5, <1>6
<1> QED BY ZenonT(60), <1>7

\* The limits of the configured engines are numbers up to NoLimit.
LEMMA LimitType ==
  NoLimit \in Nat /\ \A e \in 1..Len(Engines) : Engines[e].limit \in 0..NoLimit
<1>1. NoLimit \in Nat
  BY EnginesAssumption DEF NoLimit
<1>2. PICK R : R = [kind: {"disk", "blob", "s3"}, writable: BOOLEAN, limit: 0..NoLimit]
  BY ZenonT(60)
<1>3. Engines \in Seq(R)
  BY ZenonT(60), <1>2, EnginesAssumption
<1>4. \A e \in 1..Len(Engines) : Engines[e] \in R
  BY <1>3
<1> QED BY ZenonT(60), <1>1, <1>2, <1>4

\* The rewind budget is as large as the limit of every engine that has one.
LEMMA BudgetCovers ==
  /\ rewindBudget \in Nat
  /\ \A e \in 1..Len(Engines) : HasSizeLimit(e) => Engines[e].limit <= rewindBudget
<1> DEFINE limits == {Engines[e].limit : e \in {e \in 1..Len(Engines) : HasSizeLimit(e)}}
<1>1. NoLimit \in Nat /\ \A e \in 1..Len(Engines) : Engines[e].limit \in 0..NoLimit
  BY ZenonT(60), LimitType
<1>2. limits \in SUBSET (0..NoLimit)
  BY ZenonT(60), <1>1
<1>3. rewindBudget = IF limits = {} THEN 0 ELSE CHOOSE l \in limits : \A k \in limits : k <= l
  BY ZenonT(60) DEF rewindBudget
<1>4. \A e \in 1..Len(Engines) : HasSizeLimit(e) => Engines[e].limit \in limits
  BY ZenonT(60)
<1> HIDE DEF limits
<1>5. CASE limits = {}
  BY ZenonT(60), <1>3, <1>4, <1>5
<1>6. CASE limits # {}
  <2>1. \E l \in limits : \A k \in limits : k <= l
    BY ZenonT(60), <1>1, <1>2, <1>6, Largest
  <2>2. rewindBudget \in limits /\ \A k \in limits : k <= rewindBudget
    BY ZenonT(60), <1>3, <1>6, <2>1
  <2> QED BY <1>1, <1>2, <1>4, <2>2
<1> QED BY ZenonT(60), <1>5, <1>6

\* A prefix of the body and the bytes that follow it are a longer prefix.
LEMMA PrefixGrows ==
  ASSUME NEW b \in Seq(Nat), NEW i \in 0..Len(b), NEW j \in i..Len(b)
  PROVE  SubSeq(b, 1, i) \o SubSeq(b, i + 1, j) = SubSeq(b, 1, j)
BY SMTT(30)

\* The prefix of the body up to a position has that length.
LEMMA PrefixLen ==
  ASSUME NEW b \in Seq(Nat), NEW i \in 0..Len(b)
  PROVE  SubSeq(b, 1, i) \in Seq(Nat) /\ Len(SubSeq(b, 1, i)) = i
OBVIOUS

\* What is read out of a recorded prefix are bytes of the body.
LEMMA PrefixOfPrefix ==
  ASSUME NEW b \in Seq(Nat), NEW p \in 0..Len(b), NEW i \in 0..p, NEW j \in i..p
  PROVE  SubSeq(SubSeq(b, 1, p), i + 1, j) = SubSeq(b, i + 1, j)
OBVIOUS

\* The empty prefix, and the whole body.
LEMMA PrefixEnds ==
  ASSUME NEW b \in Seq(Nat)
  PROVE  SubSeq(b, 1, 0) = <<>> /\ SubSeq(b, 1, Len(b)) = b
OBVIOUS

\* A step that only moves the reader keeps what is known of the engines.
LEMMA ReaderMoves ==
  ASSUME WriteInv, UNCHANGED <<body, candidates, kept, answer>>, answer = "running",
         position' \in 0..Len(body), ~spent' => Recorded', spent' => Streamed'
  PROVE  WriteInv'
BY ZenonT(60) DEF WriteInv, WrittenWhole, Engine

\* rewindReader.Read keeps the recording and what the engine received in
\* step, whether it replays the recording, reads the source and records, or
\* gives the recording up because the budget is spent.
LEMMA ReadsOK ==
  ASSUME WriteInv, NEW n \in 1..MaxBody, EngineReads(n)
  PROVE  WriteInv'
<1>1. /\ body \in Seq(Nat) /\ Len(body) \in Nat /\ position \in 0..Len(body) /\ rewindBudget \in Nat
      /\ n \in Nat
  BY BudgetCovers, EnginesAssumption DEF WriteInv
<1>2. UNCHANGED <<body, candidates, kept, answer>> /\ answer = "running"
  BY ZenonT(60) DEF EngineReads, Running
<1>3. CASE Replay(n)
  <2>1. off < Len(buf) /\ UNCHANGED <<position, buf, spent>>
    BY ZenonT(60), <1>3 DEF Replay
  <2>2. ~spent /\ Recorded
    BY <2>1 DEF WriteInv, Streamed
  <2>3. Len(buf) = position /\ off \in 0..position
    BY ZenonT(60), <1>1, <2>2, PrefixLen DEF Recorded
  <2>4. PICK m \in off..position : received' = received \o SubSeq(buf, off + 1, m) /\ off' = m
    <3>1. PICK m : m = IF off + n > Len(buf) THEN Len(buf) ELSE off + n
      BY ZenonT(60)
    <3>2. m \in off..position
      BY <1>1, <2>1, <2>3, <3>1
    <3>3. received' = received \o SubSeq(buf, off + 1, m) /\ off' = m
      BY ZenonT(60), <1>3, <3>1 DEF Replay
    <3> QED BY ZenonT(60), <3>2, <3>3
  <2>5. SubSeq(buf, off + 1, m) = SubSeq(body, off + 1, m)
    BY ZenonT(60), <1>1, <2>2, <2>3, PrefixOfPrefix DEF Recorded
  <2>6. received' = SubSeq(body, 1, m) /\ m \in 0..position
    <3>1. off \in 0..Len(body) /\ m \in off..Len(body) /\ m \in 0..position
      BY <1>1, <2>3, <2>4
    <3>2. received' = SubSeq(body, 1, off) \o SubSeq(body, off + 1, m)
      BY ZenonT(60), <2>2, <2>4, <2>5 DEF Recorded
    <3> QED BY ZenonT(60), <1>1, <3>1, <3>2, PrefixGrows
  <2>7. Recorded'
    BY ZenonT(60), <1>2, <2>1, <2>2, <2>4, <2>6 DEF Recorded
  <2> QED BY ZenonT(60), <1>1, <1>2, <2>1, <2>2, <2>7, ReaderMoves
<1>4. CASE FromSource(n)
  <2>1. /\ off = Len(buf) /\ position + n \in position..Len(body) /\ position' = position + n
        /\ received' = received \o SubSeq(body, position + 1, position + n)
    BY <1>1, <1>4 DEF FromSource
  <2>2. received = SubSeq(body, 1, position)
    <3>1. CASE spent
      BY ZenonT(60), <3>1 DEF WriteInv, Streamed
    <3>2. CASE ~spent
      <4>1. Recorded
        BY ZenonT(60), <3>2 DEF WriteInv
      <4> QED BY ZenonT(60), <1>1, <2>1, <4>1, PrefixLen DEF Recorded
    <3> QED BY ZenonT(60), <3>1, <3>2
  <2>3. received' = SubSeq(body, 1, position + n)
    BY ZenonT(60), <1>1, <2>1, <2>2, PrefixGrows
  <2>4. CASE OverBudget(n)
    <3>1. spent' /\ buf' = <<>> /\ off' = 0
      BY ZenonT(60), <1>4, <2>4 DEF FromSource
    <3>2. rewindBudget < Len(body)
      <4>1. CASE spent
        BY ZenonT(60), <4>1 DEF WriteInv, Streamed
      <4>2. CASE ~spent
        <5>1. Recorded /\ Len(buf) + n > rewindBudget
          BY ZenonT(60), <2>4, <4>2 DEF WriteInv, OverBudget
        <5>2. Len(buf) = position
          BY ZenonT(60), <1>1, <5>1, PrefixLen DEF Recorded
        <5> QED BY <1>1, <2>1, <5>1, <5>2
      <4> QED BY ZenonT(60), <4>1, <4>2
    <3>3. Streamed'
      BY ZenonT(60), <1>2, <2>1, <2>3, <3>1, <3>2 DEF Streamed
    <3> QED BY <1>1, <1>2, <2>1, <3>1, <3>3, ReaderMoves
  <2>5. CASE ~OverBudget(n)
    <3>1. ~spent /\ Recorded
      BY ZenonT(60), <2>5 DEF OverBudget, WriteInv
    <3>2. Len(buf) = position /\ Len(buf) + n <= rewindBudget
      BY <1>1, <2>5, <3>1, PrefixLen DEF OverBudget, Recorded
    <3>3. buf' = SubSeq(body, 1, position + n) /\ spent' = spent /\ off' = Len(buf')
      BY ZenonT(60), <1>1, <1>4, <2>1, <2>5, <3>1, PrefixGrows DEF FromSource, Recorded
    <3>4. Len(buf') = position + n
      BY <1>1, <2>1, <3>3, PrefixLen
    <3>5. Recorded'
      <4>1. position' = position + n /\ off' = position + n /\ position + n \in Nat
            /\ position + n <= rewindBudget
        BY <1>1, <2>1, <3>2, <3>3, <3>4
      <4>2. position + n \in 0..(position + n)
        BY <4>1
      <4>3. UNCHANGED rewindBudget
        BY ZenonT(60) DEF rewindBudget, HasSizeLimit
      <4> QED BY ZenonT(60), <1>2, <2>3, <3>3, <4>1, <4>2, <4>3 DEF Recorded
    <3> QED BY <1>1, <1>2, <2>1, <3>1, <3>3, <3>5, ReaderMoves
  <2> QED BY ZenonT(60), <2>4, <2>5
<1> QED BY ZenonT(60), <1>3, <1>4 DEF EngineReads

\* An engine whose reader is at its end has received the whole body.
LEMMA WholeAtEOF ==
  ASSUME WriteInv, AtEOF
  PROVE  received = body
<1>1. body \in Seq(Nat) /\ position = Len(body) /\ off = Len(buf) /\ position \in 0..Len(body)
  BY ZenonT(60) DEF WriteInv, AtEOF
<1>2. CASE spent
  BY ZenonT(60), <1>1, <1>2, PrefixEnds DEF WriteInv, Streamed
<1>3. CASE ~spent
  BY ZenonT(60), <1>1, <1>3, PrefixLen, PrefixEnds DEF WriteInv, Recorded
<1> QED BY ZenonT(60), <1>2, <1>3

\* An engine that reports success was handed the whole body.
LEMMA StoresOK ==
  ASSUME WriteInv, EngineStores
  PROVE  WriteInv'
<1>1. received = body
  BY ZenonT(60), WholeAtEOF DEF EngineStores
<1>2. WrittenWhole'
  BY <1>1 DEF EngineStores, Stores, WriteInv, WrittenWhole, Engine
<1> QED BY ZenonT(60), <1>2 DEF WriteInv, Recorded, Streamed, EngineStores, Running, Engine

\* A failed engine is passed over only if the reader can be rewound.
LEMMA FailsOK ==
  ASSUME WriteInv, EngineFails
  PROVE  WriteInv'
<1>1. \A k \in kept' : k[2] = body
  BY WholeAtEOF DEF EngineFails, Stores, WriteInv, WrittenWhole
<1>2. UNCHANGED <<body, position, buf, spent>> /\ answer = "running"
  BY ZenonT(60) DEF EngineFails, Running
<1>3. CASE candidates = {Engine} \/ spent
  BY <1>1, <1>2, <1>3 DEF EngineFails, WriteInv, Recorded, Streamed, WrittenWhole, Engine
<1>4. CASE ~(candidates = {Engine} \/ spent)
  <2>1. candidates' = candidates \ {Engine} /\ off' = 0 /\ received' = <<>> /\ UNCHANGED answer
    BY ZenonT(60), <1>4 DEF EngineFails, RewindTo
  <2>2. candidates' # {}
    BY ZenonT(60), <1>2, <1>4, <2>1, EngineIsCandidate DEF WriteInv
  <2>3. received' = SubSeq(body, 1, 0)
    BY ZenonT(60), <2>1, PrefixEnds DEF WriteInv
  <2>4. Recorded'
    BY <1>2, <1>4, <2>1, <2>3 DEF WriteInv, Recorded
  <2> QED BY ZenonT(60), <1>1, <1>2, <1>4, <2>1, <2>2, <2>4 DEF WriteInv, WrittenWhole
<1> QED BY ZenonT(60), <1>3, <1>4

\* Every write of the router ends with the whole body in the engine that is
\* reported, falls through every engine with a size limit, and records no more
\* than the budget, for any list of engines, limits and body.
THEOREM WritesFallThrough == WriteSpec => []WriteFallsThrough
<1>1. WriteInit => WriteInv
  <2> SUFFICES ASSUME WriteInit PROVE WriteInv
    BY ZenonT(60)
  <2>1. PICK n \in 0..MaxBody : body = [i \in 1..n |-> i]
    BY ZenonT(60) DEF WriteInit
  <2>2. body \in Seq(Nat) /\ Len(body) \in Nat
    BY <2>1, EnginesAssumption
  <2>3. candidates \subseteq WriteTo(Len(body))
    BY ZenonT(60) DEF WriteInit, Candidates
  <2>4. Recorded
    BY <2>2, PrefixEnds, BudgetCovers DEF WriteInit, Recorded
  <2> QED BY <2>2, <2>3, <2>4 DEF WriteInit, WriteInv, WrittenWhole
<1>2. WriteInv /\ [WriteNext]_writeVars => WriteInv'
  <2>1. WriteInv /\ UNCHANGED writeVars => WriteInv'
    BY DEF WriteInv, Recorded, Streamed, WrittenWhole, Engine, writeVars
  <2> QED BY ZenonT(60), <2>1, ReadsOK, StoresOK, FailsOK DEF WriteNext
<1>3. WriteInv => WriteFallsThrough
  <2> SUFFICES ASSUME WriteInv PROVE WriteFallsThrough
    BY ZenonT(60)
  <2>1. RecordingBounded
    <3>1. CASE spent
      BY <3>1, BudgetCovers DEF WriteInv, Streamed, RecordingBounded
    <3>2. CASE ~spent
      BY ZenonT(60), <3>2, PrefixLen DEF WriteInv, Recorded, RecordingBounded
    <3> QED BY ZenonT(60), <3>1, <3>2
  <2>2. BlobFallsThrough
    <3> SUFFICES ASSUME answer = "failed", candidates # {Engine} PROVE ~HasSizeLimit(Engine)
      BY ZenonT(60) DEF BlobFallsThrough
    <3>1. rewindBudget < Len(body) /\ Engine \in WriteTo(Len(body))
      BY ZenonT(60), EngineIsCandidate DEF WriteInv, Streamed
    <3>2. Engine \in 1..Len(Engines) /\ ~(HasSizeLimit(Engine) /\ Len(body) > Engines[Engine].limit)
      BY ZenonT(60), <3>1 DEF WriteTo
    <3>3. HasSizeLimit(Engine) => Engines[Engine].limit <= rewindBudget
      BY ZenonT(60), <3>2, BudgetCovers
    <3>4. Engines[Engine].limit \in Nat /\ rewindBudget \in Nat /\ Len(body) \in Nat
      BY <3>2, BudgetCovers, LimitType DEF WriteInv
    <3> QED BY <3>1, <3>2, <3>3, <3>4
  <2> QED BY ZenonT(60), <2>1, <2>2 DEF WriteInv, WriteFallsThrough
<1> QED BY <1>1, <1>2, <1>3, PTL DEF WriteSpec
=============================================================================
