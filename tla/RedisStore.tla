----------------------------- MODULE RedisStore -----------------------------
(***************************************************************************)
(* The Redis store.  Every operation is one Lua script or one MULTI block, *)
(* so it is one step here; what can go wrong is the bookkeeping: the task  *)
(* hashes are indexed by three sorted sets and counted by two counters,    *)
(* and every script has to keep all of them in line.  A lease call never   *)
(* looks for tasks in the hashes: it trusts the sets.                      *)
(*                                                                         *)
(* active and archive stand for the task:<id> and archived:<id> hashes, an *)
(* empty field being NULL.  counter is next_task_id.  Enqueue takes its id *)
(* in a command of its own; nobody sees that id before the task is there,  *)
(* so the two are one step.                                                *)
(***************************************************************************)
EXTENDS TaskQueue

CONSTANTS
  Priority,      \* [Classes -> Nat]: here a task's priority is its class's
  ScoreScale,    \* the weight of a priority in a score (1e12)
  Limits,        \* batch sizes a lease call asks for
  ClassFilters,  \* class filters of lease calls; {} asks for any class
  LateYields     \* whether a yield may name a task that has left the queue

ASSUME RedisAssumption ==
  /\ Priority \in [Classes -> Nat] /\ NULL \notin Classes
  /\ ScoreScale \in Nat /\ ScoreScale > MaxTasks
  /\ MaxLag <= AwakenWindow
  /\ Limits \subseteq 1..BatchLimit /\ ClassFilters \subseteq SUBSET Classes
  /\ LateYields \in BOOLEAN

VARIABLES
  idxActive,       \* idx:active, the ids
  idxUnleased,     \* idx:unleased, the ids, in the order of their scores
  idxLeased,       \* idx:leased: id -> its score, an expiry
  counterArchived, \* counter:archived
  counterFailed    \* counter:failed

index == <<idxActive, idxUnleased, idxLeased>>
counts == <<counterArchived, counterFailed>>
redisVars == <<vars, index, counts>>

\* The hash that a yield of a missing task creates has neither a class nor an
\* id: no script takes it for a task of a class, and no lease can name it.
Named == {i \in DOMAIN active : active[i].class # NULL}
Score(i) == (IF i \in Named THEN Priority[active[i].class] ELSE 0) * ScoreScale + i

\* The n ids of S with the lowest scores.
Lowest(S, n) == {i \in S : Cardinality({j \in S : Score(j) < Score(i)}) < n}

ClassMatches(i, cs) == cs = {} \/ active[i].class \in cs

-----------------------------------------------------------------------------
(***************************************************************************)
(* Index updates shared by the scripts.                                    *)
(***************************************************************************)
\* ZADD of a new task: without a delay it is unleased, with one it waits in
\* the leased set.
IndexNew(S, e) ==
  /\ idxActive' = idxActive \cup S
  /\ IF e = NULL THEN /\ idxUnleased' = idxUnleased \cup S /\ UNCHANGED idxLeased
                 ELSE /\ idxLeased' = [x \in DOMAIN idxLeased \cup S |->
                                         IF x \in S THEN e ELSE idxLeased[x]]
                      /\ UNCHANGED idxUnleased

\* ZREM unleased, ZADD leased
IndexWaiting(i, e) ==
  /\ idxUnleased' = idxUnleased \ {i}
  /\ idxLeased' = Put(idxLeased, i, e)
  /\ UNCHANGED idxActive

\* Mutant: the unleased set keeps the task.
IndexDroppedLeasedOnly(i) ==
  /\ idxActive' = idxActive \ {i}
  /\ idxLeased' = Drop(idxLeased, i)
  /\ UNCHANGED idxUnleased

IndexDropped(i) ==
  /\ idxActive' = idxActive \ {i}
  /\ idxUnleased' = idxUnleased \ {i}
  /\ idxLeased' = Drop(idxLeased, i)

HasFailed(i) == i \in Named /\ active[i].failures > 0

CountArchived(i) ==
  /\ counterArchived' = counterArchived + 1
  /\ counterFailed' = counterFailed - (IF HasFailed(i) THEN 1 ELSE 0)

CountFailed(i) ==
  /\ counterFailed' = counterFailed + (IF HasFailed(i) THEN 0 ELSE 1)
  /\ UNCHANGED counterArchived

-----------------------------------------------------------------------------
(***************************************************************************)
(* The scripts.                                                            *)
(***************************************************************************)
RedisEnqueue(c, e) == Enqueue(c, e) /\ IndexNew({counter + 1}, e) /\ UNCHANGED counts

RedisEnqueueEvent(ev, p, c) ==
  EnqueueEvent(ev, p, c) /\ IndexNew({counter + 1}, NULL) /\ UNCHANGED counts

\* ZRANGEBYSCORE leased -inf now: the second of the expiry is included.
Overdue(t) == {i \in DOMAIN idxLeased : idxLeased[i] <= t}

\* leaseScript: the unleased tasks first, then those whose expiry has passed.
RedisLease(o, t, n, cs) ==
  LET unleased == Lowest({i \in idxUnleased : ClassMatches(i, cs)}, n)
      overdue == Lowest({i \in Overdue(t) \ unleased : ClassMatches(i, cs)},
                        n - Cardinality(unleased))
      got == unleased \cup overdue
  IN  /\ got # {}
      /\ active' = [i \in DOMAIN active |->
                      IF i \in got
                      THEN [active[i] EXCEPT !.owner = o, !.expires = t + LeaseDuration]
                      ELSE active[i]]
      /\ idxUnleased' = idxUnleased \ unleased
      /\ idxLeased' = [i \in DOMAIN idxLeased \cup got |->
                         IF i \in got THEN t + LeaseDuration ELSE idxLeased[i]]
      /\ UNCHANGED <<now, counter, archive, inbox, origin, acked, idxActive, counts>>

\* archiveScript: the task is moved, removed from the sets and counted.
RedisArchive(i, result) == Archive(i, result) /\ IndexDropped(i) /\ CountArchived(i)

\* failScript, and the retry of resolveExecutionScript
RedisRetry(i, w) == Retry(i, w) /\ IndexWaiting(i, now + w) /\ CountFailed(i)

RedisComplete(i) == "complete" \in LegacyRoutes /\ RedisArchive(i, "completed")
RedisFail(i, permanent, w) ==
  /\ "fail" \in LegacyRoutes
  /\ IF permanent THEN RedisArchive(i, "failure") ELSE RedisRetry(i, w)

\* HSET creates the hash when there is none: only a task's lease fields then.
Ghost(e) == [class |-> NULL, owner |-> YieldOwner, expires |-> e, failures |-> NULL]

\* Yield is a MULTI block of plain writes that asks nothing first.
RedisYield(i, d) ==
  LET e == now + MaxOf(d, YieldMin) IN
  /\ "yield" \in LegacyRoutes
  /\ active' = Put(active, i, IF i \in DOMAIN active
                              THEN [active[i] EXCEPT !.owner = YieldOwner, !.expires = e]
                              ELSE Ghost(e))
  /\ IndexWaiting(i, e)
  /\ UNCHANGED <<now, counter, archive, inbox, origin, acked, counts>>

\* awakenScript: an awoken task joins the unleased set and keeps its sentinel.
RedisAwaken(S) ==
  LET woken == {i \in S \cap Named :
                  /\ active[i].owner = YieldOwner
                  /\ active[i].expires > now - AwakenWindow
                  /\ active[i].failures = 0}
  IN  /\ active' = [i \in DOMAIN active |->
                      IF i \in woken
                      THEN [active[i] EXCEPT !.expires = now - AwakenWindow]
                      ELSE active[i]]
      /\ idxLeased' = [i \in DOMAIN idxLeased \ woken |-> idxLeased[i]]
      /\ idxUnleased' = idxUnleased \cup woken
      /\ UNCHANGED <<now, counter, archive, inbox, origin, acked, idxActive, counts>>

\* finalizeExecutionScript: the children are added, the parent is archived.
RedisFinalize(l) ==
  \/ /\ FinalizeFirst(l)
     /\ LET new == (counter + 1)..(counter + Children(l.id)) IN
        /\ idxActive' = (idxActive \cup new) \ {l.id}
        /\ idxUnleased' = (idxUnleased \cup new) \ {l.id}
        /\ idxLeased' = Drop(idxLeased, l.id)
     /\ CountArchived(l.id)
  \/ FinalizeReplay(l) /\ UNCHANGED <<index, counts>>

\* renewExecutionScript
RedisRenew(l, d) ==
  /\ Renew(l, d)
  /\ idxLeased' = Put(idxLeased, l.id, MaxOf(now + d, l.expires))
  /\ UNCHANGED <<idxActive, idxUnleased, counts>>

\* resolveExecutionScript
RedisResolve(l, outcome, w) ==
  /\ Holds(l)
  /\ \/ outcome = "failure" /\ RedisArchive(l.id, "failure")
     \/ outcome = "retry" /\ RedisRetry(l.id, w)
     \/ /\ outcome = "yield" /\ Park(l.id, w)
        /\ IndexWaiting(l.id, now + MaxOf(w, YieldMin))
        /\ UNCHANGED counts

-----------------------------------------------------------------------------
RedisInit ==
  /\ Init
  /\ idxActive = {} /\ idxUnleased = {} /\ idxLeased = Empty
  /\ counterArchived = 0 /\ counterFailed = 0

RedisNext ==
  \/ Tick /\ UNCHANGED <<index, counts>>
  \/ \E c \in Classes, w \in Delays :
        RedisEnqueue(c, IF w = NULL THEN NULL ELSE now + w)
  \/ \E ev \in Events, p \in Payloads, c \in Classes : RedisEnqueueEvent(ev, p, c)
  \/ \E o \in Owners, lag \in 0..MaxLag, n \in Limits, cs \in ClassFilters :
        RedisLease(o, now - lag, n, cs)
  \/ \E S \in SUBSET DOMAIN active : RedisAwaken(S)
  \/ \E i \in IF LateYields THEN 1..counter ELSE DOMAIN active, d \in Waits :
        RedisYield(i, d)
  \/ \E i \in DOMAIN active :
        \/ RedisComplete(i)
        \/ RedisArchive(i, "cancelled")
        \/ \E permanent \in BOOLEAN, w \in Waits : RedisFail(i, permanent, w)
  \/ \E i \in Named :
        \/ \E d \in RenewDurations : RedisRenew(LeaseOf(active, i), d)
        \/ \E outcome \in {"failure", "retry", "yield"}, w \in Waits :
              RedisResolve(LeaseOf(active, i), outcome, w)
        \/ RedisFinalize(LeaseOf(active, i))
  \/ \E i \in DOMAIN archive : RedisFinalize(LeaseOf(archive, i))

RedisSpec == RedisInit /\ [][RedisNext]_redisVars

-----------------------------------------------------------------------------
\* Leases found through the indexes are the leases the contract allows, and
\* the scripts do to the hashes what the contract says: the store implements
\* TaskQueue, as long as no yield names a task that has left the queue.
RedisImplementsTaskQueue == Spec

\* The indexes agree with the hashes.  Every task is in idx:active and in
\* exactly one of the two lease sets, the leased set's score is its expiry, and
\* the unleased set holds the tasks that may be leased at once: the new ones
\* and the awoken ones.  A task missing from both sets would never run again,
\* a wrong score would hand it out early or late.
IndexesAgree ==
  /\ idxActive = DOMAIN active
  /\ idxUnleased \cap DOMAIN idxLeased = {}
  /\ idxUnleased \cup DOMAIN idxLeased = DOMAIN active
  /\ \A i \in DOMAIN idxLeased : idxLeased[i] = active[i].expires
  /\ \A i \in idxUnleased :
       \/ active[i].owner = NULL /\ active[i].expires = NULL
       \/ active[i].owner = YieldOwner /\ active[i].expires <= now - AwakenWindow

\* Stats reads counters that eight scripts keep by hand: failedCount is the
\* number of tasks in the queue that failed at least once, archivedCount the
\* number of archived tasks.
CountersExact ==
  /\ counterFailed = Cardinality({i \in DOMAIN active : HasFailed(i)})
  /\ counterArchived = Cardinality(DOMAIN archive)

\* The Redis store takes the queue's steps only, and what its scripts keep by
\* hand is exact: a task missing from the lease sets would never run again, a
\* wrong score would hand it out early or late, and Stats reads the counters.
RedisKeepsContract == [](IndexesAgree /\ CountersExact) /\ RedisImplementsTaskQueue

\* The archive move: a task is never both active and archived.
NeverInBoth == DOMAIN active \cap DOMAIN archive = {}
=============================================================================
