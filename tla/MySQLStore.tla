----------------------------- MODULE MySQLStore -----------------------------
(***************************************************************************)
(* The MySQL store at the granularity of its SQL statements, where that    *)
(* matters.  A lease call selects from its transaction's snapshot, updates *)
(* the rows it selected, and fetches; archiveTask reads a row and later    *)
(* inserts and deletes it.  Between two statements other transactions      *)
(* commit.  The remaining operations lock the one row they touch with      *)
(* their first statement, so they are the atomic actions of TaskQueue,     *)
(* waiting for the row's lock.  EnqueueEvent inserts like Enqueue, behind  *)
(* the unique key of its receipt, and is left to TaskQueue.                *)
(*                                                                         *)
(* The database is InnoDB at REPEATABLE READ: a plain SELECT sees the      *)
(* snapshot of the transaction's first read and the transaction's own      *)
(* writes, an UPDATE or DELETE waits for the row's lock and sees the       *)
(* latest commit, and a failed transaction leaves nothing behind.          *)
(***************************************************************************)
EXTENDS TaskQueue, TLC

CONSTANTS
  LeaseCalls,    \* lease transactions that can be open at the same time
  ArchiveCalls,  \* archiveTask transactions that can be open at the same time
  Priority,      \* [Classes -> Nat]: here a task's priority is its class's
  Limits,        \* batch sizes a lease call asks for
  MaxOpen,       \* bound: transactions open at the same time
  ClassFilters   \* class filters of lease calls, as sets of classes

ASSUME StoreAssumption ==
  /\ Priority \in [Classes -> Nat] /\ Limits \subseteq 1..BatchLimit /\ MaxOpen \in Nat
  /\ ClassFilters \subseteq SUBSET Classes /\ Waits # {}

VARIABLE call   \* the state of each transaction

storeVars == <<vars, call>>
Calls == LeaseCalls \cup ArchiveCalls

Idle == [pc |-> "idle", locks |-> {}]

\* A transaction of c can begin.
CanOpen(c) ==
  call[c].pc = "idle" /\ Cardinality({d \in Calls : call[d].pc # "idle"}) < MaxOpen

Locked(i) == \E c \in Calls : i \in call[c].locks
LockedByOther(c, S) == \E d \in Calls \ {c} : S \cap call[d].locks # {}

Fresh(r) == r.owner = NULL /\ r.expires = NULL
\* Phase 2 is strict: in the second of its expiry a task is nobody's.
Overdue(r, t) == r.expires # NULL /\ r.expires < t

\* ORDER BY priority, id LIMIT n
ClassOf(i) == IF i \in DOMAIN active THEN active[i].class ELSE archive[i].class
Before(i, j) ==
  LET p == Priority[ClassOf(i)]
      q == Priority[ClassOf(j)]
  IN  p < q \/ (p = q /\ i < j)
First(S, n) == {i \in S : Cardinality({j \in S : Before(j, i)}) < n}

-----------------------------------------------------------------------------
(***************************************************************************)
(* Lease.                                                                  *)
(***************************************************************************)
\* The clock is read, the transaction opened, and phase 1 selects.  The three
\* sets are what the later selects of this transaction need of its snapshot:
\* the fresh rows phase 1 returns, the overdue ones, and those that the owner
\* holds already.
LeaseSelect(c, o, n, cs) ==
  LET mine == {i \in DOMAIN active : active[i].class \in cs} IN
  /\ CanOpen(c)
  /\ call' = [call EXCEPT ![c] =
       [pc |-> "fresh", owner |-> o, limit |-> n, t |-> now,
        locks |-> {},
        fresh |-> First({i \in mine : Fresh(active[i])}, n),
        overdue |-> {i \in mine : Overdue(active[i], now)},
        held |-> {i \in DOMAIN active : active[i].owner = o /\ active[i].expires > now}]]
  /\ UNCHANGED vars

\* After phase 1: the rows updated and the ones phase 2 will try.
Refreshed(c, got, late) ==
  LET k == call[c] IN
  call' = [call EXCEPT ![c] =
    [pc |-> "overdue", owner |-> k.owner, limit |-> k.limit, t |-> k.t,
     locks |-> k.fresh \cap DOMAIN active, got |-> got, late |-> late,
     fresh |-> k.fresh, held |-> k.held]]

\* Mutant: the update trusts the ids it selected.
LeaseUpdateFreshUnchecked(c) ==
  /\ call[c].pc = "fresh" /\ ~LockedByOther(c, call[c].fresh)
  /\ Refreshed(c, call[c].fresh \cap DOMAIN active, {})
  /\ UNCHANGED vars

\* Phase 1 updates the rows that are still fresh.  If that is not enough,
\* phase 2 selects from the same snapshot.
LeaseUpdateFresh(c) ==
  LET k == call[c]
      got == {i \in k.fresh \cap DOMAIN active : Fresh(active[i])}
  IN  /\ k.pc = "fresh" /\ ~LockedByOther(c, k.fresh)
      /\ Refreshed(c, got, First(k.overdue, k.limit - Cardinality(got)))
      /\ UNCHANGED vars

\* What the fetch returns when the rows of got are the ones updated: of the ids
\* both phases selected, those the owner holds in the snapshot or by the
\* transaction's own writes.
Fetched(k, got) ==
  First({i \in k.fresh \cup k.late : i \in got \cup k.held}, k.limit)

\* Phase 2 updates the rows that are still overdue, and the call fetches.
LeaseUpdateOverdue(c) ==
  LET k == call[c]
      got == k.got \cup {i \in k.late \cap DOMAIN active : Overdue(active[i], k.t)}
  IN  /\ k.pc = "overdue" /\ ~LockedByOther(c, k.late)
      /\ call' = [call EXCEPT ![c] =
           [pc |-> "commit", owner |-> k.owner, limit |-> k.limit, t |-> k.t, got |-> got,
            fetched |-> Fetched(k, got), locks |-> k.locks \cup (k.late \cap DOMAIN active)]]
      /\ UNCHANGED vars

LeaseCommit(c) ==
  LET k == call[c] IN
  /\ k.pc = "commit" /\ now - k.t <= MaxLag
  /\ active' = [i \in DOMAIN active |->
                  IF i \in k.got
                  THEN [active[i] EXCEPT !.owner = k.owner, !.expires = k.t + LeaseDuration]
                  ELSE active[i]]
  /\ call' = [call EXCEPT ![c] = Idle]
  /\ UNCHANGED <<now, counter, archive, inbox, origin, acked>>

-----------------------------------------------------------------------------
(***************************************************************************)
(* archiveTask, behind Complete, Cancel and a permanent Fail.              *)
(***************************************************************************)
ArchiveSelect(c, i) ==
  /\ CanOpen(c) /\ i \in DOMAIN active
  /\ call' = [call EXCEPT ![c] = [pc |-> "archive", locks |-> {}, id |-> i, row |-> active[i]]]
  /\ UNCHANGED vars

\* The insert fails on a row that is already in the archive (Rollback).  The
\* caller's result is first used here, so it is chosen here.
ArchiveCommit(c, result) ==
  LET k == call[c] IN
  /\ k.pc = "archive" /\ ~Locked(k.id)
  /\ k.id \notin DOMAIN archive
  /\ archive' = Put(archive, k.id, Archived(k.row, result))
  /\ active' = Drop(active, k.id)
  /\ call' = [call EXCEPT ![c] = Idle]
  /\ UNCHANGED <<now, counter, inbox, origin, acked>>

\* An error, a cancelled context or a lost connection rolls back.
Rollback(c) ==
  /\ call[c].pc # "idle"
  /\ call' = [call EXCEPT ![c] = Idle]
  /\ UNCHANGED vars

-----------------------------------------------------------------------------
\* An operation of TaskQueue on task i, once the row's lock is free.
OnRow(i, A) == ~Locked(i) /\ A /\ UNCHANGED call

StoreInit == Init /\ call = [c \in Calls |-> Idle]

StoreNext ==
  \/ Tick /\ UNCHANGED call
  \/ \E c \in Classes, w \in Delays :
        /\ Enqueue(c, IF w = NULL THEN NULL ELSE now + w)
        /\ UNCHANGED call
  \/ \E c \in LeaseCalls :
        \/ \E o \in Owners, n \in Limits, cs \in ClassFilters : LeaseSelect(c, o, n, cs)
        \/ LeaseUpdateFresh(c)
        \/ LeaseUpdateOverdue(c)
        \/ LeaseCommit(c)
  \/ \E c \in ArchiveCalls :
        \/ \E i \in DOMAIN active : ArchiveSelect(c, i)
        \/ "complete" \in LegacyRoutes /\ ArchiveCommit(c, "completed")
        \/ "fail" \in LegacyRoutes /\ ArchiveCommit(c, "failure")
        \/ ArchiveCommit(c, "cancelled")
  \/ \E c \in Calls : Rollback(c)
  \/ \E S \in SUBSET DOMAIN active :
        (\A i \in S : ~Locked(i)) /\ Awaken(S) /\ UNCHANGED call
  \/ \E i \in DOMAIN active :
        \/ \E w \in Waits : OnRow(i, Fail(i, FALSE, w))
        \/ \E d \in Waits : OnRow(i, Yield(i, d))
        \/ \E d \in RenewDurations : OnRow(i, Renew(LeaseOf(active, i), d))
        \/ \E outcome \in {"failure", "retry", "yield"}, w \in Waits :
              OnRow(i, Resolve(LeaseOf(active, i), outcome, w))
        \/ OnRow(i, Finalize(LeaseOf(active, i)))
  \/ \E i \in DOMAIN archive :
        Finalize(LeaseOf(archive, i)) /\ UNCHANGED call

StoreSpec == StoreInit /\ [][StoreNext]_storeVars

-----------------------------------------------------------------------------
\* The statements interleave, and still every commit is an operation of the
\* queue's contract: the store implements TaskQueue.  (This is its Spec, over
\* the variables of the store.)
ImplementsTaskQueue == Init /\ [][UNCHANGED vars \/ Next]_storeVars

\* A lease call returns exactly the tasks it leased, and no more than it was
\* asked for: a task it took but did not return would wait for its lease to
\* expire, one it returned but did not take would run twice.  A worker process
\* has one owner name, so rows it leased before carry the same name.
ReturnsWhatItLeased ==
  \A c \in LeaseCalls : call[c].pc = "commit" =>
    /\ call[c].fetched = call[c].got
    /\ Cardinality(call[c].got) <= call[c].limit

\* However the statements of Lease and archiveTask interleave, the store takes
\* the queue's steps only, and a call returns exactly the rows it leased.
MySQLKeepsContract == []ReturnsWhatItLeased /\ ImplementsTaskQueue

-----------------------------------------------------------------------------
(* Open transactions over one or two tasks.                                *)
MCPriority == [c \in Classes |-> 1]
MCNoFollowups == [c \in Classes |-> 0]
MCOneFilter == {Classes}
Symmetry == Permutations(Owners) \cup Permutations(LeaseCalls) \cup Permutations(ArchiveCalls)
=============================================================================
