---------------------------- MODULE StoreProofs ----------------------------
(***************************************************************************)
(* The MySQL store implements the queue's contract, and a lease call       *)
(* returns exactly the rows it leased, for any number of transactions,     *)
(* tasks and owners and any batch size.  The inductive invariant says what *)
(* each open transaction still knows between two of its statements: the    *)
(* rows it updated are locked and as they were, however much of its        *)
(* snapshot has become stale.                                              *)
(***************************************************************************)
EXTENDS MySQLStore, TaskQueueProofs, FiniteSetTheorems

\* What transaction record k may rely on when the tasks are those of table, the
\* time is n and the last id top.
CallOK(k, table, n, top) ==
  /\ k.pc \in {"idle", "fresh", "overdue", "commit", "archive"}
  /\ k.pc \in {"idle", "fresh", "archive"} => k.locks = {}
  /\ k.pc \in {"overdue", "commit"} => k.locks \subseteq DOMAIN table
  /\ k.pc \in {"fresh", "overdue", "commit"} =>
       k.owner \in Owners /\ k.limit \in Limits /\ k.t \in Nat /\ k.t <= n
  /\ k.pc \in {"fresh", "overdue"} =>
       /\ k.fresh \subseteq 1..top /\ k.fresh \cap k.held = {}
       /\ Cardinality(k.fresh) <= k.limit
  /\ k.pc = "fresh" => k.overdue \subseteq 1..top /\ k.overdue \cap k.held = {}
  /\ k.pc \in {"overdue", "commit"} =>
       k.got \subseteq k.locks /\ \A i \in k.got : Available(table[i], k.t)
  /\ k.pc = "overdue" =>
       /\ k.got \subseteq k.fresh /\ k.late \subseteq 1..top /\ k.late \cap k.held = {}
       /\ Cardinality(k.late) <= k.limit - Cardinality(k.got)
  /\ k.pc = "commit" => Cardinality(k.got) <= k.limit /\ k.fetched = k.got
  /\ k.pc = "archive" =>
       k.id \in 1..top /\ (k.id \in DOMAIN table => table[k.id].class = k.row.class)

LocksDisjoint == \A c, d \in Calls : c # d => call[c].locks \cap call[d].locks = {}

StoreInv ==
  /\ IInv /\ LocksDisjoint /\ DOMAIN call = Calls
  /\ \A c \in Calls : CallOK(call[c], active, now, counter)

-----------------------------------------------------------------------------
(* ORDER BY priority, id LIMIT n.                                          *)

Ahead(S, i) == {j \in S : Before(j, i)}

\* There are finitely many tasks.
LEMMA IdsFinite == IInv => IsFiniteSet(1..counter)
<1>1. IInv => counter \in Int
  BY DEF IInv, TypeOK
<1> QED BY <1>1, FS_Interval

\* A batch size is a number.
LEMMA LimitType == BatchLimit \in Nat /\ \A n \in Limits : n \in Nat /\ n <= BatchLimit
BY StoreAssumption, DurationsAssumption

\* A task has a class and hence a priority, whichever table it is in.
LEMMA RankType ==
  ASSUME IInv, NEW i \in 1..counter
  PROVE  Priority[ClassOf(i)] \in Nat
<1>1. ClassOf(i) \in Classes
  BY ZenonT(60) DEF ClassOf, IInv, OneTable, TypeOK, ActiveRow, ArchiveRow
<1> QED BY ZenonT(60), <1>1, StoreAssumption

\* The order of the select is strict and total on the tasks.
LEMMA BeforeOrders ==
  ASSUME IInv, NEW i \in 1..counter, NEW j \in 1..counter
  PROVE  /\ ~Before(i, i)
         /\ i # j => Before(i, j) \/ Before(j, i)
         /\ \A k \in 1..counter : Before(i, j) /\ Before(k, i) => Before(k, j)
<1>1. \A k \in 1..counter : Priority[ClassOf(k)] \in Nat /\ k \in Int
  BY RankType DEF IInv, TypeOK
<1> QED BY <1>1 DEF Before

\* Tasks ahead of an earlier one are ahead of a later one, and fewer.
LEMMA AheadGrows ==
  ASSUME IInv, NEW S \in SUBSET (1..counter), NEW i \in S, NEW j \in S, Before(i, j)
  PROVE  Cardinality(Ahead(S, i)) < Cardinality(Ahead(S, j))
<1>1. IsFiniteSet(Ahead(S, j))
  <2>1. IsFiniteSet(1..counter)
    BY ZenonT(60), IdsFinite
  <2>2. Ahead(S, j) \in SUBSET (1..counter)
    BY ZenonT(60) DEF Ahead
  <2> QED BY ZenonT(60), <2>1, <2>2, FS_Subset
<1>2. Ahead(S, i) \in SUBSET Ahead(S, j)
  BY ZenonT(60), BeforeOrders DEF Ahead
<1>3. Ahead(S, i) # Ahead(S, j)
  <2>1. i \in Ahead(S, j)
    BY ZenonT(60) DEF Ahead
  <2>2. i \notin Ahead(S, i)
    BY ZenonT(60), BeforeOrders DEF Ahead
  <2> QED BY ZenonT(60), <2>1, <2>2
<1>4. Cardinality(Ahead(S, i)) \in Nat /\ Cardinality(Ahead(S, j)) \in Nat
  BY ZenonT(60), <1>1, <1>2, FS_Subset, FS_CardinalityType
<1>5. /\ Cardinality(Ahead(S, i)) <= Cardinality(Ahead(S, j))
      /\ Cardinality(Ahead(S, j)) = Cardinality(Ahead(S, i)) => Ahead(S, j) = Ahead(S, i)
  BY ZenonT(60), <1>1, <1>2, FS_Subset
<1> QED BY <1>3, <1>4, <1>5

\* LIMIT n: a select returns at most n of its rows, and all of them when there
\* are no more than n.
LEMMA FirstIsLimit ==
  ASSUME IInv, NEW S \in SUBSET (1..counter), NEW n \in Nat
  PROVE  /\ First(S, n) \subseteq S /\ IsFiniteSet(S) /\ Cardinality(S) \in Nat
         /\ Cardinality(First(S, n)) \in Nat /\ Cardinality(First(S, n)) <= n
         /\ Cardinality(S) <= n => First(S, n) = S
<1>1. First(S, n) = {i \in S : Cardinality(Ahead(S, i)) < n}
  BY ZenonT(60) DEF First, Ahead
<1>2. IsFiniteSet(S)
  <2>1. IsFiniteSet(1..counter)
    BY ZenonT(60), IdsFinite
  <2> QED BY ZenonT(60), <2>1, FS_Subset
<1>3. PICK F : F = First(S, n)
  BY ZenonT(60)
<1>4. F \in SUBSET S
  BY ZenonT(60), <1>1, <1>3
<1>5. IsFiniteSet(F) /\ Cardinality(F) \in Nat /\ Cardinality(S) \in Nat
  BY ZenonT(60), <1>2, <1>4, FS_Subset, FS_CardinalityType
<1>6. ASSUME NEW i \in S PROVE Cardinality(Ahead(S, i)) \in Nat /\ Cardinality(Ahead(S, i)) < Cardinality(S)
  <2>1. Ahead(S, i) \in SUBSET S /\ i \notin Ahead(S, i)
    BY ZenonT(60), BeforeOrders DEF Ahead
  <2>2. IsFiniteSet(Ahead(S, i)) /\ Cardinality(Ahead(S, i)) <= Cardinality(S)
        /\ (Cardinality(S) = Cardinality(Ahead(S, i)) => S = Ahead(S, i))
    BY ZenonT(60), <1>2, <2>1, FS_Subset
  <2>3. Cardinality(Ahead(S, i)) \in Nat
    BY ZenonT(60), <2>2, FS_CardinalityType
  <2> QED BY <1>5, <2>1, <2>2, <2>3
<1>7. Cardinality(F) <= n
  <2> SUFFICES ASSUME n < Cardinality(F) PROVE FALSE
    BY <1>5
  <2>1. PICK T : T = 0..(n - 1)
    BY ZenonT(60)
  <2>2. IsFiniteSet(T) /\ Cardinality(T) = n
    BY <2>1, FS_Interval
  <2>3. PICK f : f = [i \in F |-> Cardinality(Ahead(S, i))]
    BY ZenonT(60)
  <2>4. f \in [F -> T]
    <3>1. \A i \in F : Cardinality(Ahead(S, i)) \in T
      BY <1>1, <1>3, <1>4, <1>6, <2>1
    <3> QED BY ZenonT(60), <2>3, <3>1
  <2>5. \E x, y \in F : x # y /\ f[x] = f[y]
    BY ZenonT(60), <1>5, <2>2, <2>4, FS_PigeonHole
  <2>6. PICK x \in F, y \in F : x # y /\ f[x] = f[y]
    BY ZenonT(60), <2>5
  <2>7. Cardinality(Ahead(S, x)) = Cardinality(Ahead(S, y)) /\ Cardinality(Ahead(S, x)) \in Nat
    BY ZenonT(60), <1>4, <1>6, <2>3, <2>6
  <2>8. Before(x, y) \/ Before(y, x)
    BY ZenonT(60), <1>4, <2>6, BeforeOrders
  <2> QED BY <1>4, <2>7, <2>8, AheadGrows
<1>8. ASSUME Cardinality(S) <= n PROVE F = S
  <2>1. \A i \in S : Cardinality(Ahead(S, i)) < n
    BY <1>5, <1>6, <1>8
  <2> QED BY ZenonT(60), <1>1, <1>3, <2>1
<1> QED BY ZenonT(60), <1>2, <1>3, <1>4, <1>5, <1>7, <1>8
-----------------------------------------------------------------------------
(* What a step of the tables leaves a transaction.                         *)

\* Ids and time only grow, an archived id stays away, a task keeps its class.
TablesGrow ==
  /\ counter' \in Nat /\ counter <= counter' /\ now' \in Nat /\ now <= now'
  /\ DOMAIN active' \cap (1..counter) \subseteq DOMAIN active
  /\ \A i \in DOMAIN active \cap DOMAIN active' : active'[i].class = active[i].class

\* Rows outside S are as they were.
WritesOnly(S) ==
  \A i \in DOMAIN active \ S : i \in DOMAIN active' /\ active'[i] = active[i]

\* What a transaction relies on survives every step that leaves its locked rows
\* alone.
LEMMA CallFramed ==
  ASSUME IInv, NEW k, CallOK(k, active, now, counter), TablesGrow,
         NEW S, WritesOnly(S), k.locks \cap S = {}
  PROVE  CallOK(k, active', now', counter')
<1>1. now \in Nat /\ counter \in Nat /\ 1..counter \subseteq 1..counter'
  BY DEF IInv, TypeOK, TablesGrow
<1>2. k.pc \in {"idle", "fresh", "overdue", "commit", "archive"}
      /\ (k.pc \in {"idle", "fresh", "archive"} => k.locks = {})
  BY ZenonT(60) DEF CallOK
<1>3. CASE k.pc \in {"idle", "fresh"}
  BY <1>1, <1>2, <1>3 DEF CallOK, TablesGrow
<1>4. CASE k.pc \in {"overdue", "commit"}
  <2>1. \A i \in k.locks : i \in DOMAIN active' /\ active'[i] = active[i]
    BY <1>4 DEF CallOK, WritesOnly
  <2>2. \A i \in k.got : Available(active'[i], k.t)
    BY ZenonT(60), <1>4, <2>1 DEF CallOK
  <2> QED BY <1>1, <1>4, <2>1, <2>2 DEF CallOK, TablesGrow
<1>5. CASE k.pc = "archive"
  <2>1. k.id \in 1..counter /\ (k.id \in DOMAIN active => active[k.id].class = k.row.class)
    BY ZenonT(60), <1>5 DEF CallOK
  <2>2. k.id \in DOMAIN active' => active'[k.id].class = k.row.class
    BY ZenonT(60), <2>1 DEF TablesGrow
  <2> QED BY ZenonT(60), <1>1, <1>2, <1>5, <2>1, <2>2 DEF CallOK
<1> QED BY ZenonT(60), <1>2, <1>3, <1>4, <1>5

\* A step on rows nobody has locked keeps the invariant.
LEMMA AtomicStep ==
  ASSUME StoreInv, [Next]_vars, UNCHANGED call, TablesGrow,
         NEW S, WritesOnly(S), \A i \in S : ~Locked(i)
  PROVE  StoreInv'
<1>1. IInv'
  BY ZenonT(60), NextKeeps DEF StoreInv
<1>2. ASSUME NEW d \in Calls PROVE CallOK(call'[d], active', now', counter')
  <2>1. PICK k : k = call[d]
    BY ZenonT(60)
  <2>2. CallOK(k, active, now, counter) /\ k.locks \cap S = {}
    BY ZenonT(60), <2>1 DEF StoreInv, Locked
  <2>3. CallOK(k, active', now', counter')
    BY ZenonT(60), <2>2, CallFramed DEF StoreInv
  <2> QED BY ZenonT(60), <2>1, <2>3
<1> QED BY ZenonT(60), <1>1, <1>2 DEF StoreInv, LocksDisjoint

\* A statement of c keeps the invariant when c knows enough after it and touches
\* no row that another transaction has locked.
LEMMA OwnStep ==
  ASSUME StoreInv, [Next]_vars, NEW c \in Calls, NEW k, call' = [call EXCEPT ![c] = k],
         CallOK(k, active', now', counter'), ~LockedByOther(c, k.locks), TablesGrow,
         NEW S, WritesOnly(S), ~LockedByOther(c, S)
  PROVE  StoreInv'
<1>1. IInv'
  BY ZenonT(60), NextKeeps DEF StoreInv
<1>2. DOMAIN call' = Calls /\ call'[c] = k /\ \A d \in Calls \ {c} : call'[d] = call[d]
  BY ZenonT(60) DEF StoreInv
<1>3. ASSUME NEW d \in Calls \ {c} PROVE CallOK(call'[d], active', now', counter')
  <2>1. PICK m : m = call[d]
    BY ZenonT(60)
  <2>2. CallOK(m, active, now, counter) /\ m.locks \cap S = {}
    BY ZenonT(60), <2>1 DEF StoreInv, LockedByOther
  <2>3. CallOK(m, active', now', counter')
    BY ZenonT(60), <2>2, CallFramed DEF StoreInv
  <2> QED BY ZenonT(60), <1>2, <2>1, <2>3
<1>4. LocksDisjoint'
  BY <1>2 DEF StoreInv, LocksDisjoint, LockedByOther
<1> QED BY ZenonT(60), <1>1, <1>2, <1>3, <1>4 DEF StoreInv

\* A statement that changes no table.
LEMMA ReadStep ==
  ASSUME StoreInv, UNCHANGED vars, NEW c \in Calls, NEW k, call' = [call EXCEPT ![c] = k],
         CallOK(k, active, now, counter), ~LockedByOther(c, k.locks)
  PROVE  StoreInv'
<1>1. TablesGrow /\ WritesOnly({})
  BY DEF vars, TablesGrow, WritesOnly, StoreInv, IInv, TypeOK
<1>2. ~LockedByOther(c, {})
  BY ZenonT(60) DEF LockedByOther
<1>3. CallOK(k, active', now', counter')
  BY ZenonT(60) DEF vars
<1> QED BY ZenonT(60), <1>1, <1>2, <1>3, OwnStep
-----------------------------------------------------------------------------
(* The statements of Lease.                                                *)

\* Phase 1's select: at most n fresh rows, none of which the owner holds.
LEMMA LeaseSelectOK ==
  ASSUME StoreInv, NEW c \in Calls, NEW o \in Owners, NEW n \in Limits, NEW cs,
         LeaseSelect(c, o, n, cs)
  PROVE  StoreInv'
<1>1. PICK mine : mine = {i \in DOMAIN active : active[i].class \in cs}
  BY ZenonT(60)
<1>2. PICK fr : fr = {i \in mine : Fresh(active[i])}
  BY ZenonT(60)
<1>3. PICK ov : ov = {i \in mine : Overdue(active[i], now)}
  BY ZenonT(60)
<1>4. PICK held : held = {i \in DOMAIN active : active[i].owner = o /\ active[i].expires > now}
  BY ZenonT(60)
<1>5. PICK sel : sel = First(fr, n)
  BY ZenonT(60)
<1>6. PICK k : k = [pc |-> "fresh", owner |-> o, limit |-> n, t |-> now, locks |-> {},
                    fresh |-> sel, overdue |-> ov, held |-> held]
  BY ZenonT(60)
<1>7. call' = [call EXCEPT ![c] = k] /\ UNCHANGED vars
  BY <1>1, <1>2, <1>3, <1>4, <1>5, <1>6 DEF LeaseSelect
<1>8. /\ k.pc = "fresh" /\ k.owner = o /\ k.limit = n /\ k.t = now /\ k.locks = {}
      /\ k.fresh = sel /\ k.overdue = ov /\ k.held = held
  BY ZenonT(60), <1>6
<1>9. n \in Nat /\ now \in Nat /\ counter \in Nat
  BY ZenonT(60), LimitType DEF StoreInv, IInv, TypeOK
<1>10. DOMAIN active \subseteq 1..counter
  BY ZenonT(60) DEF StoreInv, IInv, OneTable
<1>11. fr \in SUBSET (1..counter) /\ ov \subseteq 1..counter
  BY ZenonT(60), <1>1, <1>2, <1>3, <1>10
<1>12. sel \subseteq fr /\ Cardinality(sel) <= n
  BY ZenonT(60), <1>5, <1>9, <1>11, FirstIsLimit DEF StoreInv
<1>13. sel \cap held = {}
  BY ZenonT(60), <1>2, <1>4, <1>12, OwnersAssumption DEF Fresh
<1>14. ov \cap held = {}
  <2>1. \A i \in DOMAIN active : active[i].expires \in Int \cup {NULL}
    BY ZenonT(60) DEF StoreInv, IInv, TypeOK, ActiveRow
  <2> QED BY <1>1, <1>3, <1>4, <1>9, <2>1 DEF Overdue
<1>15. CallOK(k, active, now, counter)
  <2>1. now <= now
    BY <1>9
  <2>2. sel \subseteq 1..counter
    BY ZenonT(60), <1>11, <1>12
  <2> QED BY ZenonT(60), <1>8, <1>9, <1>11, <1>12, <1>13, <1>14, <2>1, <2>2 DEF CallOK
<1>16. ~LockedByOther(c, k.locks)
  BY ZenonT(60), <1>8 DEF LockedByOther
<1> QED BY ZenonT(60), <1>7, <1>15, <1>16, ReadStep

\* Phase 1's update and phase 2's select: together no more rows than asked for.
LEMMA LeaseUpdateFreshOK ==
  ASSUME StoreInv, NEW c \in Calls, LeaseUpdateFresh(c)
  PROVE  StoreInv'
<1>1. PICK k : k = call[c]
  BY ZenonT(60)
<1>2. PICK got : got = {i \in k.fresh \cap DOMAIN active : Fresh(active[i])}
  BY ZenonT(60)
<1>3. PICK late : late = First(k.overdue, k.limit - Cardinality(got))
  BY ZenonT(60)
<1>4. PICK locks : locks = k.fresh \cap DOMAIN active
  BY ZenonT(60)
<1>5. PICK m : m = [pc |-> "overdue", owner |-> k.owner, limit |-> k.limit, t |-> k.t,
                    locks |-> locks, got |-> got, late |-> late,
                    fresh |-> k.fresh, held |-> k.held]
  BY ZenonT(60)
<1>6. call' = [call EXCEPT ![c] = m] /\ UNCHANGED vars /\ k.pc = "fresh" /\ ~LockedByOther(c, k.fresh)
  BY ZenonT(60), <1>1, <1>2, <1>3, <1>4, <1>5 DEF LeaseUpdateFresh, Refreshed
<1>7. /\ m.pc = "overdue" /\ m.owner = k.owner /\ m.limit = k.limit /\ m.t = k.t
      /\ m.locks = locks /\ m.got = got /\ m.late = late /\ m.fresh = k.fresh /\ m.held = k.held
  BY ZenonT(60), <1>5
<1>8. CallOK(k, active, now, counter)
  BY ZenonT(60), <1>1 DEF StoreInv
<1>9. /\ k.owner \in Owners /\ k.limit \in Limits /\ k.t \in Nat /\ k.t <= now
      /\ k.fresh \in SUBSET (1..counter) /\ k.fresh \cap k.held = {}
      /\ Cardinality(k.fresh) <= k.limit
      /\ k.overdue \in SUBSET (1..counter) /\ k.overdue \cap k.held = {}
  BY ZenonT(60), <1>6, <1>8 DEF CallOK
<1>10. k.limit \in Nat
  BY ZenonT(60), <1>9, LimitType
<1>11. Cardinality(got) \in Nat /\ Cardinality(got) <= k.limit
  <2>1. IsFiniteSet(k.fresh) /\ Cardinality(k.fresh) \in Nat
    BY ZenonT(60), <1>9, <1>10, FirstIsLimit DEF StoreInv
  <2>2. got \in SUBSET k.fresh
    BY ZenonT(60), <1>2
  <2>3. IsFiniteSet(got) /\ Cardinality(got) <= Cardinality(k.fresh)
    BY ZenonT(60), <2>1, <2>2, FS_Subset
  <2>4. Cardinality(got) \in Nat
    BY ZenonT(60), <2>3, FS_CardinalityType
  <2> QED BY <1>9, <1>10, <2>1, <2>3, <2>4
<1>12. late \subseteq k.overdue /\ Cardinality(late) <= k.limit - Cardinality(got)
  <2>1. PICK n : n = k.limit - Cardinality(got)
    BY ZenonT(60)
  <2>2. n \in Nat
    BY <1>10, <1>11, <2>1
  <2>3. First(k.overdue, n) \subseteq k.overdue /\ Cardinality(First(k.overdue, n)) <= n
    BY ZenonT(60), <1>9, <2>2, FirstIsLimit DEF StoreInv
  <2> QED BY ZenonT(60), <1>3, <2>1, <2>3
<1>13. \A i \in got : Available(active[i], k.t)
  BY ZenonT(60), <1>2 DEF Fresh, Available
<1>14. CallOK(m, active, now, counter)
  BY ZenonT(60), <1>2, <1>4, <1>7, <1>9, <1>12, <1>13 DEF CallOK
<1>15. ~LockedByOther(c, m.locks)
  BY ZenonT(60), <1>4, <1>6, <1>7 DEF LockedByOther
<1> QED BY ZenonT(60), <1>6, <1>14, <1>15, ReadStep

\* Phase 2's update and the fetch, which finds the rows of got and no other.
LEMMA LeaseUpdateOverdueOK ==
  ASSUME StoreInv, NEW c \in Calls, LeaseUpdateOverdue(c)
  PROVE  StoreInv'
<1>1. PICK k : k = call[c]
  BY ZenonT(60)
<1>2. PICK more : more = {i \in k.late \cap DOMAIN active : Overdue(active[i], k.t)}
  BY ZenonT(60)
<1>3. PICK got : got = k.got \cup more
  BY ZenonT(60)
<1>4. PICK locks : locks = k.locks \cup (k.late \cap DOMAIN active)
  BY ZenonT(60)
<1>5. PICK m : m = [pc |-> "commit", owner |-> k.owner, limit |-> k.limit, t |-> k.t, got |-> got,
                    fetched |-> Fetched(k, got), locks |-> locks]
  BY ZenonT(60)
<1>6. call' = [call EXCEPT ![c] = m] /\ UNCHANGED vars /\ k.pc = "overdue" /\ ~LockedByOther(c, k.late)
  BY <1>1, <1>2, <1>3, <1>4, <1>5 DEF LeaseUpdateOverdue
<1>7. /\ m.pc = "commit" /\ m.owner = k.owner /\ m.limit = k.limit /\ m.t = k.t
      /\ m.got = got /\ m.fetched = Fetched(k, got) /\ m.locks = locks
  BY ZenonT(60), <1>5
<1>8. CallOK(k, active, now, counter)
  BY ZenonT(60), <1>1 DEF StoreInv
<1>9. /\ k.owner \in Owners /\ k.limit \in Limits /\ k.t \in Nat /\ k.t <= now
      /\ k.fresh \in SUBSET (1..counter) /\ k.fresh \cap k.held = {}
      /\ k.locks \subseteq DOMAIN active /\ k.got \subseteq k.locks
      /\ \A i \in k.got : Available(active[i], k.t)
      /\ k.got \subseteq k.fresh /\ k.late \in SUBSET (1..counter) /\ k.late \cap k.held = {}
      /\ Cardinality(k.late) <= k.limit - Cardinality(k.got)
  BY ZenonT(60), <1>6, <1>8 DEF CallOK
<1>10. k.limit \in Nat
  BY ZenonT(60), <1>9, LimitType
<1>11. got \in SUBSET (1..counter) /\ Cardinality(got) <= k.limit
  <2>1. k.got \in SUBSET (1..counter) /\ more \in SUBSET k.late
    BY ZenonT(60), <1>2, <1>9
  <2>2. IsFiniteSet(k.got) /\ IsFiniteSet(k.late) /\ IsFiniteSet(more)
    BY ZenonT(60), <1>9, <2>1, IdsFinite, FS_Subset DEF StoreInv
  <2>3. Cardinality(k.got) \in Nat /\ Cardinality(k.late) \in Nat /\ Cardinality(more) \in Nat
        /\ Cardinality(more) <= Cardinality(k.late)
    BY ZenonT(60), <2>1, <2>2, FS_Subset, FS_CardinalityType
  <2>4. Cardinality(got) = Cardinality(k.got) + Cardinality(more) - Cardinality(k.got \cap more)
    BY ZenonT(60), <1>3, <2>2, FS_Union
  <2>5. Cardinality(k.got \cap more) \in Nat
    <3>1. k.got \cap more \in SUBSET more
      BY ZenonT(60)
    <3>2. IsFiniteSet(k.got \cap more)
      BY ZenonT(60), <2>2, <3>1, FS_Subset
    <3> QED BY ZenonT(60), <3>2, FS_CardinalityType
  <2> QED BY <1>3, <1>9, <1>10, <2>1, <2>3, <2>4, <2>5
<1>12. Fetched(k, got) = got
  <2>1. {i \in k.fresh \cup k.late : i \in got \cup k.held} = got
    BY ZenonT(60), <1>2, <1>3, <1>9
  <2>2. First(got, k.limit) = got
    BY ZenonT(60), <1>10, <1>11, FirstIsLimit DEF StoreInv
  <2> QED BY ZenonT(60), <2>1, <2>2 DEF Fetched
<1>13. \A i \in got : i \in locks /\ Available(active[i], k.t)
  <2>1. \A i \in more : i \in locks /\ Available(active[i], k.t)
    <3>1. \A i \in DOMAIN active : active[i].expires \in Int \cup {NULL}
      BY ZenonT(60) DEF StoreInv, IInv, TypeOK, ActiveRow
    <3> QED BY <1>2, <1>4, <1>9, <3>1 DEF Overdue, Available
  <2> QED BY ZenonT(60), <1>3, <1>4, <1>9, <2>1
<1>14. CallOK(m, active, now, counter)
  BY ZenonT(60), <1>4, <1>7, <1>9, <1>11, <1>12, <1>13 DEF CallOK
<1>15. ~LockedByOther(c, m.locks)
  BY ZenonT(60), <1>1, <1>4, <1>6, <1>7 DEF LockedByOther, StoreInv, LocksDisjoint
<1> QED BY ZenonT(60), <1>6, <1>14, <1>15, ReadStep
-----------------------------------------------------------------------------
(* The operations on one row, the commits, and the rest.                   *)

\* Rewriting the leases of rows of S in place.
LEMMA RewriteGrows ==
  ASSUME IInv, UNCHANGED <<now, counter>>, DOMAIN active' = DOMAIN active, NEW S,
         \A j \in DOMAIN active : active'[j].class = active[j].class,
         \A j \in DOMAIN active \ S : active'[j] = active[j]
  PROVE  TablesGrow /\ WritesOnly(S)
BY DEF TablesGrow, WritesOnly, IInv, TypeOK

\* A retry, a yield and a renewal rewrite the lease of their row.
LEMMA RetryGrows ==
  ASSUME IInv, NEW i \in DOMAIN active, NEW w, Retry(i, w)
  PROVE  TablesGrow /\ WritesOnly({i})
<1>1. /\ DOMAIN active' = DOMAIN active /\ UNCHANGED <<now, counter>>
      /\ \A j \in DOMAIN active \ {i} : active'[j] = active[j]
  BY ZenonT(60) DEF Retry
<1>2. active'[i].class = active[i].class
  <2>1. active[i] \in ActiveRow
    BY ZenonT(60) DEF IInv, TypeOK
  <2> QED BY ZenonT(60), <2>1 DEF Retry, ActiveRow
<1>3. \A j \in DOMAIN active : active'[j].class = active[j].class
  BY ZenonT(60), <1>1, <1>2
<1> QED BY ZenonT(60), <1>1, <1>3, RewriteGrows

\* A yield rewrites the lease of its row.
LEMMA ParkGrows ==
  ASSUME IInv, NEW i \in DOMAIN active, NEW d, Park(i, d)
  PROVE  TablesGrow /\ WritesOnly({i})
<1>1. /\ DOMAIN active' = DOMAIN active /\ UNCHANGED <<now, counter>>
      /\ \A j \in DOMAIN active \ {i} : active'[j] = active[j]
  BY ZenonT(60) DEF Park
<1>2. active'[i].class = active[i].class
  <2>1. active[i] \in ActiveRow
    BY ZenonT(60) DEF IInv, TypeOK
  <2> QED BY ZenonT(60), <2>1 DEF Park, ActiveRow
<1>3. \A j \in DOMAIN active : active'[j].class = active[j].class
  BY ZenonT(60), <1>1, <1>2
<1> QED BY ZenonT(60), <1>1, <1>3, RewriteGrows

\* A renewal rewrites the lease of its row.
LEMMA RenewGrows ==
  ASSUME IInv, NEW l, NEW d, Renew(l, d)
  PROVE  TablesGrow /\ WritesOnly({l.id})
<1>1. /\ DOMAIN active' = DOMAIN active /\ UNCHANGED <<now, counter>> /\ l.id \in DOMAIN active
      /\ \A j \in DOMAIN active \ {l.id} : active'[j] = active[j]
  BY ZenonT(60) DEF Renew, Holds
<1>2. active'[l.id].class = active[l.id].class
  <2>1. active[l.id] \in ActiveRow
    BY ZenonT(60), <1>1 DEF IInv, TypeOK
  <2> QED BY ZenonT(60), <1>1, <2>1 DEF Renew, ActiveRow
<1>3. \A j \in DOMAIN active : active'[j].class = active[j].class
  BY ZenonT(60), <1>1, <1>2
<1> QED BY ZenonT(60), <1>1, <1>3, RewriteGrows

\* Leasing and awakening rewrite the leases of their rows.
LEMMA BatchGrows ==
  ASSUME IInv, NEW S \in SUBSET DOMAIN active,
         Awaken(S) \/ \E o \in Owners, t \in Int : Lease(o, t, S)
  PROVE  TablesGrow /\ WritesOnly(S)
<1>1. \A j \in DOMAIN active : active[j] \in ActiveRow
  BY ZenonT(60) DEF IInv, TypeOK
<1>2. CASE Awaken(S)
  <2>1. DOMAIN active' = DOMAIN active /\ UNCHANGED <<now, counter>>
    BY ZenonT(60), <1>2 DEF Awaken
  <2>2. \A j \in DOMAIN active \ S : active'[j] = active[j]
    BY ZenonT(60), <1>2 DEF Awaken
  <2>3. \A j \in DOMAIN active : active'[j].class = active[j].class
    BY ZenonT(60), <1>1, <1>2 DEF Awaken, ActiveRow
  <2> QED BY ZenonT(60), <2>1, <2>2, <2>3, RewriteGrows
<1>3. ASSUME NEW o \in Owners, NEW t \in Int, Lease(o, t, S) PROVE TablesGrow /\ WritesOnly(S)
  <2>1. DOMAIN active' = DOMAIN active /\ UNCHANGED <<now, counter>>
    BY ZenonT(60), <1>3 DEF Lease
  <2>2. \A j \in DOMAIN active \ S : active'[j] = active[j]
    BY ZenonT(60), <1>3 DEF Lease
  <2>3. \A j \in DOMAIN active : active'[j].class = active[j].class
    BY ZenonT(60), <1>1, <1>3 DEF Lease, ActiveRow
  <2> QED BY ZenonT(60), <2>1, <2>2, <2>3, RewriteGrows
<1> QED BY ZenonT(60), <1>2, <1>3

\* Archiving removes its row and touches no other.
LEMMA ArchiveGrows ==
  ASSUME IInv, NEW i \in DOMAIN active, NEW result, Archive(i, result)
  PROVE  TablesGrow /\ WritesOnly({i})
BY DEF Archive, Drop, TablesGrow, WritesOnly, IInv, TypeOK

\* A new task has an id that no task had.
LEMMA EnqueueGrows ==
  ASSUME IInv, NEW c, NEW e, Enqueue(c, e)
  PROVE  TablesGrow /\ WritesOnly({})
<1>1. counter \in Nat /\ DOMAIN active \subseteq 1..counter
  BY ZenonT(60) DEF IInv, TypeOK, OneTable
<1>2. UNCHANGED now /\ counter' = counter + 1 /\ active' = Put(active, counter + 1, NewRow(c, e))
  BY ZenonT(60) DEF Enqueue, Insert
<1>3. /\ DOMAIN active' = DOMAIN active \cup {counter + 1}
      /\ \A j \in DOMAIN active : active'[j] = active[j]
  BY <1>1, <1>2 DEF Put
<1> QED BY <1>1, <1>2, <1>3 DEF TablesGrow, WritesOnly, IInv, TypeOK

\* Finalizing removes the parent's row and adds ids that no task had; the
\* receipt of a finalization changes no row.
LEMMA FinalizeGrows ==
  ASSUME IInv, NEW l, Finalize(l)
  PROVE  TablesGrow /\ WritesOnly(IF l.id \in DOMAIN active THEN {l.id} ELSE {})
<1>1. counter \in Nat /\ now \in Nat /\ DOMAIN active \subseteq 1..counter
  BY ZenonT(60) DEF IInv, TypeOK, OneTable
<1>2. CASE FinalizeFirst(l)
  <2>1. l.id \in DOMAIN active /\ Children(l.id) \in Nat
    BY ZenonT(60), <1>2, ClassesAssumption DEF FinalizeFirst, Holds, Children, IInv, TypeOK, ActiveRow
  <2>2. PICK new : new = (counter + 1)..(counter + Children(l.id))
    BY ZenonT(60)
  <2>3. /\ active' = [x \in (DOMAIN active \ {l.id}) \cup new |->
                        IF x \in new THEN NewRow(ChildClass, NULL) ELSE active[x]]
        /\ counter' = counter + Children(l.id) /\ UNCHANGED now
    BY ZenonT(60), <1>2, <2>2 DEF FinalizeFirst
  <2>4. new \cap (1..counter) = {}
    BY <1>1, <2>1, <2>2
  <2>5. /\ DOMAIN active' = (DOMAIN active \ {l.id}) \cup new
        /\ \A j \in DOMAIN active \ {l.id} : active'[j] = active[j]
    BY ZenonT(60), <1>1, <2>3, <2>4
  <2>6. TablesGrow
    BY <1>1, <2>1, <2>3, <2>4, <2>5 DEF TablesGrow
  <2> QED BY ZenonT(60), <2>1, <2>5, <2>6 DEF WritesOnly
<1>3. CASE FinalizeReplay(l)
  BY <1>1, <1>3 DEF FinalizeReplay, TablesGrow, WritesOnly
<1> QED BY ZenonT(60), <1>2, <1>3 DEF Finalize
-----------------------------------------------------------------------------
(* The commits are operations of the contract.                             *)

\* A transaction that ends knows nothing and holds nothing.
LEMMA IdleOK ==
  ASSUME NEW c \in Calls
  PROVE  CallOK(Idle, active', now', counter') /\ CallOK(Idle, active, now, counter)
         /\ ~LockedByOther(c, Idle.locks)
BY ZenonT(60) DEF CallOK, Idle, LockedByOther

\* The commit of a lease call is one lease of the rows it updated, at the time
\* the call read: they are locked, so they are as available as they were.
LEMMA LeaseCommitOK ==
  ASSUME StoreInv, NEW c \in Calls, LeaseCommit(c)
  PROVE  StoreInv' /\ [Next]_vars
<1>1. PICK k : k = call[c]
  BY ZenonT(60)
<1>2. /\ k.pc = "commit" /\ call' = [call EXCEPT ![c] = Idle]
      /\ active' = [i \in DOMAIN active |->
                      IF i \in k.got
                      THEN [active[i] EXCEPT !.owner = k.owner, !.expires = k.t + LeaseDuration]
                      ELSE active[i]]
      /\ UNCHANGED <<now, counter, archive, inbox, origin, acked>>
  BY ZenonT(60), <1>1 DEF LeaseCommit
<1>3. CallOK(k, active, now, counter) /\ now - k.t <= MaxLag
  BY ZenonT(60), <1>1 DEF StoreInv, LeaseCommit
<1>4. /\ k.owner \in Owners /\ k.limit \in Limits /\ k.t \in Nat /\ k.t <= now
      /\ k.got \subseteq k.locks /\ k.got \in SUBSET DOMAIN active
      /\ \A i \in k.got : Available(active[i], k.t)
      /\ Cardinality(k.got) <= k.limit
  BY ZenonT(60), <1>2, <1>3 DEF CallOK
<1>5. CASE k.got = {}
  <2>1. active' = [i \in DOMAIN active |-> active[i]]
    BY ZenonT(60), <1>2, <1>5
  <2>2. active' = active
    BY ZenonT(60), <2>1 DEF StoreInv, IInv, TypeOK
  <2>3. UNCHANGED vars
    BY ZenonT(60), <1>2, <2>2 DEF vars
  <2>4. StoreInv'
    BY ZenonT(60), <1>2, <2>3, IdleOK, ReadStep
  <2> QED BY ZenonT(60), <2>3, <2>4
<1>6. CASE k.got # {}
  <2>1. Cardinality(k.got) <= BatchLimit
    <3>1. k.limit \in Nat /\ k.limit <= BatchLimit /\ BatchLimit \in Nat
      BY ZenonT(60), <1>4, LimitType
    <3>2. Cardinality(k.got) \in Int
      <4>1. k.got \in SUBSET (1..counter)
        BY ZenonT(60), <1>4 DEF StoreInv, IInv, OneTable
      <4>2. IsFiniteSet(k.got)
        BY ZenonT(60), <4>1, IdsFinite, FS_Subset DEF StoreInv
      <4> QED BY <4>2, FS_CardinalityType
    <3> QED BY <1>4, <3>1, <3>2
  <2>2. Lease(k.owner, k.t, k.got)
    BY ZenonT(60), <1>2, <1>4, <1>6, <2>1 DEF Lease
  <2>3. PICK lag : lag = now - k.t
    BY ZenonT(60)
  <2>4. lag \in 0..MaxLag /\ now - lag = k.t /\ k.t \in Int
    <3>1. now \in Int /\ MaxLag \in Int
      BY DurationsAssumption DEF StoreInv, IInv, TypeOK
    <3> QED BY <1>3, <1>4, <2>3, <3>1
  <2>5. Lease(k.owner, now - lag, k.got)
    BY ZenonT(60), <2>2, <2>4
  <2>6. Next
    <3>1. \E o \in Owners, l \in 0..MaxLag, S \in SUBSET DOMAIN active : Lease(o, now - l, S)
      BY ZenonT(60), <1>4, <2>4, <2>5
    <3> QED BY ZenonT(60), <3>1 DEF Next
  <2>7. TablesGrow /\ WritesOnly(k.got)
    BY ZenonT(60), <1>4, <2>2, <2>4, BatchGrows DEF StoreInv
  <2>8. ~LockedByOther(c, k.got)
    BY ZenonT(60), <1>1, <1>4 DEF LockedByOther, StoreInv, LocksDisjoint
  <2>9. StoreInv'
    BY ZenonT(60), <1>2, <2>6, <2>7, <2>8, IdleOK, OwnStep
  <2> QED BY ZenonT(60), <2>6, <2>9
<1> QED BY ZenonT(60), <1>5, <1>6

\* The commit of archiveTask archives the task as it is now, although the row was
\* read earlier: the insert would have failed on a task archived since.
LEMMA ArchiveCommitOK ==
  ASSUME StoreInv, NEW c \in Calls, NEW result \in {"completed", "failure", "cancelled"},
         result = "completed" => "complete" \in LegacyRoutes,
         result = "failure" => "fail" \in LegacyRoutes,
         ArchiveCommit(c, result)
  PROVE  StoreInv' /\ [Next]_vars
<1>1. PICK k : k = call[c]
  BY ZenonT(60)
<1>2. /\ k.pc = "archive" /\ ~Locked(k.id) /\ k.id \notin DOMAIN archive
      /\ archive' = Put(archive, k.id, Archived(k.row, result)) /\ active' = Drop(active, k.id)
      /\ call' = [call EXCEPT ![c] = Idle]
      /\ UNCHANGED <<now, counter, inbox, origin, acked>>
  BY ZenonT(60), <1>1 DEF ArchiveCommit
<1>3. CallOK(k, active, now, counter)
  BY ZenonT(60), <1>1 DEF StoreInv
<1>4. k.id \in DOMAIN active /\ active[k.id].class = k.row.class
  <2>1. k.id \in 1..counter /\ (k.id \in DOMAIN active => active[k.id].class = k.row.class)
    BY ZenonT(60), <1>2, <1>3 DEF CallOK
  <2> QED BY ZenonT(60), <1>2, <2>1 DEF StoreInv, IInv, OneTable
<1>5. Archived(k.row, result) = Archived(active[k.id], result)
  BY ZenonT(60), <1>4 DEF Archived
<1>6. PICK i \in DOMAIN active : i = k.id
  BY ZenonT(60), <1>4
<1>7. Archive(i, result)
  BY ZenonT(60), <1>2, <1>5, <1>6 DEF Archive
<1>8. Next
  <2>1. CASE result = "completed"
    <3>1. Complete(i)
      BY ZenonT(60), <1>7, <2>1 DEF Complete
    <3> QED BY ZenonT(60), <3>1 DEF Next
  <2>2. CASE result = "failure"
    <3>1. PICK w \in Waits : TRUE
      BY ZenonT(60), StoreAssumption
    <3>2. Fail(i, TRUE, w)
      BY ZenonT(60), <1>7, <2>2 DEF Fail
    <3> QED BY ZenonT(60), <3>2 DEF Next
  <2>3. CASE result = "cancelled"
    <3>1. Cancel(i)
      BY ZenonT(60), <1>7, <2>3 DEF Cancel
    <3> QED BY ZenonT(60), <3>1 DEF Next
  <2> QED BY ZenonT(60), <2>1, <2>2, <2>3
<1>9. TablesGrow /\ WritesOnly({i})
  BY ZenonT(60), <1>7, ArchiveGrows DEF StoreInv
<1>10. ~LockedByOther(c, {i})
  BY ZenonT(60), <1>2, <1>6 DEF LockedByOther, Locked
<1>11. StoreInv'
  BY ZenonT(60), <1>2, <1>8, <1>9, <1>10, IdleOK, OwnStep
<1> QED BY ZenonT(60), <1>8, <1>11

\* archiveTask's read, and a rollback.
LEMMA ArchiveSelectOK ==
  ASSUME StoreInv, NEW c \in Calls, NEW i \in DOMAIN active, ArchiveSelect(c, i)
  PROVE  StoreInv'
<1>1. PICK k : k = [pc |-> "archive", locks |-> {}, id |-> i, row |-> active[i]]
  BY ZenonT(60)
<1>2. call' = [call EXCEPT ![c] = k] /\ UNCHANGED vars
  BY ZenonT(60), <1>1 DEF ArchiveSelect
<1>3. k.pc = "archive" /\ k.locks = {} /\ k.id = i /\ k.row = active[i]
  BY ZenonT(60), <1>1
<1>4. CallOK(k, active, now, counter)
  <2>1. i \in 1..counter
    BY ZenonT(60) DEF StoreInv, IInv, OneTable
  <2> QED BY ZenonT(60), <1>3, <2>1 DEF CallOK
<1>5. ~LockedByOther(c, k.locks)
  BY ZenonT(60), <1>3 DEF LockedByOther
<1> QED BY ZenonT(60), <1>2, <1>4, <1>5, ReadStep

\* A rollback gives up the locks and nothing else.
LEMMA RollbackOK ==
  ASSUME StoreInv, NEW c \in Calls, Rollback(c)
  PROVE  StoreInv' /\ UNCHANGED vars
BY ZenonT(60), IdleOK, ReadStep DEF Rollback
-----------------------------------------------------------------------------
(* Every step, and the theorem.                                            *)

\* An operation of the contract on a row nobody has locked.
LEMMA RowStep ==
  ASSUME StoreInv, NEW i \in DOMAIN active, ~Locked(i), UNCHANGED call, Next,
         TablesGrow, WritesOnly({i})
  PROVE  StoreInv' /\ [Next]_vars
BY ZenonT(60), AtomicStep

\* The operations that are one statement, or that lock their row first.
LEMMA OperationOK ==
  ASSUME StoreInv, NEW i \in DOMAIN active,
         \/ \E w \in Waits : OnRow(i, Fail(i, FALSE, w))
         \/ \E d \in Waits : OnRow(i, Yield(i, d))
         \/ \E d \in RenewDurations : OnRow(i, Renew(LeaseOf(active, i), d))
         \/ \E outcome \in {"failure", "retry", "yield"}, w \in Waits :
               OnRow(i, Resolve(LeaseOf(active, i), outcome, w))
         \/ OnRow(i, Finalize(LeaseOf(active, i)))
  PROVE  StoreInv' /\ [Next]_vars
<1>0. IInv
  BY ZenonT(60) DEF StoreInv
<1>1. PICK l : l = LeaseOf(active, i)
  BY ZenonT(60)
<1>2. l.id = i
  BY ZenonT(60), <1>1 DEF LeaseOf
<1>3. ASSUME NEW w \in Waits, OnRow(i, Fail(i, FALSE, w)) PROVE StoreInv' /\ [Next]_vars
  <2>1. ~Locked(i) /\ UNCHANGED call /\ Fail(i, FALSE, w) /\ Retry(i, w)
    BY ZenonT(60), <1>3 DEF OnRow, Fail
  <2>2. Next
    BY ZenonT(60), <2>1 DEF Next
  <2> QED BY ZenonT(60), <1>0, <2>1, <2>2, RetryGrows, RowStep
<1>4. ASSUME NEW d \in Waits, OnRow(i, Yield(i, d)) PROVE StoreInv' /\ [Next]_vars
  <2>1. ~Locked(i) /\ UNCHANGED call /\ Yield(i, d) /\ Park(i, d)
    BY ZenonT(60), <1>4 DEF OnRow, Yield
  <2>2. Next
    BY ZenonT(60), <2>1 DEF Next
  <2> QED BY ZenonT(60), <1>0, <2>1, <2>2, ParkGrows, RowStep
<1>5. ASSUME NEW d \in RenewDurations, OnRow(i, Renew(LeaseOf(active, i), d))
      PROVE  StoreInv' /\ [Next]_vars
  <2>1. ~Locked(i) /\ UNCHANGED call /\ Renew(LeaseOf(active, i), d)
    BY ZenonT(60), <1>5 DEF OnRow
  <2>2. Next
    BY ZenonT(60), <2>1 DEF Next
  <2>3. Renew(l, d)
    BY ZenonT(60), <1>1, <2>1
  <2>4. TablesGrow /\ WritesOnly({i})
    BY ZenonT(60), <1>0, <1>2, <2>3, RenewGrows
  <2> QED BY ZenonT(60), <2>1, <2>2, <2>4, RowStep
<1>6. ASSUME NEW outcome \in {"failure", "retry", "yield"}, NEW w \in Waits,
             OnRow(i, Resolve(LeaseOf(active, i), outcome, w))
      PROVE  StoreInv' /\ [Next]_vars
  <2>1. ~Locked(i) /\ UNCHANGED call /\ Resolve(LeaseOf(active, i), outcome, w)
    BY ZenonT(60), <1>6 DEF OnRow
  <2>2. Next
    BY ZenonT(60), <2>1 DEF Next
  <2>3. Resolve(l, outcome, w)
    BY ZenonT(60), <1>1, <2>1
  <2>4. Archive(i, "failure") \/ Retry(i, w) \/ Park(i, w)
    BY ZenonT(60), <1>2, <2>3 DEF Resolve
  <2>5. TablesGrow /\ WritesOnly({i})
    BY ZenonT(60), <1>0, <2>4, ArchiveGrows, RetryGrows, ParkGrows
  <2> QED BY ZenonT(60), <2>1, <2>2, <2>5, RowStep
<1>7. ASSUME OnRow(i, Finalize(LeaseOf(active, i))) PROVE StoreInv' /\ [Next]_vars
  <2>1. ~Locked(i) /\ UNCHANGED call /\ Finalize(LeaseOf(active, i))
    BY ZenonT(60), <1>7 DEF OnRow
  <2>2. Next
    BY ZenonT(60), <2>1 DEF Next
  <2>3. Finalize(l)
    BY ZenonT(60), <1>1, <2>1
  <2>4. TablesGrow /\ WritesOnly(IF l.id \in DOMAIN active THEN {l.id} ELSE {})
    BY ZenonT(60), <1>0, <2>3, FinalizeGrows
  <2>5. TablesGrow /\ WritesOnly({i})
    BY ZenonT(60), <1>2, <2>4
  <2> QED BY <2>1, <2>2, <2>5, RowStep
<1> QED BY ZenonT(60), <1>3, <1>4, <1>5, <1>6, <1>7

\* A repeated Finalize of an archived task touches no row.
LEMMA ReplayOK ==
  ASSUME StoreInv, NEW i \in DOMAIN archive, Finalize(LeaseOf(archive, i)), UNCHANGED call
  PROVE  StoreInv' /\ [Next]_vars
<1>1. PICK l : l = LeaseOf(archive, i)
  BY ZenonT(60)
<1>2. l.id \notin DOMAIN active
  BY ZenonT(60), <1>1 DEF LeaseOf, StoreInv, IInv, OneTable
<1>3. Finalize(l)
  BY ZenonT(60), <1>1
<1>4. TablesGrow /\ WritesOnly(IF l.id \in DOMAIN active THEN {l.id} ELSE {})
  BY ZenonT(60), <1>3, FinalizeGrows DEF StoreInv
<1>5. TablesGrow /\ WritesOnly({})
  BY ZenonT(60), <1>2, <1>4
<1>6. Next
  BY ZenonT(60) DEF Next
<1> QED BY ZenonT(60), <1>5, <1>6, AtomicStep

\* Every step of the store keeps the invariant and is one of the contract's.
LEMMA StoreStepOK == StoreInv /\ [StoreNext]_storeVars => StoreInv' /\ [Next]_vars
<1> SUFFICES ASSUME StoreInv, [StoreNext]_storeVars PROVE StoreInv' /\ [Next]_vars
  BY ZenonT(60)
<1>0. IInv
  BY ZenonT(60) DEF StoreInv
<1>1. CASE UNCHANGED storeVars
  <2>1. UNCHANGED vars /\ UNCHANGED call
    BY ZenonT(60), <1>1 DEF storeVars
  <2>2. TablesGrow /\ WritesOnly({})
    BY <1>0, <2>1 DEF vars, TablesGrow, WritesOnly, IInv, TypeOK
  <2> QED BY ZenonT(60), <2>1, <2>2, AtomicStep
<1>2. CASE Tick /\ UNCHANGED call
  <2>1. TablesGrow /\ WritesOnly({})
    BY <1>0, <1>2 DEF Tick, Advance, TablesGrow, WritesOnly, IInv, TypeOK
  <2>2. Next
    BY ZenonT(60), <1>2 DEF Next
  <2> QED BY ZenonT(60), <1>2, <2>1, <2>2, AtomicStep
<1>3. ASSUME NEW c \in Classes, NEW w \in Delays,
             Enqueue(c, IF w = NULL THEN NULL ELSE now + w), UNCHANGED call
      PROVE  StoreInv' /\ [Next]_vars
  <2>1. TablesGrow /\ WritesOnly({})
    BY ZenonT(60), <1>0, <1>3, EnqueueGrows
  <2>2. Next
    BY ZenonT(60), <1>3 DEF Next
  <2> QED BY ZenonT(60), <1>3, <2>1, <2>2, AtomicStep
<1>4. ASSUME NEW S \in SUBSET DOMAIN active, \A i \in S : ~Locked(i), Awaken(S), UNCHANGED call
      PROVE  StoreInv' /\ [Next]_vars
  <2>1. TablesGrow /\ WritesOnly(S)
    BY ZenonT(60), <1>0, <1>4, BatchGrows
  <2>2. Next
    BY ZenonT(60), <1>4 DEF Next
  <2> QED BY ZenonT(60), <1>4, <2>1, <2>2, AtomicStep
<1>5. ASSUME NEW c \in LeaseCalls,
             \/ \E o \in Owners, n \in Limits, cs \in ClassFilters : LeaseSelect(c, o, n, cs)
             \/ LeaseUpdateFresh(c) \/ LeaseUpdateOverdue(c) \/ LeaseCommit(c)
      PROVE  StoreInv' /\ [Next]_vars
  <2>1. c \in Calls
    BY ZenonT(60) DEF Calls
  <2>2. CASE LeaseCommit(c)
    BY ZenonT(60), <2>1, <2>2, LeaseCommitOK
  <2>3. CASE ~LeaseCommit(c)
    <3>1. UNCHANGED vars
      BY ZenonT(60), <1>5, <2>3 DEF LeaseSelect, LeaseUpdateFresh, LeaseUpdateOverdue
    <3>2. StoreInv'
      BY <1>5, <2>1, <2>3, LeaseSelectOK, LeaseUpdateFreshOK, LeaseUpdateOverdueOK
    <3> QED BY ZenonT(60), <3>1, <3>2
  <2> QED BY ZenonT(60), <2>2, <2>3
<1>6. ASSUME NEW c \in ArchiveCalls,
             \/ \E i \in DOMAIN active : ArchiveSelect(c, i)
             \/ "complete" \in LegacyRoutes /\ ArchiveCommit(c, "completed")
             \/ "fail" \in LegacyRoutes /\ ArchiveCommit(c, "failure")
             \/ ArchiveCommit(c, "cancelled")
      PROVE  StoreInv' /\ [Next]_vars
  <2>1. c \in Calls
    BY ZenonT(60) DEF Calls
  <2>2. ASSUME NEW i \in DOMAIN active, ArchiveSelect(c, i) PROVE StoreInv' /\ [Next]_vars
    <3>1. UNCHANGED vars
      BY ZenonT(60), <2>2 DEF ArchiveSelect
    <3> QED BY ZenonT(60), <2>1, <2>2, <3>1, ArchiveSelectOK
  <2> QED BY ZenonT(60), <1>6, <2>1, <2>2, ArchiveCommitOK
<1>7. ASSUME NEW c \in Calls, Rollback(c) PROVE StoreInv' /\ [Next]_vars
  BY ZenonT(60), <1>7, RollbackOK
<1> QED BY ZenonT(60), <1>1, <1>2, <1>3, <1>4, <1>5, <1>6, <1>7, OperationOK, ReplayOK DEF StoreNext

\* The store starts empty and with no transaction open.
LEMMA StoreInitOK == StoreInit => StoreInv
<1> SUFFICES ASSUME StoreInit PROVE StoreInv
  BY ZenonT(60)
<1>1. IInv
  BY ZenonT(60), InitHolds DEF StoreInit
<1>2. DOMAIN call = Calls /\ \A c \in Calls : call[c] = Idle
  BY ZenonT(60) DEF StoreInit
<1>3. \A c \in Calls : CallOK(call[c], active, now, counter)
  BY ZenonT(60), <1>2, IdleOK
<1>4. LocksDisjoint
  BY <1>2 DEF LocksDisjoint, Idle
<1> QED BY ZenonT(60), <1>1, <1>2, <1>3, <1>4 DEF StoreInv

\* However the statements of Lease and archiveTask interleave with each other and
\* with every other operation, the MySQL store takes the contract's steps only,
\* and a lease call returns exactly the rows it leased, at most as many as asked.
THEOREM MySQLImplementsQueue == StoreSpec => MySQLKeepsContract
<1>1. StoreInit => Init
  BY ZenonT(60) DEF StoreInit
<1>2. StoreInv => ReturnsWhatItLeased
  BY ZenonT(60) DEF StoreInv, CallOK, ReturnsWhatItLeased, Calls
<1>3. [Next]_vars => [UNCHANGED vars \/ Next]_storeVars
  BY ZenonT(60)
<1> QED BY <1>1, <1>2, <1>3, StoreInitOK, StoreStepOK, PTL
        DEF StoreSpec, MySQLKeepsContract, ImplementsTaskQueue

\* What the contract promises holds of the MySQL store: nothing is lost, doubled
\* or taken back.
THEOREM MySQLKeepsPromises == StoreSpec => []NothingLostOrDoubled /\ NothingTakenBack
<1>1. [UNCHANGED vars \/ Next]_storeVars => [Next]_vars
  BY ZenonT(60) DEF storeVars
<1>2. ImplementsTaskQueue => Spec
  BY <1>1, PTL DEF ImplementsTaskQueue, Spec
<1> QED BY <1>2, MySQLImplementsQueue, NothingIsLostOrDoubled, NothingIsTakenBack, PTL
        DEF MySQLKeepsContract
=============================================================================
