---------------------------- MODULE RedisProofs ----------------------------
(***************************************************************************)
(* The Redis store keeps the queue's contract, for any number of tasks,    *)
(* classes, owners and batch sizes.  The argument: a script finds a task   *)
(* in the leased set under the expiry its hash has, or in the unleased set *)
(* when its hash has none or a yield's that was awoken; so what the sorted *)
(* sets say may be leased, may be leased.                                  *)
(***************************************************************************)
EXTENDS RedisStore, TaskQueueProofs, FiniteSetTheorems

\* Where the scripts look for task i: it waits for its expiry, or is ready.
Waiting(i) ==
  /\ i \in DOMAIN idxLeased /\ i \notin idxUnleased
  /\ idxLeased[i] \in Int /\ idxLeased[i] = active[i].expires
Ready(i) ==
  /\ i \in idxUnleased /\ i \notin DOMAIN idxLeased
  /\ \/ active[i].owner = NULL /\ active[i].expires = NULL
     \/ /\ active[i].owner = YieldOwner
        /\ active[i].expires \in Int /\ active[i].expires <= now - AwakenWindow

Placed ==
  /\ idxActive = DOMAIN active /\ idxUnleased \subseteq DOMAIN active
  /\ DOMAIN idxLeased \subseteq DOMAIN active
  /\ \A i \in DOMAIN active : Waiting(i) \/ Ready(i)

Failed == {i \in DOMAIN active : active[i].failures > 0}
Counted ==
  /\ counterFailed = Cardinality(Failed)
  /\ counterArchived = Cardinality(DOMAIN archive)

RedisInv == IInv /\ counter <= MaxTasks /\ Placed /\ Counted

-----------------------------------------------------------------------------
\* Every hash of the queue is a task's while no yield makes a ghost.
LEMMA AllNamed ==
  ASSUME IInv
  PROVE  /\ Named = DOMAIN active
         /\ {i \in DOMAIN active : HasFailed(i)} = Failed
         /\ \A i \in DOMAIN active : HasFailed(i) <=> i \in Failed
<1>1. \A i \in DOMAIN active : active[i].class # NULL
  BY RedisAssumption DEF IInv, TypeOK, ActiveRow
<1> QED BY ZenonT(60), <1>1 DEF Named, HasFailed, Failed

\* The invariant says what the store's documentation of its keys promises.
LEMMA InvAgrees == RedisInv => IndexesAgree /\ CountersExact
<1> SUFFICES ASSUME RedisInv PROVE IndexesAgree /\ CountersExact
  BY ZenonT(60)
<1>1. IndexesAgree
  BY ZenonT(60) DEF RedisInv, Placed, Waiting, Ready, IndexesAgree
<1>2. CountersExact
  BY ZenonT(60), AllNamed DEF RedisInv, Counted, CountersExact
<1> QED BY ZenonT(60), <1>1, <1>2

\* There are finitely many tasks in either table.
LEMMA TablesFinite ==
  ASSUME IInv
  PROVE  /\ IsFiniteSet(DOMAIN active) /\ IsFiniteSet(DOMAIN archive) /\ IsFiniteSet(Failed)
         /\ Cardinality(DOMAIN archive) \in Nat /\ Cardinality(Failed) \in Nat
<1>1. counter \in Int
  BY DEF IInv, TypeOK
<1>2. IsFiniteSet(1..counter)
  BY <1>1, FS_Interval
<1>3. DOMAIN active \subseteq 1..counter /\ DOMAIN archive \subseteq 1..counter
      /\ Failed \subseteq 1..counter
  BY ZenonT(60) DEF IInv, OneTable, Failed
<1> QED BY ZenonT(60), <1>2, <1>3, FS_Subset, FS_CardinalityType

-----------------------------------------------------------------------------
(* What a script does to the sets and the counters.                        *)

\* Tasks a step leaves alone stay where they are.
Untouched(i) ==
  /\ i \in DOMAIN active /\ i \in DOMAIN active' /\ active'[i] = active[i]
  /\ i \in idxUnleased' <=> i \in idxUnleased
  /\ i \in DOMAIN idxLeased' <=> i \in DOMAIN idxLeased
  /\ i \in DOMAIN idxLeased => idxLeased'[i] = idxLeased[i]

\* A task the script leaves alone is still where the scripts look for it.
LEMMA UntouchedPlaced ==
  ASSUME RedisInv, NEW i \in DOMAIN active, Untouched(i), now' \in Nat, now <= now'
  PROVE  Waiting(i)' \/ Ready(i)'
<1>1. now \in Nat /\ AwakenWindow \in Nat
  BY ZenonT(60), DurationsAssumption DEF RedisInv, IInv, TypeOK
<1>2. CASE Waiting(i)
  BY ZenonT(60), <1>2 DEF Waiting, Untouched
<1>3. CASE Ready(i)
  BY <1>1, <1>3 DEF Ready, Untouched
<1> QED BY ZenonT(60), <1>2, <1>3 DEF RedisInv, Placed

\* The sets agree again when every task is left alone or placed anew.
LEMMA PlacedAgain ==
  ASSUME RedisInv, now' \in Nat, now <= now',
         idxActive' = DOMAIN active', idxUnleased' \subseteq DOMAIN active',
         DOMAIN idxLeased' \subseteq DOMAIN active',
         \A i \in DOMAIN active' : Untouched(i) \/ Waiting(i)' \/ Ready(i)'
  PROVE  Placed'
<1>1. \A i \in DOMAIN active' : Untouched(i) => Waiting(i)' \/ Ready(i)'
  BY ZenonT(60), UntouchedPlaced DEF Untouched
<1> QED BY ZenonT(60), <1>1 DEF Placed

\* A task that leaves the queue is counted once, and no longer as a failed one.
LEMMA CountedArchived ==
  ASSUME RedisInv, NEW i \in DOMAIN active, CountArchived(i),
         DOMAIN archive' = DOMAIN archive \cup {i}, Failed' = Failed \ {i}
  PROVE  Counted'
<1>1. i \notin DOMAIN archive
  BY ZenonT(60) DEF RedisInv, IInv, OneTable
<1>2. Cardinality(DOMAIN archive') = Cardinality(DOMAIN archive) + 1
  <2>1. PICK A : A = DOMAIN archive
    BY ZenonT(60)
  <2> QED BY ZenonT(60), <1>1, <2>1, TablesFinite, FS_AddElement DEF RedisInv
<1>3. Cardinality(Failed \ {i}) = Cardinality(Failed) - (IF HasFailed(i) THEN 1 ELSE 0)
  <2>1. PICK F : F = Failed
    BY ZenonT(60)
  <2>2. Cardinality(F \ {i}) = IF i \in F THEN Cardinality(F) - 1 ELSE Cardinality(F)
    BY ZenonT(60), <2>1, TablesFinite, FS_RemoveElement DEF RedisInv
  <2>3. Cardinality(F) \in Nat
    BY ZenonT(60), <2>1, TablesFinite DEF RedisInv
  <2> QED BY <2>1, <2>2, <2>3, AllNamed DEF RedisInv
<1> QED BY ZenonT(60), <1>2, <1>3 DEF CountArchived, RedisInv, Counted

\* A task that fails is counted as failed once, however often it fails.
LEMMA CountedFailed ==
  ASSUME RedisInv, NEW i \in DOMAIN active, CountFailed(i),
         UNCHANGED archive, Failed' = Failed \cup {i}
  PROVE  Counted'
<1>1. Cardinality(Failed \cup {i}) = Cardinality(Failed) + (IF HasFailed(i) THEN 0 ELSE 1)
  <2>1. PICK F : F = Failed
    BY ZenonT(60)
  <2>2. Cardinality(F \cup {i}) = IF i \in F THEN Cardinality(F) ELSE Cardinality(F) + 1
    BY ZenonT(60), <2>1, TablesFinite, FS_AddElement DEF RedisInv
  <2>3. Cardinality(F) \in Nat
    BY ZenonT(60), <2>1, TablesFinite DEF RedisInv
  <2> QED BY <2>1, <2>2, <2>3, AllNamed DEF RedisInv
<1> QED BY ZenonT(60), <1>1 DEF CountFailed, RedisInv, Counted

\* The counters stay right when neither table gains a failure or an archived row.
LEMMA CountedSame ==
  ASSUME RedisInv, UNCHANGED <<archive, counts>>, Failed' = Failed
  PROVE  Counted'
BY ZenonT(60) DEF RedisInv, Counted, counts
-----------------------------------------------------------------------------
(* The scripts, one by one.                                                *)

\* What a step has to show for the sets and the counters.
Kept == Placed' /\ Counted' /\ counter' <= MaxTasks

\* A new task joins the set its delay calls for.
LEMMA InsertKept ==
  ASSUME RedisInv, NEW c \in Classes, NEW e \in Int \cup {NULL}, NEW from,
         Insert(c, e, from), IndexNew({counter + 1}, e), UNCHANGED <<now, archive, counts>>
  PROVE  Kept
<1>0. PICK id : id = counter + 1
  BY ZenonT(60)
<1>1. /\ counter \in Nat /\ id \notin DOMAIN active /\ counter' = id /\ counter < MaxTasks
      /\ now' \in Nat /\ now <= now' /\ MaxTasks \in Nat
  BY <1>0, BoundsAssumption DEF RedisInv, IInv, TypeOK, OneTable, Insert
<1>2. /\ DOMAIN active' = DOMAIN active \cup {id} /\ active'[id] = NewRow(c, e)
      /\ \A i \in DOMAIN active : active'[i] = active[i]
  BY ZenonT(60), <1>0, <1>1 DEF Insert, Put
<1>3. id \notin idxUnleased /\ id \notin DOMAIN idxLeased
  BY ZenonT(60), <1>1 DEF RedisInv, Placed
<1>4. Failed' = Failed
  BY <1>1, <1>2 DEF Failed, NewRow
<1>5. idxActive' = idxActive \cup {id}
  BY ZenonT(60), <1>0 DEF IndexNew
<1>8. counter' <= MaxTasks
  BY <1>0, <1>1
<1>9. Counted'
  BY ZenonT(60), <1>4, CountedSame DEF RedisInv
<1>6. CASE e = NULL
  <2>1. idxUnleased' = idxUnleased \cup {id} /\ UNCHANGED idxLeased
    BY ZenonT(60), <1>0, <1>6 DEF IndexNew
  <2>2. Ready(id)'
    BY <1>2, <1>3, <1>6, <2>1 DEF Ready, NewRow
  <2>3. \A i \in DOMAIN active : Untouched(i)
    BY ZenonT(60), <1>1, <1>2, <2>1 DEF Untouched
  <2>4. Placed'
    <3>1. \A i \in DOMAIN active' : Untouched(i) \/ Waiting(i)' \/ Ready(i)'
      BY ZenonT(60), <1>2, <2>2, <2>3
    <3>2. idxActive' = DOMAIN active' /\ idxUnleased' \subseteq DOMAIN active'
          /\ DOMAIN idxLeased' \subseteq DOMAIN active'
      BY ZenonT(60), <1>2, <1>5, <2>1 DEF RedisInv, Placed
    <3> QED BY ZenonT(60), <1>1, <3>1, <3>2, PlacedAgain
  <2> QED BY ZenonT(60), <1>8, <1>9, <2>4 DEF Kept
<1>7. CASE e # NULL
  <2>1. /\ DOMAIN idxLeased' = DOMAIN idxLeased \cup {id} /\ idxLeased'[id] = e
        /\ \A i \in DOMAIN idxLeased : idxLeased'[i] = idxLeased[i]
        /\ UNCHANGED idxUnleased
    BY ZenonT(60), <1>0, <1>3, <1>7 DEF IndexNew
  <2>2. Waiting(id)'
    BY <1>2, <1>3, <1>7, <2>1 DEF Waiting, NewRow
  <2>3. \A i \in DOMAIN active : Untouched(i)
    BY ZenonT(60), <1>1, <1>2, <2>1 DEF Untouched
  <2>4. Placed'
    <3>1. \A i \in DOMAIN active' : Untouched(i) \/ Waiting(i)' \/ Ready(i)'
      BY ZenonT(60), <1>2, <2>2, <2>3
    <3>2. idxActive' = DOMAIN active' /\ idxUnleased' \subseteq DOMAIN active'
          /\ DOMAIN idxLeased' \subseteq DOMAIN active'
      BY ZenonT(60), <1>2, <1>5, <2>1 DEF RedisInv, Placed
    <3> QED BY ZenonT(60), <1>1, <3>1, <3>2, PlacedAgain
  <2> QED BY ZenonT(60), <1>8, <1>9, <2>4 DEF Kept
<1> QED BY ZenonT(60), <1>6, <1>7

\* A task leaves the queue and every set.
LEMMA ArchiveKept ==
  ASSUME RedisInv, NEW i \in DOMAIN active, NEW result, RedisArchive(i, result)
  PROVE  Kept
<1>1. /\ DOMAIN active' = DOMAIN active \ {i}
      /\ \A j \in DOMAIN active \ {i} : active'[j] = active[j]
      /\ DOMAIN archive' = DOMAIN archive \cup {i} /\ UNCHANGED <<now, counter>>
  BY ZenonT(60) DEF RedisArchive, Archive, Put, Drop
<1>2. /\ idxActive' = idxActive \ {i} /\ idxUnleased' = idxUnleased \ {i}
      /\ DOMAIN idxLeased' = DOMAIN idxLeased \ {i}
      /\ \A j \in DOMAIN idxLeased' : idxLeased'[j] = idxLeased[j]
  BY ZenonT(60) DEF RedisArchive, IndexDropped, Drop
<1>3. \A j \in DOMAIN active' : Untouched(j)
  BY ZenonT(60), <1>1, <1>2 DEF Untouched
<1>4. Placed'
  <2>1. idxActive' = DOMAIN active' /\ idxUnleased' \subseteq DOMAIN active'
        /\ DOMAIN idxLeased' \subseteq DOMAIN active' /\ now' \in Nat /\ now <= now'
    BY <1>1, <1>2 DEF RedisInv, Placed, IInv, TypeOK
  <2> QED BY ZenonT(60), <1>3, <2>1, PlacedAgain
<1>5. Failed' = Failed \ {i}
  BY <1>1 DEF Failed
<1> QED BY ZenonT(60), <1>1, <1>4, <1>5, CountedArchived DEF RedisArchive, Kept, RedisInv

\* A task is set to wait: its row and its score get the same expiry.
LEMMA WaitingKept ==
  ASSUME RedisInv, NEW i \in DOMAIN active, NEW e \in Int, IndexWaiting(i, e), UNCHANGED now,
         DOMAIN active' = DOMAIN active, active'[i].expires = e,
         \A j \in DOMAIN active \ {i} : active'[j] = active[j]
  PROVE  Placed'
<1>1. /\ idxActive' = idxActive /\ idxUnleased' = idxUnleased \ {i}
      /\ DOMAIN idxLeased' = DOMAIN idxLeased \cup {i} /\ idxLeased'[i] = e
      /\ \A j \in DOMAIN idxLeased \ {i} : idxLeased'[j] = idxLeased[j]
  BY ZenonT(60) DEF IndexWaiting, Put
<1>2. Waiting(i)'
  BY ZenonT(60), <1>1 DEF Waiting
<1>3. \A j \in DOMAIN active' : Untouched(j) \/ Waiting(j)' \/ Ready(j)'
  BY ZenonT(60), <1>1, <1>2 DEF Untouched
<1>4. idxActive' = DOMAIN active' /\ idxUnleased' \subseteq DOMAIN active'
      /\ DOMAIN idxLeased' \subseteq DOMAIN active' /\ now' \in Nat /\ now <= now'
  BY <1>1 DEF RedisInv, Placed, IInv, TypeOK
<1> QED BY ZenonT(60), <1>3, <1>4, PlacedAgain

\* A retry counts the task as failed and sets it to wait.
LEMMA RetryKept ==
  ASSUME RedisInv, NEW i \in DOMAIN active, NEW w \in Waits, RedisRetry(i, w)
  PROVE  Kept
<1>1. now \in Nat /\ w \in Nat /\ now + w \in Int /\ active[i] \in ActiveRow
  BY DurationsAssumption DEF RedisInv, IInv, TypeOK
<1>2. /\ DOMAIN active' = DOMAIN active /\ \A j \in DOMAIN active \ {i} : active'[j] = active[j]
      /\ active'[i].expires = now + w /\ active'[i].failures = active[i].failures + 1
      /\ UNCHANGED <<now, counter, archive>>
  BY ZenonT(60), <1>1 DEF RedisRetry, Retry, ActiveRow, RedisInv, IInv, TypeOK
<1>3. Placed'
  BY ZenonT(60), <1>1, <1>2, WaitingKept DEF RedisRetry
<1>4. Failed' = Failed \cup {i}
  <2>1. active[i].failures \in Nat /\ active'[i].failures > 0
    BY <1>1, <1>2 DEF ActiveRow
  <2> QED BY ZenonT(60), <1>2, <2>1 DEF Failed
<1>5. Counted'
  BY ZenonT(60), <1>2, <1>4, CountedFailed DEF RedisRetry
<1> QED BY ZenonT(60), <1>2, <1>3, <1>5 DEF Kept, RedisInv

\* A yield sets the task to wait and leaves its failures alone.
LEMMA ParkKept ==
  ASSUME RedisInv, NEW i \in DOMAIN active, NEW d \in Waits, Park(i, d),
         IndexWaiting(i, now + MaxOf(d, YieldMin)), UNCHANGED counts
  PROVE  Kept
<1>1. now \in Nat /\ now + MaxOf(d, YieldMin) \in Int /\ active[i] \in ActiveRow
  BY DurationsAssumption DEF RedisInv, IInv, TypeOK, MaxOf
<1>2. /\ DOMAIN active' = DOMAIN active /\ \A j \in DOMAIN active \ {i} : active'[j] = active[j]
      /\ active'[i].expires = now + MaxOf(d, YieldMin) /\ active'[i].failures = active[i].failures
      /\ UNCHANGED <<now, counter, archive>>
  BY ZenonT(60), <1>1 DEF Park, ActiveRow, RedisInv, IInv, TypeOK
<1>3. Placed'
  BY ZenonT(60), <1>1, <1>2, WaitingKept
<1>4. Failed' = Failed
  BY ZenonT(60), <1>2 DEF Failed
<1> QED BY ZenonT(60), <1>2, <1>3, <1>4, CountedSame DEF Kept, RedisInv

\* Whoever holds a lease is in the leased set.
LEMMA HolderWaits ==
  ASSUME RedisInv, NEW i \in DOMAIN active, active[i].owner \in Owners
  PROVE  Waiting(i)
BY ZenonT(60), OwnersAssumption DEF RedisInv, Placed, Ready

\* A renewal moves the row's expiry and its score together.
LEMMA RenewKept ==
  ASSUME RedisInv, NEW i \in DOMAIN active, NEW d \in RenewDurations,
         RedisRenew(LeaseOf(active, i), d)
  PROVE  Kept
<1> DEFINE e == MaxOf(now + d, active[i].expires)
<1>1. Waiting(i)
  BY ZenonT(60), HolderWaits DEF RedisRenew, Renew, Holds, ValidLease, LeaseOf
<1>2. now \in Nat /\ e \in Int /\ active[i] \in ActiveRow
  BY <1>1, DurationsAssumption DEF RedisInv, IInv, TypeOK, MaxOf, Waiting
<1>3. /\ active' = [active EXCEPT ![i].expires = e] /\ UNCHANGED <<now, counter, archive, counts>>
      /\ idxLeased' = Put(idxLeased, i, e) /\ UNCHANGED <<idxActive, idxUnleased>>
  BY ZenonT(60) DEF RedisRenew, Renew, LeaseOf
<1> HIDE DEF e
<1>4. /\ DOMAIN active' = DOMAIN active /\ \A j \in DOMAIN active \ {i} : active'[j] = active[j]
      /\ active'[i].expires = e /\ active'[i].failures = active[i].failures
  BY ZenonT(60), <1>2, <1>3 DEF ActiveRow, RedisInv, IInv, TypeOK
<1>5. IndexWaiting(i, e)
  BY ZenonT(60), <1>1, <1>3 DEF IndexWaiting, Waiting
<1>6. Placed'
  BY ZenonT(60), <1>2, <1>3, <1>4, <1>5, WaitingKept
<1>7. Failed' = Failed
  BY ZenonT(60), <1>4 DEF Failed
<1> QED BY ZenonT(60), <1>3, <1>6, <1>7, CountedSame DEF Kept, RedisInv

\* The children join the unleased set, the parent leaves every set.
LEMMA FinalizeKept ==
  ASSUME RedisInv, NEW i \in DOMAIN active, NEW l, l.id = i, FinalizeFirst(l), RedisFinalize(l)
  PROVE  Kept
<1> DEFINE new == (counter + 1)..(counter + Children(i))
<1>1. /\ counter \in Nat /\ Children(i) \in Nat /\ now \in Nat
      /\ active[i].class \in Classes /\ MaxTasks \in Nat
  BY ZenonT(60), ClassesAssumption, BoundsAssumption DEF RedisInv, IInv, TypeOK, ActiveRow, Children
<1>2. new \cap DOMAIN active = {} /\ new \cap DOMAIN archive = {} /\ i \notin new
  BY <1>1 DEF RedisInv, IInv, OneTable
<1>3. /\ active' = [x \in (DOMAIN active \ {i}) \cup new |->
                     IF x \in new THEN NewRow(ChildClass, NULL) ELSE active[x]]
      /\ counter' = counter + Children(i) /\ counter + Children(i) <= MaxTasks
      /\ DOMAIN archive' = DOMAIN archive \cup {i} /\ UNCHANGED now
  BY ZenonT(60) DEF FinalizeFirst, Put
<1>4. /\ idxActive' = (idxActive \cup new) \ {i} /\ idxUnleased' = (idxUnleased \cup new) \ {i}
      /\ idxLeased' = Drop(idxLeased, i) /\ CountArchived(i)
  BY ZenonT(60) DEF RedisFinalize, FinalizeFirst, FinalizeReplay, Holds
<1> HIDE DEF new
<1>5. /\ DOMAIN active' = (DOMAIN active \ {i}) \cup new
      /\ \A x \in new : active'[x] = NewRow(ChildClass, NULL)
      /\ \A x \in DOMAIN active \ {i} : active'[x] = active[x]
  BY ZenonT(60), <1>2, <1>3
<1>6. /\ DOMAIN idxLeased' = DOMAIN idxLeased \ {i}
      /\ \A x \in DOMAIN idxLeased' : idxLeased'[x] = idxLeased[x]
  BY ZenonT(60), <1>4 DEF Drop
<1>7. \A x \in new : Ready(x)'
  BY <1>2, <1>4, <1>5, <1>6 DEF Ready, NewRow, RedisInv, Placed
<1>8. \A x \in DOMAIN active' \ new : Untouched(x)
  BY ZenonT(60), <1>4, <1>5, <1>6 DEF Untouched
<1>9. Placed'
  <2>1. idxActive' = DOMAIN active' /\ idxUnleased' \subseteq DOMAIN active'
        /\ DOMAIN idxLeased' \subseteq DOMAIN active' /\ now' \in Nat /\ now <= now'
    BY <1>1, <1>2, <1>3, <1>4, <1>5, <1>6 DEF RedisInv, Placed
  <2> QED BY ZenonT(60), <1>7, <1>8, <2>1, PlacedAgain
<1>10. Failed' = Failed \ {i}
  BY <1>2, <1>5 DEF Failed, NewRow
<1>11. Counted'
  BY ZenonT(60), <1>3, <1>4, <1>10, CountedArchived
<1> QED BY ZenonT(60), <1>3, <1>9, <1>11 DEF Kept

-----------------------------------------------------------------------------
(* Leasing.                                                                *)

\* A priority outweighs every id, so two tasks never share a score.
LEMMA ScoresDiffer ==
  ASSUME NEW K \in Nat, NEW p \in Nat, NEW q \in Nat, NEW i \in Nat, NEW j \in Nat,
         i < K, j < K, p * K + i = q * K + j
  PROVE  i = j
<1>1. CASE p = q
  BY <1>1
<1>2. ASSUME NEW a \in Nat, NEW b \in Nat, a < b PROVE b * K >= a * K + K
  <2>1. PICK d \in Nat : b = a + d /\ d >= 1
    BY <1>2
  <2>2. b * K = a * K + d * K /\ d * K >= K
    BY <2>1
  <2> QED BY <2>2
<1>3. CASE p < q
  <2>1. q * K >= p * K + K
    BY ZenonT(60), <1>2, <1>3
  <2>2. PICK x, y : x = p * K /\ y = q * K
    BY ZenonT(60)
  <2>3. x \in Int /\ y \in Int
    BY <2>2
  <2> QED BY <2>1, <2>2, <2>3
<1>4. CASE q < p
  <2>1. p * K >= q * K + K
    BY ZenonT(60), <1>2, <1>4
  <2>2. PICK x, y : x = p * K /\ y = q * K
    BY ZenonT(60)
  <2>3. x \in Int /\ y \in Int
    BY <2>2
  <2> QED BY <2>1, <2>2, <2>3
<1> QED BY <1>1, <1>3, <1>4

\* Of a set ordered by distinct scores, at most n members have fewer than n
\* below them: their ranks are distinct numbers under n.
LEMMA FewBelow ==
  ASSUME NEW S, IsFiniteSet(S), NEW n \in Nat, NEW s \in [S -> Int],
         \A i, j \in S : s[i] = s[j] => i = j
  PROVE  Cardinality({i \in S : Cardinality({j \in S : s[j] < s[i]}) < n}) <= n
<1> DEFINE Below(i) == {j \in S : s[j] < s[i]}
           L == {i \in S : Cardinality(Below(i)) < n}
<1>1. \A i \in S : Below(i) \subseteq S /\ i \notin Below(i)
  OBVIOUS
<1>2. \A i \in S : IsFiniteSet(Below(i)) /\ Cardinality(Below(i)) \in Nat
  <2> HIDE DEF Below
  <2> QED BY ZenonT(60), <1>1, FS_Subset, FS_CardinalityType
<1>3. ASSUME NEW i \in S, NEW k \in S, s[i] < s[k]
      PROVE  Cardinality(Below(i)) < Cardinality(Below(k))
  <2>1. Below(i) \cup {i} \subseteq Below(k)
    BY <1>3
  <2>2. PICK A, B : A = Below(i) /\ B = Below(k)
    BY ZenonT(60)
  <2> HIDE DEF Below
  <2>3. IsFiniteSet(A) /\ IsFiniteSet(B) /\ Cardinality(A) \in Nat /\ Cardinality(B) \in Nat
        /\ i \notin A /\ A \cup {i} \subseteq B
    BY ZenonT(60), <1>1, <1>2, <2>1, <2>2
  <2>4. Cardinality(A \cup {i}) = Cardinality(A) + 1
    BY ZenonT(60), <2>3, FS_AddElement
  <2>5. Cardinality(A \cup {i}) <= Cardinality(B)
    BY ZenonT(60), <2>3, FS_Subset
  <2> QED BY <2>2, <2>3, <2>4, <2>5
<1>4. L \subseteq S /\ IsFiniteSet(L) /\ Cardinality(L) \in Nat
  <2>1. L \subseteq S
    BY ZenonT(60)
  <2> HIDE DEF L
  <2> QED BY ZenonT(60), <2>1, FS_Subset, FS_CardinalityType
<1>5. IsFiniteSet(0..(n - 1)) /\ Cardinality(0..(n - 1)) = n
  BY FS_Interval
<1>6. ASSUME Cardinality(L) > n PROVE FALSE
  <2> DEFINE f == [i \in L |-> Cardinality(Below(i))]
  <2>1. f \in [L -> 0..(n - 1)]
    BY <1>2
  <2>2. \E x, y \in L : x # y /\ f[x] = f[y]
    <3>1. PICK T : T = 0..(n - 1)
      BY ZenonT(60)
    <3>2. f \in [L -> T] /\ IsFiniteSet(T) /\ Cardinality(T) < Cardinality(L)
      BY <1>4, <1>5, <1>6, <2>1, <3>1
    <3> HIDE DEF f, L
    <3> QED BY <1>4, <3>2, FS_PigeonHole
  <2>3. PICK x, y \in L : x # y /\ Cardinality(Below(x)) = Cardinality(Below(y))
    BY ZenonT(60), <2>2
  <2>4. x \in S /\ y \in S /\ (s[x] < s[y] \/ s[y] < s[x])
    BY <2>3
  <2> HIDE DEF Below
  <2>5. Cardinality(Below(x)) \in Nat /\ Cardinality(Below(y)) \in Nat
    BY ZenonT(60), <1>2, <2>4
  <2>6. Cardinality(Below(x)) < Cardinality(Below(y)) \/ Cardinality(Below(y)) < Cardinality(Below(x))
    BY ZenonT(60), <1>3, <2>4
  <2> QED BY <2>3, <2>5, <2>6
<1>7. Cardinality(L) <= n
  BY <1>4, <1>6
<1> QED BY ZenonT(60), <1>7

\* ZRANGEBYSCORE ... LIMIT: a script never takes more tasks than it asked for.
LEMMA LowestFew ==
  ASSUME RedisInv, NEW S \in SUBSET DOMAIN active, NEW n \in Nat
  PROVE  /\ Lowest(S, n) \subseteq S /\ IsFiniteSet(Lowest(S, n))
         /\ Cardinality(Lowest(S, n)) \in Nat /\ Cardinality(Lowest(S, n)) <= n
<1>1. IsFiniteSet(S)
  BY ZenonT(60), TablesFinite, FS_Subset DEF RedisInv
<1>2. ScoreScale \in Nat /\ MaxTasks \in Nat /\ MaxTasks < ScoreScale
  BY ZenonT(60), RedisAssumption, BoundsAssumption
<1>3. \A i \in S : i \in Nat /\ i < ScoreScale
  BY <1>2 DEF RedisInv, IInv, OneTable, TypeOK
<1>4. \A i \in S : /\ Priority[active[i].class] \in Nat
                   /\ Score(i) = Priority[active[i].class] * ScoreScale + i
  BY ZenonT(60), AllNamed, RedisAssumption DEF RedisInv, IInv, TypeOK, ActiveRow, Score
<1>5. \A i \in S : Score(i) \in Int
  BY <1>2, <1>3, <1>4
<1>6. \A i, j \in S : Score(i) = Score(j) => i = j
  <2> SUFFICES ASSUME NEW i \in S, NEW j \in S, Score(i) = Score(j) PROVE i = j
    BY ZenonT(60)
  <2>1. PICK p \in Nat, q \in Nat : /\ p = Priority[active[i].class]
                                    /\ q = Priority[active[j].class]
    BY ZenonT(60), <1>4
  <2>2. p * ScoreScale + i = q * ScoreScale + j
    BY ZenonT(60), <1>4, <2>1
  <2> QED BY ZenonT(60), <1>2, <1>3, <2>2, ScoresDiffer
<1>7. PICK s : s = [i \in S |-> Score(i)]
  BY ZenonT(60)
<1>8. s \in [S -> Int] /\ \A i, j \in S : s[i] = s[j] => i = j
  BY ZenonT(60), <1>5, <1>6, <1>7
<1>9. Lowest(S, n) = {i \in S : Cardinality({j \in S : s[j] < s[i]}) < n}
  <2>1. \A i \in S : {j \in S : s[j] < s[i]} = {j \in S : Score(j) < Score(i)}
    BY ZenonT(60), <1>7
  <2> QED BY ZenonT(60), <2>1 DEF Lowest
<1>10. Cardinality(Lowest(S, n)) <= n
  BY <1>1, <1>8, <1>9, FewBelow
<1>11. Lowest(S, n) \subseteq S
  BY ZenonT(60) DEF Lowest
<1> QED BY ZenonT(60), <1>1, <1>10, <1>11, FS_Subset, FS_CardinalityType

\* What leaseScript finds through the sets the contract lets it take, and the
\* tasks it takes move to the leased set with their new expiry.
LEMMA LeaseKept ==
  ASSUME RedisInv, NEW o \in Owners, NEW lag \in 0..MaxLag, NEW n \in Limits,
         NEW cs \in ClassFilters, RedisLease(o, now - lag, n, cs)
  PROVE  Kept /\ \E S \in SUBSET DOMAIN active : Lease(o, now - lag, S)
<1> DEFINE U == {i \in idxUnleased : ClassMatches(i, cs)}
           unleased == Lowest(U, n)
           t == now - lag
           O == {i \in Overdue(t) \ unleased : ClassMatches(i, cs)}
           m == n - Cardinality(unleased)
           overdue == Lowest(O, m)
           got == unleased \cup overdue
           e == t + LeaseDuration
<1>1. /\ now \in Nat /\ lag \in Nat /\ lag <= AwakenWindow /\ t \in Int /\ e \in Int
      /\ n \in Nat /\ n <= BatchLimit /\ AwakenWindow \in Nat /\ BatchLimit \in Nat
  BY RedisAssumption, DurationsAssumption DEF RedisInv, IInv, TypeOK
<1>2. U \in SUBSET DOMAIN active /\ U \subseteq idxUnleased
  BY ZenonT(60) DEF RedisInv, Placed
<1>3. /\ unleased \subseteq U /\ IsFiniteSet(unleased)
      /\ Cardinality(unleased) \in Nat /\ Cardinality(unleased) <= n
  <2> HIDE DEF U
  <2> QED BY ZenonT(60), <1>1, <1>2, LowestFew
<1>4. O \in SUBSET DOMAIN active /\ O \subseteq Overdue(t)
  BY ZenonT(60) DEF RedisInv, Placed, Overdue
<1>5. m \in Nat
  <2> HIDE DEF unleased
  <2> QED BY <1>1, <1>3
<1>6. /\ overdue \subseteq O /\ IsFiniteSet(overdue)
      /\ Cardinality(overdue) \in Nat /\ Cardinality(overdue) <= m
  <2> HIDE DEF O, m
  <2> QED BY ZenonT(60), <1>4, <1>5, LowestFew
<1>7. /\ got # {}
      /\ active' = [i \in DOMAIN active |->
                      IF i \in got THEN [active[i] EXCEPT !.owner = o, !.expires = e]
                      ELSE active[i]]
      /\ idxUnleased' = idxUnleased \ unleased
      /\ idxLeased' = [i \in DOMAIN idxLeased \cup got |-> IF i \in got THEN e ELSE idxLeased[i]]
      /\ UNCHANGED <<now, counter, archive, inbox, origin, acked, idxActive, counts>>
  BY ZenonT(60) DEF RedisLease
<1>8. PICK A, B : A = unleased /\ B = overdue
  BY ZenonT(60)
<1>9. /\ got = A \cup B /\ m = n - Cardinality(A) /\ A \subseteq idxUnleased
      /\ B \subseteq Overdue(t) /\ A \subseteq DOMAIN active /\ B \subseteq DOMAIN active
  <2> HIDE DEF U, O
  <2> QED BY ZenonT(60), <1>2, <1>3, <1>4, <1>6, <1>8
<1>10. /\ IsFiniteSet(A) /\ Cardinality(A) \in Nat
       /\ IsFiniteSet(B) /\ Cardinality(B) \in Nat /\ Cardinality(B) <= n - Cardinality(A)
  BY ZenonT(60), <1>3, <1>6, <1>8
<1>11. idxUnleased' = idxUnleased \ A
  BY ZenonT(60), <1>7, <1>8
<1> HIDE DEF U, O, m, unleased, overdue, got, e, t
<1>12. Cardinality(got) <= BatchLimit
  <2>1. Cardinality(A \cup B) = Cardinality(A) + Cardinality(B) - Cardinality(A \cap B)
    BY ZenonT(60), <1>10, FS_Union
  <2>2. Cardinality(A \cap B) \in Nat
    BY ZenonT(60), <1>10, FS_Subset, FS_CardinalityType
  <2> QED BY <1>1, <1>9, <1>10, <2>1, <2>2
<1>13. \A i \in A : Ready(i)
  BY ZenonT(60), <1>9 DEF RedisInv, Placed, Waiting
<1>14. \A i \in B : Waiting(i) /\ idxLeased[i] <= t
  BY ZenonT(60), <1>9 DEF RedisInv, Placed, Overdue, Ready
<1>15. \A i \in got : Available(active[i], t)
  <2>1. ASSUME NEW i \in A PROVE Available(active[i], t)
    BY <1>1, <1>13, <2>1, OwnersAssumption DEF Ready, Available, t
  <2>2. ASSUME NEW i \in B PROVE Available(active[i], t)
    BY ZenonT(60), <1>14, <2>2, OwnersAssumption DEF Waiting, Available
  <2> QED BY ZenonT(60), <1>9, <2>1, <2>2
<1>16. got \in SUBSET DOMAIN active
  BY ZenonT(60), <1>9
<1>17. Lease(o, t, got)
  BY ZenonT(60), <1>7, <1>12, <1>15 DEF Lease, e
<1>18. \A i \in DOMAIN active : active[i] \in ActiveRow
  BY ZenonT(60) DEF RedisInv, IInv, TypeOK
<1>19. /\ DOMAIN active' = DOMAIN active
       /\ \A i \in got : active'[i].expires = e /\ active'[i].failures = active[i].failures
       /\ \A i \in DOMAIN active \ got : active'[i] = active[i]
  BY ZenonT(60), <1>7, <1>16, <1>18 DEF ActiveRow
<1>20. /\ DOMAIN idxLeased' = DOMAIN idxLeased \cup got
       /\ \A i \in got : idxLeased'[i] = e
       /\ \A i \in DOMAIN idxLeased \ got : idxLeased'[i] = idxLeased[i]
  BY ZenonT(60), <1>7
<1>21. \A i \in got : Waiting(i)'
  <2>1. \A i \in got : i \notin idxUnleased'
    BY ZenonT(60), <1>9, <1>11, <1>14 DEF Waiting
  <2> QED BY ZenonT(60), <1>1, <1>19, <1>20, <2>1 DEF Waiting
<1>22. \A i \in DOMAIN active' \ got : Untouched(i)
  BY <1>9, <1>11, <1>19, <1>20 DEF Untouched
<1>23. Placed'
  <2>1. idxActive' = DOMAIN active' /\ idxUnleased' \subseteq DOMAIN active'
        /\ DOMAIN idxLeased' \subseteq DOMAIN active' /\ now' \in Nat /\ now <= now'
    <3>1. idxActive' = DOMAIN active' /\ idxUnleased' \subseteq DOMAIN active'
      BY ZenonT(60), <1>7, <1>11, <1>19 DEF RedisInv, Placed
    <3>2. DOMAIN idxLeased' \subseteq DOMAIN active'
      BY <1>16, <1>19, <1>20 DEF RedisInv, Placed
    <3>3. now' = now
      BY ZenonT(60), <1>7
    <3> QED BY <1>1, <3>1, <3>2, <3>3
  <2>2. \A i \in DOMAIN active' : Untouched(i) \/ Waiting(i)' \/ Ready(i)'
    BY ZenonT(60), <1>21, <1>22
  <2> QED BY ZenonT(60), <2>1, <2>2, PlacedAgain
<1>24. Failed' = Failed
  BY ZenonT(60), <1>16, <1>19 DEF Failed
<1>25. Kept
  <2>1. Counted'
    BY ZenonT(60), <1>7, <1>24, CountedSame
  <2> QED BY ZenonT(60), <1>7, <1>23, <2>1 DEF Kept, RedisInv
<1> QED BY ZenonT(60), <1>16, <1>17, <1>25 DEF t

\* awakenScript wakes the tasks the contract says, and they join the ready ones.
LEMMA AwakenKept ==
  ASSUME RedisInv, NEW S \in SUBSET DOMAIN active, RedisAwaken(S)
  PROVE  Kept /\ Awaken(S)
<1> DEFINE e == now - AwakenWindow
           woken == {i \in S : /\ active[i].owner = YieldOwner
                               /\ active[i].expires > e
                               /\ active[i].failures = 0}
<1>1. now \in Nat /\ AwakenWindow \in Nat /\ e \in Int
  BY DurationsAssumption DEF RedisInv, IInv, TypeOK
<1>2. S \cap Named = S
  BY ZenonT(60), AllNamed DEF RedisInv
<1>3. /\ active' = [i \in DOMAIN active |->
                      IF i \in woken THEN [active[i] EXCEPT !.expires = e] ELSE active[i]]
      /\ idxLeased' = [i \in DOMAIN idxLeased \ woken |-> idxLeased[i]]
      /\ idxUnleased' = idxUnleased \cup woken
      /\ UNCHANGED <<now, counter, archive, inbox, origin, acked, idxActive, counts>>
  BY ZenonT(60), <1>2 DEF RedisAwaken
<1>4. Awaken(S)
  BY ZenonT(60), <1>3 DEF Awaken
<1>5. \A i \in woken : i \in DOMAIN active /\ active[i].owner = YieldOwner
  BY ZenonT(60)
<1> HIDE DEF woken, e
<1>6. \A i \in DOMAIN active : active[i] \in ActiveRow
  BY ZenonT(60) DEF RedisInv, IInv, TypeOK
<1>7. /\ DOMAIN active' = DOMAIN active
      /\ \A i \in woken : /\ active'[i].expires = e /\ active'[i].owner = YieldOwner
                          /\ active'[i].failures = active[i].failures
      /\ \A i \in DOMAIN active \ woken : active'[i] = active[i]
  BY ZenonT(60), <1>3, <1>5, <1>6 DEF ActiveRow
<1>8. \A i \in woken : Ready(i)'
  BY <1>1, <1>3, <1>7 DEF Ready, e
<1>9. \A i \in DOMAIN active' \ woken : Untouched(i)
  BY ZenonT(60), <1>3, <1>7 DEF Untouched
<1>10. Placed'
  <2>1. idxActive' = DOMAIN active' /\ idxUnleased' \subseteq DOMAIN active'
        /\ DOMAIN idxLeased' \subseteq DOMAIN active' /\ now' \in Nat /\ now <= now'
    BY <1>1, <1>3, <1>5, <1>7 DEF RedisInv, Placed
  <2> QED BY ZenonT(60), <1>8, <1>9, <2>1, PlacedAgain
<1>11. Failed' = Failed
  BY ZenonT(60), <1>5, <1>7 DEF Failed
<1>12. Counted'
  BY ZenonT(60), <1>3, <1>11, CountedSame
<1> QED BY ZenonT(60), <1>3, <1>4, <1>10, <1>12 DEF Kept, RedisInv

\* A yield that names a task of the queue parks it.
LEMMA YieldParks ==
  ASSUME RedisInv, NEW i \in DOMAIN active, NEW d \in Waits, RedisYield(i, d)
  PROVE  Kept /\ Yield(i, d)
<1> DEFINE e == now + MaxOf(d, YieldMin)
<1>1. active' = Put(active, i, [active[i] EXCEPT !.owner = YieldOwner, !.expires = e])
  BY ZenonT(60) DEF RedisYield
<1>2. active \in [DOMAIN active -> ActiveRow]
  BY ZenonT(60) DEF RedisInv, IInv, TypeOK
<1> HIDE DEF e
<1>3. active' = [active EXCEPT ![i].owner = YieldOwner, ![i].expires = e]
  BY ZenonT(60), <1>1, <1>2 DEF Put, ActiveRow
<1>4. Park(i, d)
  BY ZenonT(60), <1>3 DEF Park, RedisYield, e
<1> QED BY ZenonT(60), <1>4, ParkKept DEF RedisYield, Yield

\* Time passes.
LEMMA TickKept ==
  ASSUME RedisInv, Tick, UNCHANGED <<index, counts>>
  PROVE  Kept
<1>1. now \in Nat /\ now' \in Nat /\ now <= now' /\ UNCHANGED <<active, archive, counter>>
  BY DEF Tick, Advance, RedisInv, IInv, TypeOK
<1>2. \A i \in DOMAIN active' : Untouched(i)
  BY ZenonT(60), <1>1 DEF Untouched, index
<1>3. Placed'
  <2>1. idxActive' = DOMAIN active' /\ idxUnleased' \subseteq DOMAIN active'
        /\ DOMAIN idxLeased' \subseteq DOMAIN active'
    BY ZenonT(60), <1>1 DEF index, RedisInv, Placed
  <2> QED BY ZenonT(60), <1>1, <1>2, <2>1, PlacedAgain
<1>4. Failed' = Failed
  BY ZenonT(60), <1>1 DEF Failed
<1> QED BY ZenonT(60), <1>1, <1>3, <1>4, CountedSame DEF Kept, RedisInv

-----------------------------------------------------------------------------
(***************************************************************************)
(* The refinement.  A step on the hashes is a step of the contract; the    *)
(* sets and the counters follow it.                                        *)
(***************************************************************************)
\* What every script shows.
Allowed == Kept /\ Next

\* The scripts of the legacy routes, which name a task of the queue.
LEMMA StepOfTask ==
  ASSUME RedisInv, NEW i \in DOMAIN active,
         \/ RedisComplete(i)
         \/ RedisArchive(i, "cancelled")
         \/ \E permanent \in BOOLEAN, w \in Waits : RedisFail(i, permanent, w)
  PROVE  Allowed
<1>1. CASE RedisComplete(i)
  <2>1. Kept
    BY ZenonT(60), <1>1, ArchiveKept DEF RedisComplete
  <2>2. Complete(i)
    BY ZenonT(60), <1>1 DEF RedisComplete, RedisArchive, Complete
  <2> QED BY ZenonT(60), <2>1, <2>2 DEF Allowed, Next
<1>2. CASE RedisArchive(i, "cancelled")
  <2>1. Kept
    BY ZenonT(60), <1>2, ArchiveKept
  <2>2. Cancel(i)
    BY ZenonT(60), <1>2 DEF RedisArchive, Cancel
  <2> QED BY ZenonT(60), <2>1, <2>2 DEF Allowed, Next
<1>3. ASSUME NEW permanent \in BOOLEAN, NEW w \in Waits, RedisFail(i, permanent, w)
      PROVE  Allowed
  <2>1. Kept
    <3>1. CASE permanent
      BY ZenonT(60), <1>3, <3>1, ArchiveKept DEF RedisFail
    <3>2. CASE ~permanent
      BY ZenonT(60), <1>3, <3>2, RetryKept DEF RedisFail
    <3> QED BY ZenonT(60), <3>1, <3>2
  <2>2. Fail(i, permanent, w)
    BY ZenonT(60), <1>3 DEF RedisFail, RedisArchive, RedisRetry, Fail
  <2> QED BY ZenonT(60), <2>1, <2>2 DEF Allowed, Next
<1> QED BY ZenonT(60), <1>1, <1>2, <1>3

\* The scripts of the /v2 routes, which name a lease of the queue.
LEMMA StepOfLease ==
  ASSUME RedisInv, NEW i \in DOMAIN active,
         \/ \E d \in RenewDurations : RedisRenew(LeaseOf(active, i), d)
         \/ \E outcome \in {"failure", "retry", "yield"}, w \in Waits :
               RedisResolve(LeaseOf(active, i), outcome, w)
         \/ RedisFinalize(LeaseOf(active, i))
  PROVE  Allowed
<1>0. LeaseOf(active, i).id = i
  BY ZenonT(60) DEF LeaseOf
<1>1. ASSUME NEW d \in RenewDurations, RedisRenew(LeaseOf(active, i), d)
      PROVE  Allowed
  <2>1. Renew(LeaseOf(active, i), d)
    BY ZenonT(60), <1>1 DEF RedisRenew
  <2> QED BY ZenonT(60), <1>1, <2>1, RenewKept DEF Allowed, Next
<1>2. ASSUME NEW outcome \in {"failure", "retry", "yield"}, NEW w \in Waits,
             RedisResolve(LeaseOf(active, i), outcome, w)
      PROVE  Allowed
  <2>1. Kept
    BY <1>0, <1>2, ArchiveKept, RetryKept, ParkKept DEF RedisResolve
  <2>2. Resolve(LeaseOf(active, i), outcome, w)
    BY ZenonT(60), <1>2 DEF RedisResolve, RedisArchive, RedisRetry, Resolve
  <2> QED BY ZenonT(60), <2>1, <2>2 DEF Allowed, Next
<1>3. ASSUME RedisFinalize(LeaseOf(active, i)) PROVE Allowed
  <2>1. FinalizeFirst(LeaseOf(active, i))
    BY ZenonT(60), <1>0, <1>3 DEF RedisFinalize, FinalizeReplay
  <2>2. PICK l : l = LeaseOf(active, i)
    BY ZenonT(60)
  <2>3. Kept
    BY <1>0, <1>3, <2>1, <2>2, FinalizeKept
  <2>4. Finalize(LeaseOf(active, i))
    BY ZenonT(60), <2>1 DEF Finalize
  <2> QED BY ZenonT(60), <2>3, <2>4 DEF Allowed, Next
<1> QED BY ZenonT(60), <1>1, <1>2, <1>3

\* A finalization repeated after its task left the queue is answered from the
\* receipt.
LEMMA StepOfReceipt ==
  ASSUME RedisInv, NEW i \in DOMAIN archive, RedisFinalize(LeaseOf(archive, i))
  PROVE  Allowed
<1>0. LeaseOf(archive, i).id = i /\ i \notin DOMAIN active
  BY ZenonT(60) DEF LeaseOf, RedisInv, IInv, OneTable
<1>1. FinalizeReplay(LeaseOf(archive, i)) /\ UNCHANGED <<index, counts>>
  BY ZenonT(60), <1>0 DEF RedisFinalize, FinalizeFirst, Holds
<1>2. Kept
  BY ZenonT(60), <1>1 DEF FinalizeReplay, index, counts, Kept, RedisInv, Placed, Counted, Failed,
              Waiting, Ready
<1>3. Finalize(LeaseOf(archive, i))
  BY ZenonT(60), <1>1 DEF Finalize
<1> QED BY ZenonT(60), <1>2, <1>3 DEF Allowed, Next

\* Every script is allowed, while no yield is late.
LEMMA StepAllowed ==
  ASSUME ~LateYields, RedisInv, RedisNext
  PROVE  Allowed
<1>1. CASE Tick /\ UNCHANGED <<index, counts>>
  BY ZenonT(60), <1>1, TickKept DEF Allowed, Next
<1>2. ASSUME NEW c \in Classes, NEW w \in Delays,
             RedisEnqueue(c, IF w = NULL THEN NULL ELSE now + w)
      PROVE  Allowed
  <2>1. PICK e : e = IF w = NULL THEN NULL ELSE now + w
    BY ZenonT(60)
  <2>2. e \in Int \cup {NULL}
    BY <2>1, DurationsAssumption DEF RedisInv, IInv, TypeOK
  <2>3. Enqueue(c, e) /\ IndexNew({counter + 1}, e) /\ UNCHANGED counts
    BY ZenonT(60), <1>2, <2>1 DEF RedisEnqueue
  <2>4. Kept
    BY ZenonT(60), <2>2, <2>3, InsertKept DEF Enqueue
  <2> QED BY ZenonT(60), <2>1, <2>3, <2>4 DEF Allowed, Next
<1>3. ASSUME NEW ev \in Events, NEW p \in Payloads, NEW c \in Classes, RedisEnqueueEvent(ev, p, c)
      PROVE  Allowed
  <2>1. EnqueueEvent(ev, p, c)
    BY ZenonT(60), <1>3 DEF RedisEnqueueEvent
  <2>2. Kept
    BY ZenonT(60), <1>3, InsertKept DEF RedisEnqueueEvent, EnqueueEvent
  <2> QED BY ZenonT(60), <2>1, <2>2 DEF Allowed, Next
<1>4. ASSUME NEW o \in Owners, NEW lag \in 0..MaxLag, NEW n \in Limits, NEW cs \in ClassFilters,
             RedisLease(o, now - lag, n, cs)
      PROVE  Allowed
  <2>1. Kept /\ \E S \in SUBSET DOMAIN active : Lease(o, now - lag, S)
    BY ZenonT(60), <1>4, LeaseKept
  <2> QED BY ZenonT(60), <2>1 DEF Allowed, Next
<1>5. ASSUME NEW S \in SUBSET DOMAIN active, RedisAwaken(S) PROVE Allowed
  <2>1. Kept /\ Awaken(S)
    BY ZenonT(60), <1>5, AwakenKept
  <2> QED BY ZenonT(60), <2>1 DEF Allowed, Next
<1>6. ASSUME NEW i \in DOMAIN active, NEW d \in Waits, RedisYield(i, d) PROVE Allowed
  <2>1. Kept /\ Yield(i, d)
    BY ZenonT(60), <1>6, YieldParks
  <2> QED BY ZenonT(60), <2>1 DEF Allowed, Next
<1>7. Named = DOMAIN active
  BY ZenonT(60), AllNamed DEF RedisInv
<1>8. ASSUME NEW i \in DOMAIN active,
             \/ RedisComplete(i) \/ RedisArchive(i, "cancelled")
             \/ \E permanent \in BOOLEAN, w \in Waits : RedisFail(i, permanent, w)
      PROVE  Allowed
  BY ZenonT(60), <1>8, StepOfTask
<1>9. ASSUME NEW i \in Named,
             \/ \E d \in RenewDurations : RedisRenew(LeaseOf(active, i), d)
             \/ \E outcome \in {"failure", "retry", "yield"}, w \in Waits :
                  RedisResolve(LeaseOf(active, i), outcome, w)
             \/ RedisFinalize(LeaseOf(active, i))
      PROVE  Allowed
  BY ZenonT(60), <1>7, <1>9, StepOfLease
<1>10. ASSUME NEW i \in DOMAIN archive, RedisFinalize(LeaseOf(archive, i)) PROVE Allowed
  BY ZenonT(60), <1>10, StepOfReceipt
<1> QED BY ZenonT(60), <1>1, <1>2, <1>3, <1>4, <1>5, <1>6, <1>8, <1>9, <1>10 DEF RedisNext

\* The invariant is inductive.
LEMMA RedisKeepsInv ==
  ASSUME ~LateYields PROVE RedisInv /\ [RedisNext]_redisVars => RedisInv' /\ [Next]_vars
<1> SUFFICES ASSUME RedisInv, [RedisNext]_redisVars PROVE RedisInv' /\ [Next]_vars
  BY ZenonT(60)
<1>1. CASE RedisNext
  <2>1. Kept /\ Next
    BY ZenonT(60), <1>1, StepAllowed DEF Allowed
  <2>2. IInv'
    BY ZenonT(60), <2>1, NextKeeps DEF RedisInv
  <2> QED BY ZenonT(60), <2>1, <2>2 DEF Kept, RedisInv
<1>2. CASE UNCHANGED redisVars
  <2>1. UNCHANGED <<vars, index, counts>>
    BY ZenonT(60), <1>2 DEF redisVars
  <2>2. IInv'
    BY ZenonT(60), <2>1, NextKeeps DEF RedisInv
  <2>3. Kept
    BY ZenonT(60), <2>1 DEF vars, index, counts, Kept, RedisInv, Placed, Counted, Failed, Waiting, Ready
  <2> QED BY ZenonT(60), <2>1, <2>2, <2>3 DEF Kept, RedisInv
<1> QED BY ZenonT(60), <1>1, <1>2

\* The invariant holds of the empty store.
LEMMA RedisInitHolds == RedisInit => RedisInv
<1> SUFFICES ASSUME RedisInit PROVE RedisInv
  BY ZenonT(60)
<1>1. IInv
  BY ZenonT(60), InitHolds DEF RedisInit
<1>2. DOMAIN active = {} /\ DOMAIN archive = {} /\ counter = 0 /\ DOMAIN idxLeased = {}
  BY ZenonT(60) DEF RedisInit, Init, Empty
<1>3. Placed
  BY ZenonT(60), <1>2 DEF RedisInit, Placed
<1>4. Counted
  BY ZenonT(60), <1>2, FS_EmptySet DEF RedisInit, Counted, Failed
<1> QED BY <1>1, <1>2, <1>3, <1>4, BoundsAssumption DEF RedisInv

\* However many clients call its scripts, in whatever order and with whatever
\* batch sizes, class filters and clock lags, the Redis store takes steps of the
\* queue's contract only, and its three sorted sets and two counters say exactly
\* what the hashes hold, as long as no yield names a task that has left the
\* queue.
THEOREM RedisImplementsQueue ==
  ASSUME ~LateYields PROVE RedisSpec => RedisKeepsContract
<1>1. RedisInit => RedisInv /\ Init
  BY ZenonT(60), RedisInitHolds DEF RedisInit
<1>2. RedisInv /\ [RedisNext]_redisVars => RedisInv' /\ [Next]_vars
  BY ZenonT(60), RedisKeepsInv
<1>3. RedisInv => IndexesAgree /\ CountersExact
  BY ZenonT(60), InvAgrees
<1> QED BY <1>1, <1>2, <1>3, PTL
        DEF RedisSpec, RedisKeepsContract, RedisImplementsTaskQueue, Spec

\* What the contract promises holds of the Redis store: nothing is lost, doubled
\* or taken back.
THEOREM RedisKeepsPromises ==
  ASSUME ~LateYields PROVE RedisSpec => []NothingLostOrDoubled /\ NothingTakenBack
BY RedisImplementsQueue, NothingIsLostOrDoubled, NothingIsTakenBack, PTL
   DEF RedisKeepsContract, RedisImplementsTaskQueue
=============================================================================
