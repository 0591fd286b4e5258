--------------------------- MODULE TaskQueueProofs ---------------------------
(***************************************************************************)
(* Proofs, for every value of the constants, that the queue's contract     *)
(* keeps its promises.  The inductive invariant adds three facts to the    *)
(* properties: the history covers exactly the ids handed out, an event's   *)
(* task and its receipt name each other, and (where no legacy client       *)
(* completes tasks) a success has all its children.                        *)
(***************************************************************************)
EXTENDS TaskQueue, TLAPS

OriginCovers == DOMAIN origin = 1..counter

EventsMatch ==
  /\ \A ev \in DOMAIN inbox :
       inbox[ev].task \in DOMAIN origin /\ origin[inbox[ev].task].event = ev
  /\ \A i \in DOMAIN origin : origin[i].event # NULL =>
       origin[i].event \in DOMAIN inbox /\ inbox[origin[i].event].task = i

IInv == TypeOK /\ OneTable /\ OriginCovers /\ ChildrenOnce /\ EventsMatch

-----------------------------------------------------------------------------
\* The row an insertion adds is a row of the table.
LEMMA NewRowType ==
  ASSUME NEW c \in Classes, NEW e \in Int \cup {NULL}
  PROVE  NewRow(c, e) \in ActiveRow
BY ZenonT(60) DEF NewRow, ActiveRow

\* Insert keeps the parts of the invariant that speak of ids.
LEMMA InsertKeeps ==
  ASSUME TypeOK, OneTable, OriginCovers,
         NEW c \in Classes, NEW e \in Int \cup {NULL},
         NEW from \in [parent: Nat, slot: Nat, event: Events \cup {NULL}],
         Insert(c, e, from), UNCHANGED archive
  PROVE  /\ counter' = counter + 1
         /\ counter' \in Nat
         /\ active' \in [DOMAIN active' -> ActiveRow]
         /\ origin' \in [DOMAIN origin' ->
                          [parent: Nat, slot: Nat, event: Events \cup {NULL}]]
         /\ OneTable' /\ OriginCovers'
         /\ counter + 1 \notin DOMAIN origin
         /\ origin' = Put(origin, counter + 1, from)
<1>1. counter \in Nat /\ counter' = counter + 1
  BY ZenonT(60) DEF Insert, TypeOK
<1>2. /\ active' = Put(active, counter + 1, NewRow(c, e))
      /\ origin' = Put(origin, counter + 1, from)
  BY ZenonT(60) DEF Insert
<1>3. /\ active' \in [DOMAIN active' -> ActiveRow]
      /\ DOMAIN active' = DOMAIN active \cup {counter + 1}
  <2>1. NewRow(c, e) \in ActiveRow
    BY ZenonT(60), NewRowType
  <2> QED
    BY ZenonT(60), <1>2, <2>1 DEF TypeOK, Put
<1>4. /\ origin' \in [DOMAIN origin' ->
                       [parent: Nat, slot: Nat, event: Events \cup {NULL}]]
      /\ DOMAIN origin' = DOMAIN origin \cup {counter + 1}
  BY ZenonT(60), <1>2 DEF TypeOK, Put
<1>5. 1..(counter + 1) = 1..counter \cup {counter + 1} /\ counter + 1 \notin 1..counter
  BY <1>1
<1>6. OneTable'
  BY <1>1, <1>3, <1>5 DEF OneTable
<1>7. OriginCovers'
  BY ZenonT(60), <1>1, <1>4, <1>5 DEF OriginCovers
<1> QED
  BY <1>1, <1>2, <1>3, <1>4, <1>5, <1>6, <1>7 DEF OriginCovers

\* A step that only rewrites rows in place keeps the invariant.
LEMMA RowsOnly ==
  ASSUME IInv, now' \in Nat, active' \in [DOMAIN active -> ActiveRow],
         UNCHANGED <<counter, archive, inbox, origin, acked>>
  PROVE  IInv'
<1>1. DOMAIN active' = DOMAIN active
  BY ZenonT(60)
<1>2. TypeOK'
  BY ZenonT(60), <1>1 DEF IInv, TypeOK
<1>3. OneTable' /\ OriginCovers'
  BY ZenonT(60), <1>1 DEF IInv, OneTable, OriginCovers
<1>4. ChildrenOnce' /\ EventsMatch'
  BY ZenonT(60) DEF IInv, ChildrenOnce, EventsMatch
<1> QED
  BY ZenonT(60), <1>2, <1>3, <1>4 DEF IInv

\* Retry and Park rewrite one row.
LEMMA RetryKeeps ==
  ASSUME IInv, NEW i \in DOMAIN active, NEW w \in Waits, Retry(i, w)
  PROVE  IInv'
<1>1. now + w \in Int /\ now' \in Nat
  BY DurationsAssumption DEF IInv, TypeOK, Retry
<1>2. active' \in [DOMAIN active -> ActiveRow]
  BY <1>1 DEF IInv, TypeOK, ActiveRow, Retry
<1> QED
  BY ZenonT(60), <1>1, <1>2, RowsOnly DEF Retry

\* A yield rewrites one row.
LEMMA ParkKeeps ==
  ASSUME IInv, NEW i \in DOMAIN active, NEW d \in Waits, Park(i, d)
  PROVE  IInv'
<1>1. now + MaxOf(d, YieldMin) \in Int /\ now' \in Nat
  BY DurationsAssumption DEF IInv, TypeOK, Park, MaxOf
<1>2. active' \in [DOMAIN active -> ActiveRow]
  BY <1>1 DEF IInv, TypeOK, ActiveRow, Park
<1> QED
  BY ZenonT(60), <1>1, <1>2, RowsOnly DEF Park

\* Archiving moves one row: the id leaves one table for the other, and no
\* child of it existed before.
LEMMA ArchiveKeeps ==
  ASSUME IInv, NEW i \in DOMAIN active,
         NEW result \in {"success", "completed", "failure", "cancelled"}, Archive(i, result)
  PROVE  IInv'
<1> USE DEF Archive
<1>1. /\ DOMAIN active' = DOMAIN active \ {i}
      /\ DOMAIN archive' = DOMAIN archive \cup {i}
      /\ i \notin DOMAIN archive
      /\ \A j \in DOMAIN archive : archive'[j] = archive[j]
  BY ZenonT(60) DEF Put, Drop, IInv, OneTable
<1>2. Archived(active[i], result) \in ArchiveRow
  BY ZenonT(60) DEF Archived, ArchiveRow, ActiveRow, IInv, TypeOK
<1>3. TypeOK'
  <2>1. active' \in [DOMAIN active' -> ActiveRow]
    BY ZenonT(60) DEF Drop, IInv, TypeOK
  <2>2. archive' \in [DOMAIN archive' -> ArchiveRow]
    BY ZenonT(60), <1>2 DEF Put, IInv, TypeOK
  <2> QED
    BY ZenonT(60), <2>1, <2>2 DEF IInv, TypeOK
<1>4. OneTable'
  BY ZenonT(60), <1>1 DEF IInv, OneTable
<1>5. OriginCovers' /\ EventsMatch'
  BY ZenonT(60) DEF IInv, OriginCovers, EventsMatch
<1>6. ChildrenOnce'
  BY ZenonT(60), <1>1 DEF IInv, ChildrenOnce
<1> QED
  BY ZenonT(60), <1>3, <1>4, <1>5, <1>6 DEF IInv

\* The two ways a task is created.
LEMMA EnqueueKeeps ==
  ASSUME IInv, NEW c \in Classes, NEW e \in Int \cup {NULL}, Enqueue(c, e)
  PROVE  IInv'
<1> USE DEF Enqueue
<1>1. Root \in [parent: Nat, slot: Nat, event: Events \cup {NULL}]
  BY ZenonT(60) DEF Root
<1>2. /\ counter' \in Nat
      /\ active' \in [DOMAIN active' -> ActiveRow]
      /\ origin' \in [DOMAIN origin' ->
                       [parent: Nat, slot: Nat, event: Events \cup {NULL}]]
      /\ OneTable' /\ OriginCovers'
      /\ counter + 1 \notin DOMAIN origin
      /\ origin' = Put(origin, counter + 1, Root)
  BY ZenonT(60), <1>1, InsertKeeps DEF IInv
<1>3. TypeOK'
  BY ZenonT(60), <1>2 DEF IInv, TypeOK
<1>4. /\ \A j \in DOMAIN origin : origin'[j] = origin[j]
      /\ DOMAIN origin' = DOMAIN origin \cup {counter + 1}
      /\ origin'[counter + 1].parent = 0 /\ origin'[counter + 1].event = NULL
  BY ZenonT(60), <1>2 DEF Put, Root
<1>5. ChildrenOnce'
  BY ZenonT(60), <1>4 DEF IInv, ChildrenOnce
<1>6. EventsMatch'
  BY <1>2, <1>4 DEF IInv, EventsMatch
<1> QED
  BY ZenonT(60), <1>2, <1>3, <1>5, <1>6 DEF IInv

\* A task created with a receipt: the receipt names the new task, and no other
\* task carries the event.
LEMMA EnqueueEventKeeps ==
  ASSUME IInv, NEW ev \in Events, NEW p \in Payloads, NEW c \in Classes,
         EnqueueEvent(ev, p, c)
  PROVE  IInv'
<1> USE DEF EnqueueEvent
<1> DEFINE from == [Root EXCEPT !.event = ev]
<1>1. from \in [parent: Nat, slot: Nat, event: Events \cup {NULL}]
  BY ZenonT(60) DEF Root
<1>2. /\ counter' \in Nat
      /\ active' \in [DOMAIN active' -> ActiveRow]
      /\ origin' \in [DOMAIN origin' ->
                       [parent: Nat, slot: Nat, event: Events \cup {NULL}]]
      /\ OneTable' /\ OriginCovers'
      /\ counter + 1 \notin DOMAIN origin
      /\ origin' = Put(origin, counter + 1, from)
  BY ZenonT(60), <1>1, InsertKeeps DEF IInv
<1>3. counter \in Nat /\ counter + 1 \in Nat
  BY DEF IInv, TypeOK
<1>4. inbox' \in [DOMAIN inbox' -> [payload: Payloads, task: Nat]]
  BY ZenonT(60), <1>3 DEF Put, IInv, TypeOK
<1>5. TypeOK'
  BY ZenonT(60), <1>2, <1>4 DEF IInv, TypeOK
<1>6. /\ \A j \in DOMAIN origin : origin'[j] = origin[j]
      /\ DOMAIN origin' = DOMAIN origin \cup {counter + 1}
      /\ origin'[counter + 1].parent = 0 /\ origin'[counter + 1].event = ev
  BY ZenonT(60), <1>2 DEF Put, Root
<1>7. ChildrenOnce'
  BY ZenonT(60), <1>6 DEF IInv, ChildrenOnce
<1>8. /\ DOMAIN inbox' = DOMAIN inbox \cup {ev}
      /\ ev \notin DOMAIN inbox
      /\ inbox'[ev].task = counter + 1
      /\ \A x \in DOMAIN inbox : inbox'[x] = inbox[x]
  BY ZenonT(60) DEF Put
<1>9. EventsMatch'
  BY <1>2, <1>6, <1>8, OwnersAssumption DEF IInv, EventsMatch
<1> QED
  BY ZenonT(60), <1>2, <1>5, <1>7, <1>9 DEF IInv

\* The ids a finalization gives its followups are new, and numbered from one.
LEMMA FinalizeIds ==
  ASSUME IInv, NEW l, FinalizeFirst(l)
  PROVE  LET n == Children(l.id)
             new == (counter + 1)..(counter + n) IN
         /\ l.id \in DOMAIN active /\ l.id \notin DOMAIN archive
         /\ n \in Nat /\ counter \in Nat /\ counter' = counter + n
         /\ 1..(counter + n) = 1..counter \cup new
         /\ 1..counter \cap new = {}
         /\ DOMAIN active' = (DOMAIN active \ {l.id}) \cup new
         /\ DOMAIN archive' = DOMAIN archive \cup {l.id}
         /\ DOMAIN origin' = DOMAIN origin \cup new
<1>1. l.id \in DOMAIN active /\ l.id \notin DOMAIN archive
  BY ZenonT(60) DEF FinalizeFirst, Holds, IInv, OneTable
<1>2. Children(l.id) \in Nat /\ counter \in Nat
  BY ZenonT(60), <1>1, ClassesAssumption DEF Children, IInv, TypeOK, ActiveRow
<1>3. counter' = counter + Children(l.id)
  BY ZenonT(60) DEF FinalizeFirst
<1>4. /\ DOMAIN active' = (DOMAIN active \ {l.id}) \cup
                          ((counter + 1)..(counter + Children(l.id)))
      /\ DOMAIN archive' = DOMAIN archive \cup {l.id}
      /\ DOMAIN origin' = DOMAIN origin \cup ((counter + 1)..(counter + Children(l.id)))
  BY ZenonT(60) DEF FinalizeFirst, Put
<1> QED
  BY <1>1, <1>2, <1>3, <1>4

\* A first finalization adds the followups and archives the parent: the ids are
\* new, and the parent had no child before because it was not archived.
LEMMA FinalizeFirstKeeps ==
  ASSUME IInv, NEW l, l \in [id: Nat, owner: Owners, expires: Int], FinalizeFirst(l)
  PROVE  IInv'
<1> DEFINE n == Children(l.id)
           new == (counter + 1)..(counter + n)
<1>1. /\ l.id \in DOMAIN active /\ l.id \notin DOMAIN archive
      /\ n \in Nat /\ counter \in Nat /\ counter' = counter + n
      /\ 1..(counter + n) = 1..counter \cup new
      /\ 1..counter \cap new = {}
      /\ DOMAIN active' = (DOMAIN active \ {l.id}) \cup new
      /\ DOMAIN archive' = DOMAIN archive \cup {l.id}
      /\ DOMAIN origin' = DOMAIN origin \cup new
  BY ZenonT(60), FinalizeIds
<1>2. DOMAIN origin = 1..counter
  BY ZenonT(60) DEF IInv, OriginCovers
<1>3. /\ \A x \in new : /\ origin'[x].parent = l.id
                        /\ origin'[x].slot = x - counter
                        /\ origin'[x].event = NULL
                        /\ origin'[x] \in [parent: Nat, slot: Nat, event: Events \cup {NULL}]
      /\ \A x \in DOMAIN origin : origin'[x] = origin[x]
      /\ \A x, y \in new : x - counter = y - counter => x = y
  <2>1. \A x \in new : origin'[x] = [parent |-> l.id, slot |-> x - counter, event |-> NULL]
    BY ZenonT(60) DEF FinalizeFirst
  <2>2. \A x \in new : x - counter \in Nat
    BY <1>1
  <2>3. \A x \in DOMAIN origin : origin'[x] = origin[x]
    BY ZenonT(60), <1>1, <1>2 DEF FinalizeFirst
  <2>4. \A x, y \in new : x - counter = y - counter => x = y
    BY <1>1
  <2> HIDE DEF new
  <2>5. ASSUME NEW x \in new
        PROVE  /\ origin'[x].parent = l.id
               /\ origin'[x].slot = x - counter
               /\ origin'[x].event = NULL
               /\ origin'[x] \in [parent: Nat, slot: Nat, event: Events \cup {NULL}]
    <3>1. l.id \in Nat /\ x - counter \in Nat
      BY ZenonT(60), <2>2
    <3>2. origin'[x] = [parent |-> l.id, slot |-> x - counter, event |-> NULL]
      BY ZenonT(60), <2>1
    <3> QED
      BY <3>1, <3>2
  <2> QED
    BY ZenonT(60), <2>3, <2>4, <2>5
<1>4. /\ archive'[l.id] = Archived(active[l.id], "success")
      /\ \A j \in DOMAIN archive : archive'[j] = archive[j]
  BY ZenonT(60), <1>1 DEF FinalizeFirst, Put
<1>5. UNCHANGED <<now, inbox>> /\ acked' = acked \cup {l}
  BY ZenonT(60) DEF FinalizeFirst
<1>11. \A x \in DOMAIN active' :
        active'[x] = IF x \in new THEN NewRow(ChildClass, NULL) ELSE active[x]
  BY ZenonT(60) DEF FinalizeFirst
<1> HIDE DEF new, n
<1>6. TypeOK'
  <2>1. active' \in [DOMAIN active' -> ActiveRow]
    <3>1. NewRow(ChildClass, NULL) \in ActiveRow
      BY ZenonT(60), NewRowType, ClassesAssumption
    <3>2. \A x \in DOMAIN active' : active'[x] \in ActiveRow
      BY ZenonT(60), <1>1, <1>11, <3>1 DEF IInv, TypeOK
    <3> QED
      BY ZenonT(60), <3>2 DEF FinalizeFirst
  <2>2. archive' \in [DOMAIN archive' -> ArchiveRow]
    <3>1. Archived(active[l.id], "success") \in ArchiveRow
      BY ZenonT(60), <1>1 DEF Archived, ArchiveRow, ActiveRow, IInv, TypeOK
    <3> QED
      BY ZenonT(60), <3>1 DEF FinalizeFirst, Put, IInv, TypeOK
  <2>3. origin' \in [DOMAIN origin' ->
                      [parent: Nat, slot: Nat, event: Events \cup {NULL}]]
    <3>1. \A x \in DOMAIN origin' :
            origin'[x] \in [parent: Nat, slot: Nat, event: Events \cup {NULL}]
      BY ZenonT(60), <1>1, <1>3 DEF IInv, TypeOK
    <3> QED
      BY ZenonT(60), <3>1 DEF FinalizeFirst
  <2> QED
    BY <1>1, <1>5, <2>1, <2>2, <2>3 DEF IInv, TypeOK
<1>7. OneTable'
  <2>1. l.id \in 1..counter
    BY ZenonT(60), <1>1 DEF IInv, OneTable
  <2> QED
    BY <1>1, <2>1 DEF IInv, OneTable
<1>8. OriginCovers'
  BY ZenonT(60), <1>1, <1>2 DEF OriginCovers
<1>9. ChildrenOnce'
  <2> SUFFICES ASSUME NEW c \in DOMAIN origin', origin'[c].parent # 0
               PROVE  /\ origin'[c].parent \in DOMAIN archive'
                      /\ archive'[origin'[c].parent].result = "success"
                      /\ \A d \in DOMAIN origin' :
                           origin'[d].parent = origin'[c].parent
                             /\ origin'[d].slot = origin'[c].slot => c = d
    BY ZenonT(60) DEF ChildrenOnce
  <2>1. archive'[l.id].result = "success"
    BY <1>4 DEF Archived
  <2>2. \A d \in DOMAIN origin : origin'[d].parent # l.id \/ l.id = 0
    BY <1>1, <1>3 DEF IInv, ChildrenOnce
  <2>3. l.id # 0
    BY <1>1 DEF IInv, OneTable
  <2>4. CASE c \in new
    <3>1. origin'[c].parent = l.id
      BY ZenonT(60), <1>3, <2>4
    <3>2. \A d \in new : origin'[d].slot = origin'[c].slot => c = d
      BY <1>3, <2>4
    <3> QED
      BY ZenonT(60), <1>1, <2>1, <2>2, <2>3, <3>1, <3>2
  <2>5. CASE c \in DOMAIN origin
    <3>1. origin'[c] = origin[c]
      BY ZenonT(60), <1>3, <2>5
    <3>2. /\ origin[c].parent \in DOMAIN archive
          /\ archive[origin[c].parent].result = "success"
      BY ZenonT(60), <2>5, <3>1 DEF IInv, ChildrenOnce
    <3>3. \A d \in DOMAIN origin :
            origin[d].parent = origin[c].parent /\ origin[d].slot = origin[c].slot => c = d
      BY ZenonT(60), <2>5, <3>1 DEF IInv, ChildrenOnce
    <3>4. \A d \in new : origin'[d].parent # origin[c].parent
      BY ZenonT(60), <1>1, <1>3, <3>2
    <3> QED
      BY <1>1, <1>3, <1>4, <3>1, <3>2, <3>3, <3>4
  <2> QED
    BY ZenonT(60), <1>1, <2>4, <2>5
<1>10. EventsMatch'
  BY <1>1, <1>2, <1>3, <1>5 DEF IInv, EventsMatch
<1> QED
  BY ZenonT(60), <1>6, <1>7, <1>8, <1>9, <1>10 DEF IInv

\* A renewal rewrites the expiry of one row.
LEMMA RenewKeeps ==
  ASSUME IInv, NEW l, NEW d \in RenewDurations, Renew(l, d)
  PROVE  IInv'
<1>1. l.id \in DOMAIN active /\ l.expires \in Int
  BY ZenonT(60) DEF Renew, Holds, ValidLease, IInv, TypeOK, ActiveRow
<1>2. MaxOf(now + d, l.expires) \in Int /\ now' \in Nat
  BY <1>1, DurationsAssumption DEF Renew, MaxOf, IInv, TypeOK
<1>3. active' \in [DOMAIN active -> ActiveRow]
  BY <1>1, <1>2 DEF Renew, IInv, TypeOK, ActiveRow
<1> QED
  BY ZenonT(60), <1>2, <1>3, RowsOnly DEF Renew

\* A lease call rewrites the rows it takes.
LEMMA LeaseKeeps ==
  ASSUME IInv, NEW o \in Owners, NEW t \in Int, NEW S \in SUBSET DOMAIN active, Lease(o, t, S)
  PROVE  IInv'
<1>1. t + LeaseDuration \in Int
  BY DurationsAssumption
<1>2. active' \in [DOMAIN active -> ActiveRow]
  <2>1. ASSUME NEW row \in ActiveRow
        PROVE  [row EXCEPT !.owner = o, !.expires = t + LeaseDuration] \in ActiveRow
    BY ZenonT(60), <1>1 DEF ActiveRow
  <2>2. \A i \in DOMAIN active : active[i] \in ActiveRow
    BY ZenonT(60) DEF IInv, TypeOK
  <2> QED BY ZenonT(60), <2>1, <2>2 DEF Lease
<1> QED
  BY ZenonT(60), <1>2, RowsOnly DEF Lease, IInv, TypeOK

\* Awaken rewrites the expiry of the rows it wakes.
LEMMA AwakenKeeps ==
  ASSUME IInv, NEW S \in SUBSET DOMAIN active, Awaken(S)
  PROVE  IInv'
<1>1. now - AwakenWindow \in Int
  BY DurationsAssumption DEF IInv, TypeOK
<1>2. active' \in [DOMAIN active -> ActiveRow]
  BY <1>1 DEF Awaken, IInv, TypeOK, ActiveRow
<1> QED
  BY ZenonT(60), <1>2, RowsOnly DEF Awaken, IInv, TypeOK

\* A lease read off a table is one a client can present.
LEMMA PresentedLease ==
  ASSUME IInv, NEW table, table = active \/ table = archive,
         NEW i \in DOMAIN table, ValidLease(LeaseOf(table, i))
  PROVE  LeaseOf(table, i) \in [id: Nat, owner: Owners, expires: Int]
<1>1. i \in Nat
  BY DEF IInv, OneTable
<1>2. table[i].owner \in Owners /\ table[i].expires \in Int
  BY ZenonT(60) DEF IInv, TypeOK, ActiveRow, ArchiveRow, ValidLease, LeaseOf
<1> QED
  BY ZenonT(60), <1>1, <1>2 DEF LeaseOf

\* A finalization, the first one or a replay.
LEMMA FinalizeKeeps ==
  ASSUME IInv, NEW l \in [id: Nat, owner: Owners, expires: Int], Finalize(l)
  PROVE  IInv'
<1>1. CASE FinalizeFirst(l)
  BY ZenonT(60), <1>1, FinalizeFirstKeeps
<1>2. CASE FinalizeReplay(l)
  <2> USE <1>2 DEF FinalizeReplay
  <2>1. TypeOK'
    BY ZenonT(60) DEF IInv, TypeOK
  <2>2. OneTable' /\ OriginCovers' /\ ChildrenOnce' /\ EventsMatch'
    BY ZenonT(60) DEF IInv, OneTable, OriginCovers, ChildrenOnce, EventsMatch
  <2> QED
    BY ZenonT(60), <2>1, <2>2 DEF IInv
<1> QED
  BY ZenonT(60), <1>1, <1>2 DEF Finalize

\* Every operation keeps the invariant.
LEMMA NextKeeps ==
  IInv /\ [Next]_vars => IInv'
<1> SUFFICES ASSUME IInv, [Next]_vars PROVE IInv'
  BY ZenonT(60)
<1>1. CASE Tick
  BY <1>1, RowsOnly DEF Tick, Advance, IInv, TypeOK
<1>2. CASE \E c \in Classes, w \in Delays :
             Enqueue(c, IF w = NULL THEN NULL ELSE now + w)
  <2> PICK c \in Classes, w \in Delays :
             Enqueue(c, IF w = NULL THEN NULL ELSE now + w)
    BY ZenonT(60), <1>2
  <2>1. (IF w = NULL THEN NULL ELSE now + w) \in Int \cup {NULL}
    BY DurationsAssumption DEF IInv, TypeOK
  <2> QED
    BY ZenonT(60), <2>1, EnqueueKeeps
<1>3. CASE \E ev \in Events, p \in Payloads, c \in Classes : EnqueueEvent(ev, p, c)
  BY ZenonT(60), <1>3, EnqueueEventKeeps
<1>4. CASE \E o \in Owners, lag \in 0..MaxLag, S \in SUBSET DOMAIN active :
             Lease(o, now - lag, S)
  <2> PICK o \in Owners, lag \in 0..MaxLag, S \in SUBSET DOMAIN active :
             Lease(o, now - lag, S)
    BY ZenonT(60), <1>4
  <2>1. now - lag \in Int
    BY DurationsAssumption DEF IInv, TypeOK
  <2> QED
    BY ZenonT(60), <2>1, LeaseKeeps
<1>5. CASE \E S \in SUBSET DOMAIN active : Awaken(S)
  BY ZenonT(60), <1>5, AwakenKeeps
<1>6. ASSUME NEW i \in DOMAIN active, Complete(i) PROVE IInv'
  BY ZenonT(60), <1>6, ArchiveKeeps DEF Complete
<1>7. ASSUME NEW i \in DOMAIN active, Cancel(i) PROVE IInv'
  BY ZenonT(60), <1>7, ArchiveKeeps DEF Cancel
<1>8. ASSUME NEW i \in DOMAIN active, NEW permanent \in BOOLEAN, NEW w \in Waits,
             Fail(i, permanent, w)
      PROVE IInv'
  BY ZenonT(60), <1>8, ArchiveKeeps, RetryKeeps DEF Fail
<1>9. ASSUME NEW i \in DOMAIN active, NEW d \in Waits, Yield(i, d) PROVE IInv'
  BY ZenonT(60), <1>9, ParkKeeps DEF Yield
<1>10. ASSUME NEW i \in DOMAIN active, NEW d \in RenewDurations,
              Renew(LeaseOf(active, i), d)
       PROVE IInv'
  BY ZenonT(60), <1>10, RenewKeeps
<1>11. ASSUME NEW i \in DOMAIN active, NEW outcome, NEW w \in Waits,
              Resolve(LeaseOf(active, i), outcome, w)
       PROVE IInv'
  BY ZenonT(60), <1>11, ArchiveKeeps, RetryKeeps, ParkKeeps DEF Resolve, LeaseOf
<1>12. ASSUME NEW i \in DOMAIN active, Finalize(LeaseOf(active, i)) PROVE IInv'
  <2>1. ValidLease(LeaseOf(active, i))
    BY ZenonT(60), <1>12 DEF Finalize, FinalizeFirst, FinalizeReplay, Holds
  <2> QED
    BY ZenonT(60), <1>12, <2>1, PresentedLease, FinalizeKeeps
<1>13. ASSUME NEW i \in DOMAIN archive, Finalize(LeaseOf(archive, i)) PROVE IInv'
  <2>1. ValidLease(LeaseOf(archive, i))
    BY ZenonT(60), <1>13 DEF Finalize, FinalizeFirst, FinalizeReplay, Holds
  <2> QED
    BY ZenonT(60), <1>13, <2>1, PresentedLease, FinalizeKeeps
<1>14. CASE UNCHANGED vars
  BY ZenonT(60), <1>14, RowsOnly DEF vars, IInv, TypeOK
<1> QED
  BY ZenonT(60), <1>1, <1>2, <1>3, <1>4, <1>5, <1>6, <1>7, <1>8, <1>9, <1>10, <1>11, <1>12,
     <1>13, <1>14 DEF Next

\* The empty queue satisfies the invariant.
LEMMA InitHolds == Init => IInv
BY DEF Init, ClockInit, IInv, TypeOK, OneTable, OriginCovers, ChildrenOnce, EventsMatch, Empty

\* The invariant holds in every reachable state.
LEMMA Inductive == Spec => []IInv
BY InitHolds, NextKeeps, PTL DEF Spec

\* The tables keep their types.
THEOREM TypeCorrect == Spec => []TypeOK
<1>1. IInv => TypeOK
  BY ZenonT(60) DEF IInv
<1> QED
  BY <1>1, Inductive, PTL

\* An id is in exactly one of the two tables, whatever the clients do.
THEOREM ExactlyOneTable == Spec => []OneTable
<1>1. IInv => OneTable
  BY ZenonT(60) DEF IInv
<1> QED
  BY <1>1, Inductive, PTL

\* Followups are inserted once per finalized parent.
THEOREM FollowupsOnce == Spec => []ChildrenOnce
<1>1. IInv => ChildrenOnce
  BY ZenonT(60) DEF IInv
<1> QED
  BY <1>1, Inductive, PTL

\* An event creates one task, however often it is relayed.
THEOREM EventOnce == Spec => []OneTaskPerEvent
<1>1. IInv => OneTaskPerEvent
  BY DEF IInv, EventsMatch, OneTaskPerEvent
<1> QED
  BY <1>1, Inductive, PTL

-----------------------------------------------------------------------------
(***************************************************************************)
(* What a step may never do.                                               *)
(***************************************************************************)
\* Archiving adds a row under an id the archive did not have.
LEMMA ArchiveAdds ==
  ASSUME IInv, NEW i \in DOMAIN active, NEW result, Archive(i, result)
  PROVE  RecordsFinalStep /\ HeldUntilExpiryStep
<1>1. i \notin DOMAIN archive
  BY ZenonT(60) DEF IInv, OneTable
<1>2. RecordsFinalStep
  BY ZenonT(60), <1>1 DEF Archive, Put, RecordsFinalStep
<1>3. \A j \in DOMAIN active \cap DOMAIN active' : active'[j] = active[j]
  BY ZenonT(60) DEF Archive, Drop
<1>4. HeldUntilExpiryStep
  BY <1>3 DEF HeldUntilExpiryStep, IInv, TypeOK, ActiveRow
<1> QED
  BY ZenonT(60), <1>2, <1>4

\* A row that is retried or parked is left with no worker.
LEMMA RowGivenUp ==
  ASSUME IInv, NEW i \in DOMAIN active, NEW w, Retry(i, w) \/ Park(i, w)
  PROVE  RecordsFinalStep /\ HeldUntilExpiryStep
<1>1. RecordsFinalStep
  BY ZenonT(60) DEF Retry, Park, RecordsFinalStep
<1>2. active'[i].owner \notin Owners
  <2>1. CASE Retry(i, w)
    <3>1. active[i] \in ActiveRow /\ active = [j \in DOMAIN active |-> active[j]]
      BY ZenonT(60) DEF IInv, TypeOK
    <3>2. active'[i].owner = NULL
      BY ZenonT(60), <2>1, <3>1 DEF Retry, ActiveRow
    <3> QED BY ZenonT(60), <3>2, OwnersAssumption
  <2>2. CASE Park(i, w)
    BY <2>2, OwnersAssumption DEF Park, IInv, TypeOK, ActiveRow
  <2> QED
    BY ZenonT(60), <2>1, <2>2
<1>3. \A j \in DOMAIN active : j # i => active'[j] = active[j]
  BY ZenonT(60) DEF Retry, Park
<1>4. HeldUntilExpiryStep
  BY <1>2, <1>3 DEF HeldUntilExpiryStep, IInv, TypeOK, ActiveRow
<1> QED
  BY ZenonT(60), <1>1, <1>4

\* Every step keeps the records and leaves held tasks where they are.
LEMMA StepsAllowed ==
  IInv /\ [Next]_vars => [RecordsFinalStep]_vars /\ [HeldUntilExpiryStep]_vars
<1> SUFFICES ASSUME IInv, Next PROVE RecordsFinalStep /\ HeldUntilExpiryStep
  BY ZenonT(60)
<1>1. CASE Tick
  BY <1>1 DEF Tick, Advance, RecordsFinalStep, HeldUntilExpiryStep, IInv, TypeOK, ActiveRow
<1>2. ASSUME NEW c, NEW e, NEW from, Insert(c, e, from), UNCHANGED <<now, archive>>,
             \A ev \in DOMAIN inbox : ev \in DOMAIN inbox' /\ inbox'[ev] = inbox[ev]
      PROVE  RecordsFinalStep /\ HeldUntilExpiryStep
  <2>1. \A i \in DOMAIN active : active'[i] = active[i]
    <3>1. counter + 1 \notin DOMAIN active
      BY DEF IInv, OneTable, TypeOK
    <3> QED
      BY ZenonT(60), <1>2, <3>1 DEF Insert, Put
  <2> QED
    BY <1>2, <2>1 DEF RecordsFinalStep, HeldUntilExpiryStep, IInv, TypeOK, ActiveRow
<1>3. CASE \E c \in Classes, w \in Delays :
             Enqueue(c, IF w = NULL THEN NULL ELSE now + w)
  BY ZenonT(60), <1>2, <1>3 DEF Enqueue
<1>4. CASE \E ev \in Events, p \in Payloads, c \in Classes : EnqueueEvent(ev, p, c)
  <2> PICK ev \in Events, p \in Payloads, c \in Classes : EnqueueEvent(ev, p, c)
    BY ZenonT(60), <1>4
  <2>1. \A x \in DOMAIN inbox : x \in DOMAIN inbox' /\ inbox'[x] = inbox[x]
    BY ZenonT(60) DEF EnqueueEvent, Put
  <2> QED
    BY ZenonT(60), <1>2, <2>1 DEF EnqueueEvent
<1>5. CASE \E o \in Owners, lag \in 0..MaxLag, S \in SUBSET DOMAIN active :
             Lease(o, now - lag, S)
  <2> PICK o \in Owners, lag \in 0..MaxLag, S \in SUBSET DOMAIN active :
             Lease(o, now - lag, S)
    BY ZenonT(60), <1>5
  <2>1. \A i \in DOMAIN active :
          active[i].expires # NULL /\ active[i].expires > now => i \notin S
    <3>1. \A i \in S : Available(active[i], now - lag)
      BY ZenonT(60) DEF Lease
    <3>2. now - lag <= now /\ now \in Int /\ now - lag \in Int
      BY DurationsAssumption DEF IInv, TypeOK
    <3>3. \A i \in DOMAIN active : active[i].expires \in Int \cup {NULL}
      BY ZenonT(60) DEF IInv, TypeOK, ActiveRow
    <3> QED
      BY <3>1, <3>2, <3>3 DEF Available
  <2>2. /\ \A i \in DOMAIN active : i \notin S => active'[i] = active[i]
        /\ UNCHANGED <<archive, inbox>>
    BY ZenonT(60) DEF Lease
  <2> QED
    BY <2>1, <2>2 DEF RecordsFinalStep, HeldUntilExpiryStep, IInv, TypeOK, ActiveRow
<1>6. CASE \E S \in SUBSET DOMAIN active : Awaken(S)
  <2> PICK S \in SUBSET DOMAIN active : Awaken(S)
    BY ZenonT(60), <1>6
  <2>1. \A i \in DOMAIN active :
          active'[i] = active[i] \/ active'[i].owner \notin Owners
    BY ZenonT(60), OwnersAssumption DEF Awaken, IInv, TypeOK, ActiveRow
  <2> QED
    BY <2>1 DEF Awaken, RecordsFinalStep, HeldUntilExpiryStep, IInv, TypeOK, ActiveRow
<1>7. ASSUME NEW i \in DOMAIN active,
             \/ Complete(i) \/ Cancel(i)
             \/ \E permanent \in BOOLEAN, w \in Waits : Fail(i, permanent, w)
             \/ \E d \in Waits : Yield(i, d)
             \/ \E outcome \in {"failure", "retry", "yield"}, w \in Waits :
                   Resolve(LeaseOf(active, i), outcome, w)
      PROVE  RecordsFinalStep /\ HeldUntilExpiryStep
  BY ZenonT(60), <1>7, ArchiveAdds, RowGivenUp
     DEF Complete, Cancel, Fail, Yield, Resolve, LeaseOf
<1>8. ASSUME NEW i \in DOMAIN active, NEW d \in RenewDurations,
             Renew(LeaseOf(active, i), d)
      PROVE  RecordsFinalStep /\ HeldUntilExpiryStep
  <2>1. /\ \A j \in DOMAIN active : j # i => active'[j] = active[j]
        /\ active'[i].owner = active[i].owner
        /\ active'[i].expires = MaxOf(now + d, active[i].expires)
    BY <1>8 DEF Renew, LeaseOf, IInv, TypeOK, ActiveRow
  <2>2. active[i].expires \in Int
    BY ZenonT(60), <1>8 DEF Renew, Holds, ValidLease, LeaseOf, IInv, TypeOK, ActiveRow
  <2>3. active'[i].expires >= active[i].expires
    BY <2>1, <2>2, DurationsAssumption DEF MaxOf, IInv, TypeOK
  <2>4. UNCHANGED <<archive, inbox>>
    BY ZenonT(60), <1>8 DEF Renew
  <2> QED
    BY <2>1, <2>3, <2>4 DEF RecordsFinalStep, HeldUntilExpiryStep, IInv, TypeOK, ActiveRow
<1>9. ASSUME NEW l, Finalize(l)
      PROVE  RecordsFinalStep /\ HeldUntilExpiryStep
  <2>1. CASE FinalizeFirst(l)
    <3>1. /\ l.id \notin DOMAIN archive
          /\ 1..counter \cap ((counter + 1)..(counter + Children(l.id))) = {}
      BY ZenonT(60), <2>1, FinalizeIds
    <3>2. \A j \in DOMAIN active \cap DOMAIN active' : active'[j] = active[j]
      BY ZenonT(60), <2>1, <3>1 DEF FinalizeFirst, IInv, OneTable
    <3>3. RecordsFinalStep
      BY ZenonT(60), <2>1, <3>1 DEF FinalizeFirst, Put, RecordsFinalStep
    <3> QED
      BY <3>2, <3>3 DEF HeldUntilExpiryStep, IInv, TypeOK, ActiveRow
  <2>2. CASE FinalizeReplay(l)
    BY <2>2 DEF FinalizeReplay, RecordsFinalStep, HeldUntilExpiryStep, IInv, TypeOK, ActiveRow
  <2> QED
    BY ZenonT(60), <1>9, <2>1, <2>2 DEF Finalize
<1> QED
  BY ZenonT(60), <1>1, <1>3, <1>4, <1>5, <1>6, <1>7, <1>8, <1>9 DEF Next

\* No step rewrites or revives an archived task, or rewrites a receipt.
THEOREM ArchiveFinal == Spec => RecordsFinal
BY Inductive, StepsAllowed, PTL DEF Spec, RecordsFinal

\* No step hands out a task whose expiry is ahead, or shortens a held lease.
THEOREM LeaseExclusive == Spec => HeldUntilExpiry
BY Inductive, StepsAllowed, PTL DEF Spec, HeldUntilExpiry

-----------------------------------------------------------------------------
(***************************************************************************)
(* What an acknowledged finalization left behind.                          *)
(***************************************************************************)
HasChildren(i) ==
  \A k \in 1..Followups[archive[i].class] :
    \E c \in DOMAIN origin : origin[c].parent = i /\ origin[c].slot = k

SuccessComplete ==
  \A i \in DOMAIN archive : archive[i].result = "success" => HasChildren(i)

Receipts == \A l \in acked : HasReceipt(l)

AInv == SuccessComplete /\ Receipts

\* What a step other than a first finalization may do to the records.
RecordsStep ==
  /\ \A i \in DOMAIN archive' : i \notin DOMAIN archive => archive'[i].result # "success"
  /\ \A c \in DOMAIN origin : c \in DOMAIN origin' /\ origin'[c] = origin[c]
  /\ \A l \in acked' : l \in acked \/ HasReceipt(l)

\* A step that only adds acknowledged or childless records keeps AInv.
LEMMA RecordsStepKeeps ==
  ASSUME AInv, RecordsFinalStep, RecordsStep
  PROVE  AInv'
<1>1. SuccessComplete'
  <2> SUFFICES ASSUME NEW i \in DOMAIN archive', archive'[i].result = "success"
               PROVE  HasChildren(i)'
    BY ZenonT(60) DEF SuccessComplete
  <2>1. i \in DOMAIN archive /\ archive'[i] = archive[i]
    BY ZenonT(60) DEF RecordsStep, RecordsFinalStep
  <2>2. HasChildren(i)
    BY ZenonT(60), <2>1 DEF AInv, SuccessComplete
  <2> QED
    BY <2>1, <2>2 DEF HasChildren, RecordsStep
<1>2. Receipts'
  BY ZenonT(60) DEF AInv, Receipts, RecordsStep, RecordsFinalStep, HasReceipt
<1> QED
  BY ZenonT(60), <1>1, <1>2 DEF AInv

\* Archiving by another route than Finalize is such a step.
LEMMA ArchiveRecords ==
  ASSUME IInv, NEW i \in DOMAIN active, NEW result, result # "success", Archive(i, result)
  PROVE  RecordsStep
<1>1. \A j \in DOMAIN archive' : j \notin DOMAIN archive => archive'[j].result = result
  BY ZenonT(60) DEF Archive, Put, Archived
<1> QED
  BY ZenonT(60), <1>1 DEF Archive, RecordsStep

\* A first finalization archives the parent with all of its children.
LEMMA FinalizeFirstRecords ==
  ASSUME IInv, AInv, RecordsFinalStep, NEW l, FinalizeFirst(l)
  PROVE  AInv'
<1> DEFINE n == Children(l.id)
           new == (counter + 1)..(counter + n)
<1>1. /\ l.id \in DOMAIN active /\ n \in Nat /\ counter \in Nat
      /\ 1..counter \cap new = {}
      /\ DOMAIN archive' = DOMAIN archive \cup {l.id}
      /\ DOMAIN origin' = DOMAIN origin \cup new
  BY ZenonT(60), FinalizeIds
<1>2. archive'[l.id] = Archived(active[l.id], "success") /\ acked' = acked \cup {l}
  BY ZenonT(60) DEF FinalizeFirst, Put
<1>3. \A c \in DOMAIN origin : c \in DOMAIN origin' /\ origin'[c] = origin[c]
  BY ZenonT(60), <1>1 DEF FinalizeFirst, IInv, OriginCovers
<1>4. HasChildren(l.id)'
  <2>1. archive'[l.id].class = active[l.id].class
    BY <1>2 DEF Archived
  <2> SUFFICES ASSUME NEW k \in 1..n
               PROVE  \E c \in DOMAIN origin' :
                        origin'[c].parent = l.id /\ origin'[c].slot = k
    BY ZenonT(60), <2>1 DEF HasChildren, Children
  <2>2. counter + k \in new /\ (counter + k) - counter = k
    BY <1>1
  <2>3. origin'[counter + k] =
          [parent |-> l.id, slot |-> (counter + k) - counter, event |-> NULL]
    BY ZenonT(60), <2>2 DEF FinalizeFirst
  <2> HIDE DEF new, n
  <2>4. origin'[counter + k].parent = l.id /\ origin'[counter + k].slot = k
    BY <2>2, <2>3
  <2> QED
    BY ZenonT(60), <1>1, <2>2, <2>4
<1> HIDE DEF new, n
<1>5. SuccessComplete'
  <2> SUFFICES ASSUME NEW i \in DOMAIN archive', archive'[i].result = "success", i # l.id
               PROVE  HasChildren(i)'
    BY ZenonT(60), <1>4 DEF SuccessComplete
  <2>1. i \in DOMAIN archive /\ archive'[i] = archive[i]
    BY ZenonT(60), <1>1 DEF RecordsFinalStep
  <2>2. HasChildren(i)
    BY ZenonT(60), <2>1 DEF AInv, SuccessComplete
  <2> QED
    BY <1>3, <2>1, <2>2 DEF HasChildren
<1>6. HasReceipt(l)'
  BY <1>1, <1>2 DEF HasReceipt, FinalizeFirst, Holds, Archived
<1>7. Receipts'
  BY ZenonT(60), <1>2, <1>6 DEF AInv, Receipts, RecordsFinalStep, HasReceipt
<1> QED
  BY ZenonT(60), <1>5, <1>7 DEF AInv

\* Every step keeps AInv.
LEMMA AckedKeeps == IInv /\ AInv /\ [Next]_vars => AInv'
<1> SUFFICES ASSUME IInv, AInv, [Next]_vars PROVE AInv'
  BY ZenonT(60)
<1>1. CASE UNCHANGED vars
  BY <1>1 DEF vars, AInv, SuccessComplete, HasChildren, Receipts, HasReceipt
<1>2. ASSUME Next, RecordsStep PROVE AInv'
  BY ZenonT(60), <1>2, StepsAllowed, RecordsStepKeeps DEF RecordsFinalStep, vars, AInv,
     SuccessComplete, HasChildren, Receipts, HasReceipt
<1>3. ASSUME UNCHANGED <<archive, origin, acked>> PROVE RecordsStep
  BY ZenonT(60), <1>3 DEF RecordsStep
<1>4. ASSUME NEW c, NEW e, NEW from, Insert(c, e, from), UNCHANGED <<archive, acked>>
      PROVE  RecordsStep
  <2>1. counter + 1 \notin DOMAIN origin
    BY DEF IInv, OriginCovers, TypeOK
  <2> QED
    BY ZenonT(60), <1>4, <2>1 DEF Insert, Put, RecordsStep
<1>5. ASSUME NEW l, FinalizeFirst(l), Next PROVE AInv'
  BY ZenonT(60), <1>5, StepsAllowed, FinalizeFirstRecords DEF RecordsFinalStep, vars
<1>6. ASSUME NEW l, FinalizeReplay(l) PROVE RecordsStep
  BY ZenonT(60), <1>6 DEF FinalizeReplay, RecordsStep
<1>7. CASE Next /\ ~ \E l : FinalizeFirst(l)
  <2>1. ASSUME NEW i \in DOMAIN active, Complete(i) PROVE RecordsStep
    BY ZenonT(60), <2>1, ArchiveRecords DEF Complete
  <2>2. ASSUME NEW i \in DOMAIN active, Cancel(i) PROVE RecordsStep
    BY ZenonT(60), <2>2, ArchiveRecords DEF Cancel
  <2>3. ASSUME NEW i \in DOMAIN active, NEW permanent, NEW w, Fail(i, permanent, w)
        PROVE  RecordsStep
    BY ZenonT(60), <2>3, <1>3, ArchiveRecords DEF Fail, Retry
  <2>4. ASSUME NEW i \in DOMAIN active, NEW outcome, NEW w,
               Resolve(LeaseOf(active, i), outcome, w)
        PROVE  RecordsStep
    BY ZenonT(60), <2>4, <1>3, ArchiveRecords DEF Resolve, Retry, Park, LeaseOf
  <2>5. RecordsStep
    BY ZenonT(60), <1>3, <1>4, <1>6, <1>7, <2>1, <2>2, <2>3, <2>4
       DEF Next, Tick, Enqueue, EnqueueEvent, Lease, Awaken, Yield, Park, Renew, Finalize
  <2> QED
    BY ZenonT(60), <1>2, <1>7, <2>5
<1> QED
  BY ZenonT(60), <1>1, <1>5, <1>7

\* A Finalize that was answered with success, from the first call or from the
\* receipt, has its receipt in the archive, and all its followups unless a
\* legacy client completed the task first.
THEOREM AckedFinalization == Spec => []AckedFollowups
<1>1. Init => AInv
  BY ZenonT(60) DEF Init, AInv, SuccessComplete, Receipts, Empty
<1>2. IInv /\ AInv /\ [Next]_vars => AInv'
  BY ZenonT(60), AckedKeeps
<1>3. IInv /\ AInv => AckedFollowups
  BY ZenonT(60) DEF AInv, Receipts, SuccessComplete, HasReceipt, HasChildren, AckedFollowups
<1> QED
  BY <1>1, <1>2, <1>3, Inductive, PTL DEF Spec

\* A task is in one table, has one origin, and what was acknowledged is there:
\* the queue neither loses nor doubles work, for any clients and any repeats.
THEOREM NothingIsLostOrDoubled == Spec => []NothingLostOrDoubled
<1>1. TypeOK /\ OneTable /\ ChildrenOnce /\ AckedFollowups /\ OneTaskPerEvent => NothingLostOrDoubled
  BY ZenonT(60) DEF NothingLostOrDoubled
<1> QED
  BY <1>1, TypeCorrect, ExactlyOneTable, FollowupsOnce, AckedFinalization, EventOnce, PTL

\* No step of the queue takes back a record, a receipt or an unexpired lease.
THEOREM NothingIsTakenBack == Spec => NothingTakenBack
BY ZenonT(60), ArchiveFinal, LeaseExclusive DEF NothingTakenBack
=============================================================================
