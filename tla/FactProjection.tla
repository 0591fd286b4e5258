--------------------------- MODULE FactProjection ---------------------------
(***************************************************************************)
(* ProjectFacts: a projector reads a page of changed objects from PHP while*)
(* it holds the class's cursor row, replaces their datapoints and moves    *)
(* the cursor, all in one transaction.  Objects go on changing meanwhile.  *)
(***************************************************************************)
EXTENDS Integers, Sequences

CONSTANTS
  Objects,
  Projectors,   \* loops of all processes
  PageSize,     \* objects of a page (20)
  MaxChanges    \* bound: changes of source objects

VARIABLES
  clockPos,  \* the source's position counter, a pair <<epoch, id>>
  changed,   \* object -> position of its last change
  cursor,    \* fact_cursor.position; <<>> is ''
  facts,     \* object -> position its datapoints were computed at
  page       \* projector -> the page it fetched under the cursor lock, or <<>>

factVars == <<clockPos, changed, cursor, facts, page>>

None == <<>>

\* factPositionAfter: positions of the same shape, compared field by field.
PositionAfter(old, next) ==
  /\ next # None
  /\ \/ old = None
     \/ /\ Len(old) = Len(next)
        /\ \E i \in DOMAIN old : next[i] > old[i] /\ \A j \in 1..(i - 1) : next[j] = old[j]

FactInit ==
  /\ clockPos = <<0, 0>>
  /\ changed = [o \in Objects |-> None]
  /\ cursor = None
  /\ facts = [o \in Objects |-> None]
  /\ page = [p \in Projectors |-> None]

\* A source object changes, in the same second as the last one or later.
ChangeObject(o) ==
  /\ clockPos[1] + clockPos[2] < MaxChanges
  /\ \E next \in {<<clockPos[1], clockPos[2] + 1>>, <<clockPos[1] + 1, clockPos[2]>>} :
       clockPos' = next /\ changed' = [changed EXCEPT ![o] = next]
  /\ UNCHANGED <<cursor, facts, page>>

Unlocked == \A p \in Projectors : page[p] = None

Due == {o \in Objects : PositionAfter(cursor, changed[o])}

\* integration.fact scan: the first of the changed objects, oldest first.
OldestDue(objects) ==
  LET n == Len(objects) IN
  /\ \A j \in 1..n : \A i \in 1..(j - 1) : PositionAfter(changed[objects[i]], changed[objects[j]])
  /\ \A o \in Due : \/ \E k \in 1..n : objects[k] = o
                    \/ n = PageSize /\ PositionAfter(changed[objects[n]], changed[o])

\* The page holds what PHP computed at scan time.
FetchPage(p) ==
  /\ Unlocked
  /\ \E n \in 1..PageSize : \E objects \in [1..n -> Due] :
       /\ OldestDue(objects)
       /\ page' = [page EXCEPT ![p] = [k \in 1..n |-> [object |-> objects[k], at |-> changed[objects[k]]]]]
  /\ UNCHANGED <<clockPos, changed, cursor, facts>>

SourceClock(items) == clockPos
NextPosition(items) == items[Len(items)].at

CommitPage(p) ==
  LET items == page[p] IN
  /\ items # None
  /\ PositionAfter(cursor, NextPosition(items))
  /\ cursor' = NextPosition(items)
  /\ facts' = [o \in Objects |->
       IF \E k \in 1..Len(items) : items[k].object = o
       THEN items[CHOOSE k \in 1..Len(items) : items[k].object = o].at ELSE facts[o]]
  /\ page' = [page EXCEPT ![p] = None]
  /\ UNCHANGED <<clockPos, changed>>

\* The call, a statement or the process fails: the transaction rolls back.
AbortPage(p) ==
  /\ page[p] # None
  /\ page' = [page EXCEPT ![p] = None]
  /\ UNCHANGED <<clockPos, changed, cursor, facts>>

FactNext ==
  \/ \E o \in Objects : ChangeObject(o)
  \/ \E p \in Projectors : FetchPage(p) \/ CommitPage(p) \/ AbortPage(p)

FactSpec == FactInit /\ [][FactNext]_factVars

\* The cursor never passes an object whose datapoints are stale: when nothing
\* is left to scan after it, every object shows its last change, whatever page
\* failed, was repeated, or was overtaken by a change.
CursorCovers ==
  \A o \in Objects : changed[o] # facts[o] => PositionAfter(cursor, changed[o])
=============================================================================
