---------------------------- MODULE GiteaBridge ----------------------------
(***************************************************************************)
(* The Gitea bridge (gitea/conduit.go, http.go): one delivery, sent again  *)
(* by Gitea while earlier attempts still run, appends one comment to every *)
(* task its text names.  The lookup of the marker and the edit are two     *)
(* Conduit calls; an edit whose answer is lost may still land later.       *)
(***************************************************************************)
EXTENDS Integers, Sequences, FiniteSets

CONSTANTS
  Attempts,      \* the requests Gitea makes
  GiteaEvents,        \* the events: the sorted sequences of the tasks they name
  SentAs,        \* bound: SentAs[e] is the set of attempts made of event e
  MaxRestarts    \* bound: restarts of the bridge

Tasks == UNION {{e[i] : i \in DOMAIN e} : e \in GiteaEvents}

VARIABLES
  taskIDs,    \* the event of this behaviour
  locks,      \* deliveryLockSet: task -> lock, a lock being named after its creator
  refs,       \* references to every lock
  holder,     \* the attempt that holds every lock
  attempt,    \* every request: stage, position in taskIDs, its lock and its errors
  comments,   \* external: comments with the marker on every task
  late,       \* edits without an answer that Phorge may still apply
  unknown,    \* edits so far whose answer was lost, per task
  restarts

bridgeVars == <<taskIDs, locks, refs, holder, attempt, comments, late, unknown, restarts>>

None == [by |-> "none"]
LockIds == [by : Attempts, task : Tasks]
NotReceived == [stage |-> "idle"]

BridgeInit ==
  /\ taskIDs \in GiteaEvents
  /\ locks = [t \in Tasks |-> None]
  /\ refs = [l \in LockIds |-> 0] /\ holder = [l \in LockIds |-> None]
  /\ attempt = [a \in Attempts |-> NotReceived]
  /\ comments = [t \in Tasks |-> 0] /\ late = [t \in Tasks |-> 0] /\ unknown = [t \in Tasks |-> 0]
  /\ restarts = 0

TaskOf(a) == taskIDs[attempt[a].pos]
At(a, stage) == attempt[a].stage = stage
GoTo(a, stage) == attempt' = [attempt EXCEPT ![a].stage = stage]

-----------------------------------------------------------------------------
\* receive: a signed delivery of a supported event
Receive(a) ==
  /\ a \in SentAs[taskIDs] /\ attempt[a] = NotReceived
  /\ attempt' = [attempt EXCEPT ![a] = [stage |-> "enter", pos |-> 1, lock |-> None, failed |-> FALSE]]
  /\ UNCHANGED <<taskIDs, locks, refs, holder, comments, late, unknown, restarts>>

\* deliveryLockSet.lock: take a reference under the set's mutex ...
LockRegistered(a) ==
  LET t == TaskOf(a)
      l == IF locks[t] = None THEN [by |-> a, task |-> t] ELSE locks[t]
  IN /\ At(a, "enter")
     /\ locks' = [locks EXCEPT ![t] = l]
     /\ refs' = [refs EXCEPT ![l] = @ + 1]
     /\ attempt' = [attempt EXCEPT ![a].stage = "locking", ![a].lock = l]
     /\ UNCHANGED <<taskIDs, holder, comments, late, unknown, restarts>>

\* ... and wait for the delivery's own mutex
LockTaken(a) ==
  /\ At(a, "locking") /\ holder[attempt[a].lock] = None
  /\ holder' = [holder EXCEPT ![attempt[a].lock] = [by |-> a]]
  /\ GoTo(a, "searching")
  /\ UNCHANGED <<taskIDs, locks, refs, comments, late, unknown, restarts>>

\* Append: every page of transaction.search, or an error
Searched(a) ==
  /\ At(a, "searching")
  /\ GoTo(a, IF comments[TaskOf(a)] > 0 THEN "unlocking" ELSE "editing")
  /\ UNCHANGED <<taskIDs, locks, refs, holder, comments, late, unknown, restarts>>

TaskFailed(r) == [r EXCEPT !.failed = TRUE]

SearchFails(a) ==
  /\ At(a, "searching")
  /\ attempt' = [attempt EXCEPT ![a] = TaskFailed([@ EXCEPT !.stage = "unlocking"])]
  /\ UNCHANGED <<taskIDs, locks, refs, holder, comments, late, unknown, restarts>>

\* maniphest.edit: applied and answered, refused, or without an answer
EditApplied(a) ==
  /\ At(a, "editing")
  /\ comments' = [comments EXCEPT ![TaskOf(a)] = @ + 1]
  /\ GoTo(a, "unlocking")
  /\ UNCHANGED <<taskIDs, locks, refs, holder, late, unknown, restarts>>

EditRefused(a) ==
  /\ At(a, "editing")
  /\ attempt' = [attempt EXCEPT ![a] = TaskFailed([@ EXCEPT !.stage = "unlocking"])]
  /\ UNCHANGED <<taskIDs, locks, refs, holder, comments, late, unknown, restarts>>

EditUnanswered(a) ==
  /\ At(a, "editing")
  /\ late' = [late EXCEPT ![TaskOf(a)] = @ + 1]
  /\ unknown' = [unknown EXCEPT ![TaskOf(a)] = @ + 1]
  /\ attempt' = [attempt EXCEPT ![a] = TaskFailed([@ EXCEPT !.stage = "unlocking"])]
  /\ UNCHANGED <<taskIDs, locks, refs, holder, comments, restarts>>

LateEdit(t) ==
  /\ late[t] > 0
  /\ late' = [late EXCEPT ![t] = @ - 1]
  /\ \E applied \in {0, 1} : comments' = [comments EXCEPT ![t] = @ + applied]
  /\ UNCHANGED <<taskIDs, locks, refs, holder, attempt, unknown, restarts>>

\* the deferred unlock: the delivery's mutex, then the reference
Unlocked(a) ==
  /\ At(a, "unlocking")
  /\ holder' = [holder EXCEPT ![attempt[a].lock] = None]
  /\ GoTo(a, "releasing")
  /\ UNCHANGED <<taskIDs, locks, refs, comments, late, unknown, restarts>>

AnyReference(n) == TRUE   \* a bug: the entry goes with the first holder that leaves
LastReference(n) == n = 0

\* the next task, or the answer: 502 when a task failed
RefReleased(a) ==
  LET l == attempt[a].lock
      n == refs[l] - 1
  IN /\ At(a, "releasing")
     /\ refs' = [refs EXCEPT ![l] = n]
     /\ locks' = IF LastReference(n) THEN [locks EXCEPT ![l.task] = None] ELSE locks
     /\ attempt' = [attempt EXCEPT ![a] =
          IF @.pos < Len(taskIDs) THEN [@ EXCEPT !.stage = "enter", !.pos = @ + 1, !.lock = None]
          ELSE [stage |-> IF @.failed THEN "bad_gateway" ELSE "ok"]]
     /\ UNCHANGED <<taskIDs, holder, comments, late, unknown, restarts>>

\* the process ends: its requests die, what it sent may still be applied
BridgeRestart ==
  LET sent(t) == Cardinality({a \in Attempts : At(a, "editing") /\ TaskOf(a) = t})
  IN /\ restarts < MaxRestarts
     /\ restarts' = restarts + 1
     /\ late' = [t \in Tasks |-> late[t] + sent(t)]
     /\ unknown' = [t \in Tasks |-> unknown[t] + sent(t)]
     /\ attempt' = [a \in Attempts |-> IF attempt[a].stage \in {"idle", "ok", "bad_gateway"} THEN attempt[a]
                                       ELSE [stage |-> "bad_gateway"]]
     /\ locks' = [t \in Tasks |-> None]
     /\ refs' = [l \in LockIds |-> 0] /\ holder' = [l \in LockIds |-> None]
     /\ UNCHANGED <<taskIDs, comments>>

AppendStep(a) ==
  \/ LockRegistered(a) \/ LockTaken(a)
  \/ Searched(a) \/ SearchFails(a)
  \/ EditApplied(a) \/ EditRefused(a) \/ EditUnanswered(a)
  \/ Unlocked(a) \/ RefReleased(a)

BridgeNext ==
  \/ \E a \in Attempts : Receive(a) \/ AppendStep(a)
  \/ \E t \in Tasks : LateEdit(t)
  \/ BridgeRestart

BridgeFairness == \A a \in Attempts : WF_bridgeVars(AppendStep(a))

-----------------------------------------------------------------------------
(* Attempts of one delivery that overlap, follow each other or come after a
   restart leave one comment on a task, and at most one more for every edit
   whose answer was lost: lookup and edit are atomic for one delivery. *)
OneComment == \A t \in Tasks : comments[t] <= 1 + unknown[t]

(* A delivery that was answered 200 has its comment on every task it names:
   Gitea will not send it again. *)
AnsweredIsLinked ==
  (\E a \in Attempts : At(a, "ok")) => \A i \in DOMAIN taskIDs : comments[taskIDs[i]] > 0

(* Every attempt is answered: no attempt waits for ever on the mutex of
   another one that has ended. *)
AttemptAnswered == \A a \in Attempts : At(a, "enter") ~> attempt[a].stage \in {"ok", "bad_gateway"}

\* A delivery that Gitea repeats comments once except where an answer was lost,
\* is answered with success only when every task has its comment, and every
\* attempt is answered (conduit.go).
BridgeComments == [](OneComment /\ AnsweredIsLinked) /\ AttemptAnswered
=============================================================================
