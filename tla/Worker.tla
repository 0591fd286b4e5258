------------------------------- MODULE Worker -------------------------------
(***************************************************************************)
(* Worker processes consuming the queue over HTTP.  Every goroutine that   *)
(* runs processTask is a slot of its process.  A slot owns a copy of the   *)
(* lease it was given, renews it from its heartbeat, runs the handler and  *)
(* reports the outcome with bounded retries; once the drain budget of its  *)
(* process is used up it quarantines the task instead.                     *)
(*                                                                         *)
(* A call may fail after the request left: it stays in flight and reaches  *)
(* the queue later, or never, whatever the caller does meanwhile.  A lost  *)
(* reply is the case in which it arrives at once.  The queue is TaskQueue, *)
(* with the execution protocol only.  A task class without a handler is    *)
(* never asked for (leaseableClasses), so shouldProcess holds.             *)
(***************************************************************************)
EXTENDS TaskQueue, FiniteSetsExt, TLC

CONSTANTS
  Slots,        \* goroutines: the semaphore's places of all processes
  ProcOf,       \* [Slots -> Owners]
  Outcomes,     \* handler results: a subset of {"success", "failure", "retry", "yield"}
  MaxAttempts,  \* resultReportAttempts (5)
  MaxLate       \* bound: requests in flight that nobody waits for

ASSUME WorkerAssumption ==
  /\ ProcOf \in [Slots -> Owners] /\ MaxAttempts \in Nat \ {0} /\ MaxLate \in Nat
  /\ Outcomes \subseteq {"success", "failure", "retry", "yield"}

VARIABLES
  proc,       \* process -> "running", "draining", "cancelled" or "down"
  exec,       \* slot -> its execution
  late,       \* requests in flight that nobody waits for
  processed,  \* process -> tasks reported as processed
  takenBy     \* history: task -> the slot that took its current lease, or NULL

workerVars == <<vars, proc, exec, late, processed, takenBy>>

Free == [pc |-> "free"]
Owner(s) == ProcOf[s]
Token(s) == [id |-> exec[s].id, owner |-> Owner(s), expires |-> exec[s].expires]

WorkerInit ==
  /\ Init
  /\ proc = [o \in Owners |-> "running"]
  /\ exec = [s \in Slots |-> Free]
  /\ late = {}
  /\ processed = [o \in Owners |-> 0]
  /\ takenBy = Empty

-----------------------------------------------------------------------------
(***************************************************************************)
(* Calls.                                                                  *)
(***************************************************************************)
Request(op, l, arg) == [op |-> op, lease |-> l, arg |-> arg]

\* The queue's answer to a request, when it accepts it.
Accepts(r) ==
  \/ Holds(r.lease)
  \/ r.op = "success" /\ r.lease.id \notin DOMAIN active /\ HasReceipt(r.lease)

Serve(r) ==
  \/ r.op = "renew" /\ Renew(r.lease, r.arg)
  \/ r.op = "success" /\ Finalize(r.lease)
  \/ r.op \in {"failure", "retry", "yield"} /\ Resolve(r.lease, r.op, r.arg)

\* The call fails without an answer.
CallFails(r) ==
  /\ \/ Cardinality(late) < MaxLate /\ late' = late \cup {r}
     \/ UNCHANGED late
  /\ UNCHANGED vars

Deliver ==
  \E r \in late :
    /\ late' = late \ {r}
    /\ \/ Accepts(r) /\ Serve(r)
       \/ ~Accepts(r) /\ UNCHANGED vars
    /\ UNCHANGED <<proc, exec, processed, takenBy>>

-----------------------------------------------------------------------------
(***************************************************************************)
(* Intake.                                                                 *)
(***************************************************************************)
Overdue(r) == r.expires # NULL /\ r.expires < now

Leasable(i) == (active[i].owner = NULL /\ active[i].expires = NULL) \/ Overdue(active[i])

\* A running process leases a task for a free slot; when the reply is lost the
\* lease belongs to the process and to no slot.
LeaseTask(s, i) ==
  /\ proc[Owner(s)] = "running" /\ exec[s].pc = "free"
  /\ Leasable(i) /\ Lease(Owner(s), now, {i})
  /\ \/ /\ exec' = [exec EXCEPT ![s] = [pc |-> "check", id |-> i, kind |-> NULL,
                       expires |-> now + LeaseDuration, lost |-> FALSE, tries |-> 0]]
        /\ takenBy' = Put(takenBy, i, s)
     \/ UNCHANGED exec /\ takenBy' = Put(takenBy, i, NULL)
  /\ UNCHANGED <<proc, late, processed>>

-----------------------------------------------------------------------------
(***************************************************************************)
(* processTask.                                                            *)
(***************************************************************************)
Become(s, fields) == exec' = [exec EXCEPT ![s] = fields @@ @]
Leave(s) == exec' = [exec EXCEPT ![s] = Free]

\* Ownership is confirmed by a renewal before the handler starts.  Whatever
\* goes wrong here leaves the task to lease expiry.
Start(s) ==
  \E d \in RenewDurations :
    LET r == Request("renew", Token(s), d) IN
    /\ exec[s].pc = "check"
    /\ \/ /\ Accepts(r) /\ Serve(r)
          /\ Become(s, [pc |-> "run", expires |-> active'[exec[s].id].expires])
          /\ UNCHANGED late
       \/ ~Accepts(r) /\ Leave(s) /\ UNCHANGED <<vars, late>>
       \/ CallFails(r) /\ Leave(s)
    /\ UNCHANGED <<proc, processed, takenBy>>

\* A renewal of the running session, by the heartbeat or by the handler.  It is
\* bounded by the current window, and its first failure is final.
Heartbeat(s) ==
  \E d \in RenewDurations :
    LET r == Request("renew", Token(s), d) IN
    /\ exec[s].pc = "run" /\ ~exec[s].lost /\ exec[s].expires > now
    /\ proc[Owner(s)] # "cancelled"
    /\ \/ /\ Accepts(r) /\ Serve(r)
          /\ Become(s, [expires |-> active'[exec[s].id].expires])
          /\ UNCHANGED late
       \/ ~Accepts(r) /\ Become(s, [lost |-> TRUE]) /\ UNCHANGED <<vars, late>>
       \/ CallFails(r) /\ Become(s, [lost |-> TRUE])
    /\ UNCHANGED <<proc, processed, takenBy>>

\* The heartbeat finds that the window has passed.
Expire(s) ==
  /\ exec[s].pc = "run" /\ ~exec[s].lost /\ exec[s].expires <= now
  /\ Become(s, [lost |-> TRUE])
  /\ UNCHANGED <<vars, proc, late, processed, takenBy>>

\* What processTask does without a confirmed outcome.
Unconfirmed(s) ==
  IF proc[Owner(s)] = "cancelled" THEN Become(s, [pc |-> "refresh", tries |-> 0])
                                  ELSE Leave(s)

\* The handler returns or its context is cancelled, and the heartbeat stops.
HandlerDone(s) ==
  /\ exec[s].pc = "run"
  /\ IF proc[Owner(s)] = "cancelled" \/ exec[s].lost
     THEN Unconfirmed(s)
     ELSE \E k \in Outcomes : Become(s, [pc |-> "report", kind |-> k])
  /\ UNCHANGED <<vars, proc, late, processed, takenBy>>

\* Mutant: a conflict is taken for an outcome that was already recorded.
ReportConflictConfirms(s) ==
  \E w \in Waits :
    LET r == Request(exec[s].kind, Token(s), w) IN
    /\ exec[s].pc = "report"
    /\ \/ /\ Accepts(r) /\ Serve(r)
       \/ ~Accepts(r) /\ UNCHANGED vars
    /\ processed' = [processed EXCEPT ![Owner(s)] =
                       @ + (IF exec[s].kind = "success" THEN 1 ELSE 0)]
    /\ Leave(s) /\ UNCHANGED <<proc, takenBy, late>>

\* reportOutcome: a conflict ends it, any other error is tried again until the
\* attempts or the time for them are used up.
Report(s) ==
  \E w \in Waits :
    LET r == Request(exec[s].kind, Token(s), w) IN
    /\ exec[s].pc = "report"
    /\ \/ /\ Accepts(r) /\ Serve(r) /\ Leave(s)
          /\ processed' = [processed EXCEPT ![Owner(s)] =
                             @ + (IF exec[s].kind = "success" THEN 1 ELSE 0)]
          /\ UNCHANGED late
       \/ ~Accepts(r) /\ Unconfirmed(s) /\ UNCHANGED <<vars, late, processed>>
       \/ /\ CallFails(r) /\ UNCHANGED processed
          /\ \/ /\ exec[s].tries + 1 < MaxAttempts /\ proc[Owner(s)] # "cancelled"
                /\ Become(s, [tries |-> exec[s].tries + 1])
             \/ Unconfirmed(s)
    /\ UNCHANGED <<proc, takenBy>>

-----------------------------------------------------------------------------
(***************************************************************************)
(* archiveInterruptedTask.                                                 *)
(***************************************************************************)
\* Mutant: attempts are not counted.
AgainForever(s) == Become(s, [pc |-> "refresh"])

\* Another attempt, unless they or the time for them are used up.
Again(s) ==
  \/ /\ exec[s].tries + 1 < MaxAttempts
     /\ Become(s, [pc |-> "refresh", tries |-> exec[s].tries + 1])
  \/ Leave(s)

\* The row's current lease is this process's own, and it has not expired.
QuarantineAllowed(s, i) ==
  /\ i \in DOMAIN active
  /\ active[i].owner = Owner(s) /\ active[i].expires # NULL /\ active[i].expires > now

\* The current token is read.
Refresh(s) ==
  LET i == exec[s].id IN
  /\ exec[s].pc = "refresh"
  /\ \/ /\ QuarantineAllowed(s, i)
        /\ Become(s, [pc |-> "quarantine", expires |-> active[i].expires,
                      kind |-> active[i].owner])
     \/ ~QuarantineAllowed(s, i) /\ Leave(s)
     \/ Again(s)
  /\ UNCHANGED <<vars, proc, late, processed, takenBy>>

\* The task is archived as a permanent failure under the token just read.
Quarantine(s) ==
  LET r == Request("failure", [Token(s) EXCEPT !.owner = exec[s].kind], 0) IN
  /\ exec[s].pc = "quarantine"
  /\ \/ Accepts(r) /\ Serve(r) /\ Leave(s) /\ UNCHANGED late
     \/ ~Accepts(r) /\ Again(s) /\ UNCHANGED <<vars, late>>
     \/ CallFails(r) /\ Again(s)
  /\ UNCHANGED <<proc, processed, takenBy>>

-----------------------------------------------------------------------------
(***************************************************************************)
(* The life of a process: the context is cancelled, the drain budget ends, *)
(* and it exits when its slots are free or the grace period is over.  A    *)
(* crash is an exit at any time; a restarted worker has another owner.     *)
(***************************************************************************)
Stop(o) == proc[o] = "running" /\ proc' = [proc EXCEPT ![o] = "draining"]
           /\ UNCHANGED <<vars, exec, late, processed, takenBy>>

DrainEnds(o) == proc[o] = "draining" /\ proc' = [proc EXCEPT ![o] = "cancelled"]
                /\ UNCHANGED <<vars, exec, late, processed, takenBy>>

Exit(o) ==
  /\ proc[o] # "down"
  /\ proc' = [proc EXCEPT ![o] = "down"]
  /\ exec' = [s \in Slots |-> IF Owner(s) = o THEN Free ELSE exec[s]]
  /\ UNCHANGED <<vars, late, processed, takenBy>>

\* The queue's clock and its other clients.
Others ==
  /\ \/ Tick
     \/ \E c \in Classes : Enqueue(c, NULL)
     \/ \E i \in DOMAIN active : Cancel(i)
  /\ UNCHANGED <<proc, exec, late, processed, takenBy>>

SlotStep(s) ==
  Start(s) \/ HandlerDone(s) \/ Report(s) \/ Refresh(s) \/ Quarantine(s)

WorkerNext ==
  \/ Others
  \/ Deliver
  \/ \E s \in Slots :
        \/ \E i \in DOMAIN active : LeaseTask(s, i)
        \/ Heartbeat(s)
        \/ Expire(s)
        \/ SlotStep(s)
  \/ \E o \in Owners : Stop(o) \/ DrainEnds(o) \/ Exit(o)

WorkerSpec == WorkerInit /\ [][WorkerNext]_workerVars

\* Calls have deadlines, and a cancelled handler is not waited for, so a slot
\* whose process is cancelled does not rest.
CancelledStep(s) == proc[Owner(s)] = "cancelled" /\ SlotStep(s)
FairWorkerSpec == WorkerSpec /\ \A s \in Slots : WF_workerVars(CancelledStep(s))

-----------------------------------------------------------------------------
\* Slots, requests and counters are what the code can hold.
WorkerTypeOK ==
  /\ proc \in [Owners -> {"running", "draining", "cancelled", "down"}]
  /\ \A s \in Slots :
       /\ exec[s].pc \in {"free", "check", "run", "report", "refresh", "quarantine"}
       /\ exec[s].pc # "free" =>
            /\ exec[s].id \in 1..counter /\ exec[s].tries \in 0..(MaxAttempts - 1)
            /\ proc[Owner(s)] # "down"
  /\ \A o \in Owners : processed[o] \in Nat

\* Counters advance only after the queue recorded the outcome, and once per
\* task: retried reports, lost replies and executions of the same task by
\* other workers never make the processes claim more tasks than there are
\* successes in the archive.
ProcessedRecorded ==
  MapThenSumSet(LAMBDA o : processed[o], Owners)
    <= Cardinality({i \in DOMAIN archive : archive[i].result = "success"})

\* Two executions never hold the same live lease: among the slots that run or
\* report a task, whatever process they are of, at most one has the token the
\* queue would accept.
OneHolder ==
  \A s, t \in Slots :
    /\ exec[s].pc \in {"check", "run", "report"} /\ exec[t].pc \in {"check", "run", "report"}
    /\ Holds(Token(s)) /\ Token(s) = Token(t)
    => s = t

\* Shutdown recovery never takes over another worker's lease: a quarantine ends
\* no lease but one of its own process.
QuarantinesOwnProcessStep ==
  \A s \in Slots :
    exec[s].pc = "quarantine" /\ exec[s].id \in DOMAIN active /\ exec'[s].pc = "free"
    /\ exec[s].id \in DOMAIN archive' => active[exec[s].id].owner = Owner(s)
QuarantinesOwnProcess == [][QuarantinesOwnProcessStep]_workerVars

\* A task is quarantined only if it still belongs to this execution.
QuarantinesOwnExecutionStep ==
  \A s \in Slots :
    exec[s].pc = "quarantine" /\ exec[s].id \in DOMAIN active /\ exec'[s].pc = "free"
    /\ exec[s].id \in DOMAIN archive' => takenBy[exec[s].id] = s
QuarantinesOwnExecution == [][QuarantinesOwnExecutionStep]_workerVars

\* After the drain budget every slot comes to its end, whatever the queue
\* answers: the archive attempts are bounded.
DrainTerminates ==
  \A s \in Slots : proc[Owner(s)] = "cancelled" ~> exec[s].pc = "free"

\* A worker acts on its own work only: two executions never believe in the
\* same unexpired lease, what counts as processed is recorded by the queue, and
\* a quarantine stays within the process (consumer.go).
WorkerOwnsItsWork == [](WorkerTypeOK /\ ProcessedRecorded /\ OneHolder) /\ QuarantinesOwnProcess

-----------------------------------------------------------------------------
(* Two worker processes, the first with two slots.                         *)
MCFollowups == [c \in Classes |-> 0]
MCProcOf == [s \in Slots |-> IF s = "s3" THEN "w2" ELSE "w1"]
=============================================================================
