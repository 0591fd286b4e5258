------------------------------ MODULE Cleanup ------------------------------
(***************************************************************************)
(* gorge-maintenance: collectors delete old rows of registered tables in   *)
(* short batches, under a lease of the collector's control row.  PHP and   *)
(* the service hand the ownership of a collector to each other through a   *)
(* pause; PHP marks the control row while it changes a retention policy.   *)
(*                                                                         *)
(* Each transaction locks the control row, so it is one step.  Times are   *)
(* relative: a lease, a waiting time and the batch budget count down, and  *)
(* rows and cutoffs grow older with every tick, up to MaxAge.  ownerEpoch  *)
(* and fence only grow and are only compared for equality with the values  *)
(* a lease was given: current says whether they are still equal.           *)
(***************************************************************************)
EXTENDS Integers, FiniteSets, FiniteSetsExt, TLC

CONSTANTS
  Collectors, GcRows,  \* collectors of one database, and the rows of each table
  Retentions,    \* policies: an age in ticks (0: expires_at), or Indefinite
  Indefinite,
  Lanes,         \* background loops (Store.Run) of all instances
  Commands,      \* run-once commands of operators
  LeaseTicks,    \* life of a lease (15 s)
  GapTicks,      \* distance of two batches of a database (200 ms)
  RunTicks, RunRows, BatchRows, IntervalTicks,  \* budgets of a policy
  MaxShift,      \* the failure count the delay stops growing at (6)
  MaxAge         \* bound: ages

Free == "nobody"

ASSUME CleanupAssumption ==
  /\ Retentions \ {Indefinite} \subseteq Int /\ MaxAge \in Int
  /\ Free \notin Lanes \cup Commands

NoLease == [next |-> "none"]

VARIABLES
  gc,        \* collector -> its gorge_gc_control row
  budget,    \* ticks until the __database_budget__ row permits a batch
  age,       \* collector -> row -> its age, or -1 when there is no such row
  lane,      \* loop -> collector -> the lease it works under, or NoLease
  config,    \* collector -> PHP's retention policy
  changing   \* collectors whose policy a PHP command is changing

gcVars == <<gc, budget, age, lane, config, changing>>

Older(n) == IF n < MaxAge THEN n + 1 ELSE n
Shorter(n) == IF n > 0 THEN n - 1 ELSE 0

GcInit ==
  /\ config \in [Collectors -> Retentions]
  /\ gc = [c \in Collectors |->
       [owner |-> "php", policy |-> config[c], intact |-> TRUE,
        holder |-> Free, lease |-> 0, wait |-> 0, cutoff |-> 0, state |-> "idle", failures |-> 0]]
  /\ budget = 0
  /\ age = [c \in Collectors |-> [r \in GcRows |-> -1]]
  /\ lane = [l \in Lanes \cup Commands |-> [c \in Collectors |-> NoLease]]
  /\ changing = {}

GcTick ==
  /\ gc' = [c \in Collectors |-> [gc[c] EXCEPT !.lease = Shorter(@), !.wait = Shorter(@),
              !.cutoff = Older(@)]]
  /\ budget' = Shorter(budget)
  /\ age' = [c \in Collectors |-> [r \in GcRows |->
              IF age[c][r] = -1 THEN -1 ELSE Older(age[c][r])]]
  /\ lane' = [l \in DOMAIN lane |-> [c \in Collectors |->
              IF lane[l][c] = NoLease THEN NoLease
              ELSE [lane[l][c] EXCEPT !.cutoff = Older(@),
                      !.left = Shorter(@)]]]
  /\ UNCHANGED <<config, changing>>

\* Raising the fence of c makes every lease handed out before stale.
Outdated(c) ==
  [l \in DOMAIN lane |->
     IF lane[l][c] = NoLease THEN lane[l] ELSE [lane[l] EXCEPT ![c].current = FALSE]]

Released(row) == [row EXCEPT !.holder = Free, !.lease = 0, !.wait = 0]

-----------------------------------------------------------------------------
(***************************************************************************)
(* Operators and PHP.                                                      *)
(***************************************************************************)
\* import: the policy of a PHP export, read at the time of the import.
Import(c) ==
  /\ gc[c].state # "policy_changing" /\ gc[c].owner \in {"php", "paused"}
  /\ gc' = [gc EXCEPT ![c] = [Released(@) EXCEPT !.policy = config[c], !.intact = TRUE,
              !.state = "idle", !.failures = 0]]
  /\ lane' = Outdated(c)
  /\ UNCHANGED <<budget, age, config, changing>>

Decodes(row) == row.intact

\* pause and resume.
Transfer(c, owner) ==
  /\ owner # "paused" => gc[c].owner = "paused"
  /\ owner = "gorge" => Decodes(gc[c])
  /\ gc' = [gc EXCEPT ![c] = [Released(@) EXCEPT !.owner = owner, !.state = owner]]
  /\ lane' = Outdated(c)
  /\ UNCHANGED <<budget, age, config, changing>>

\* PHP's set-policy: the stored policy is made invalid before the
\* configuration is written, and marked when the write is done.
ChangeBegins(c) ==
  /\ c \notin changing /\ gc[c].owner # "gorge"
  /\ gc' = [gc EXCEPT ![c].intact = FALSE, ![c].state = "policy_changing"]
  /\ changing' = changing \cup {c}
  /\ lane' = Outdated(c)
  /\ UNCHANGED <<budget, age, config>>

ChangeEnds(c) ==
  /\ c \in changing
  /\ \E p \in Retentions : config' = [config EXCEPT ![c] = p]
  /\ gc' = [gc EXCEPT ![c].state = "policy_pending"]
  /\ changing' = changing \ {c}
  /\ UNCHANGED <<budget, age, lane>>

\* PHP's own garbage collection, guarded by the control row.
PhpCollects(c) ==
  /\ gc[c].owner = "php" /\ config[c] # Indefinite
  /\ age' = [age EXCEPT ![c] = [r \in GcRows |-> IF @[r] > config[c] THEN -1 ELSE @[r]]]
  /\ UNCHANGED <<gc, budget, lane, config, changing>>

\* The application writes or refreshes a row.
Touch(c, r) ==
  /\ age' = [age EXCEPT ![c][r] = 0]
  /\ UNCHANGED <<gc, budget, lane, config, changing>>

-----------------------------------------------------------------------------
(***************************************************************************)
(* The lane.                                                               *)
(***************************************************************************)
LaneLease(l, c) == lane[l][c]
LetGo(l, c) == lane' = [lane EXCEPT ![l][c] = NoLease]

Unheld(row) == row.holder = Free
Expired(row) == row.lease = 0

Claim(l, c) ==
  /\ LaneLease(l, c) = NoLease
  /\ gc[c].owner = "gorge" /\ Decodes(gc[c]) /\ gc[c].policy # Indefinite
  /\ Expired(gc[c])
  /\ l \in Commands \/ gc[c].wait = 0            \* force
  /\ gc' = [gc EXCEPT ![c] = [@ EXCEPT !.holder = l, !.lease = LeaseTicks,
              !.cutoff = gc[c].policy, !.state = "running"]]
  /\ \/ lane' = [Outdated(c) EXCEPT ![l][c] =
                   [current |-> TRUE, cutoff |-> gc[c].policy, policy |-> gc[c].policy,
                    left |-> RunTicks, rows |-> 0, next |-> "batch"]]
     \/ lane' = Outdated(c)                       \* the commit's answer is lost
  /\ UNCHANGED <<budget, age, config, changing>>

NoCheck(l, c) == TRUE
checkLease(l, c) ==
  /\ gc[c].owner = "gorge" /\ LaneLease(l, c).current
  /\ gc[c].holder = l /\ gc[c].lease > 0 /\ gc[c].cutoff = LaneLease(l, c).cutoff

Limit(l, c) == Min({BatchRows, RunRows - LaneLease(l, c).rows})

InBudget(l, c) == LaneLease(l, c).left > 0 /\ LaneLease(l, c).rows < RunRows

PolicyUnchanged(l, c) == Decodes(gc[c]) /\ gc[c].policy = LaneLease(l, c).policy

\* deleteSQL: the oldest rows older than the cutoff, ties in any order.
Victims(l, c) ==
  LET due == {r \in GcRows : age[c][r] > LaneLease(l, c).cutoff}
  IN {del \in SUBSET due :
        /\ Cardinality(del) = Min({Limit(l, c), Cardinality(due)})
        /\ \A r \in del, s \in due \ del : age[c][r] >= age[c][s]}

Batch(l, c) ==
  /\ LaneLease(l, c) # NoLease /\ LaneLease(l, c).next = "batch" /\ InBudget(l, c)
  /\ checkLease(l, c) /\ PolicyUnchanged(l, c)
  /\ budget = 0
  /\ \E del \in Victims(l, c) :
       /\ age' = [age EXCEPT ![c] = [r \in GcRows |-> IF r \in del THEN -1 ELSE @[r]]]
       /\ \/ lane' = [lane EXCEPT ![l][c].rows = @ + Cardinality(del),
                        ![l][c].next = IF Cardinality(del) < Limit(l, c) THEN "exhausted" ELSE "batch"]
          \/ lane' = [lane EXCEPT ![l][c].next = "failed"]   \* the commit's answer is lost
  /\ gc' = [gc EXCEPT ![c].lease = LeaseTicks, ![c].failures = 0]
  /\ budget' = GapTicks
  /\ UNCHANGED <<config, changing>>

\* The lease or the policy is not this lane's any more: it lets go.
BatchConflict(l, c) ==
  /\ LaneLease(l, c) # NoLease /\ LaneLease(l, c).next = "batch" /\ InBudget(l, c)
  /\ ~(checkLease(l, c) /\ PolicyUnchanged(l, c))
  /\ LetGo(l, c)
  /\ UNCHANGED <<gc, budget, age, config, changing>>

\* The schema, the plan, a statement or the connection fails.
BatchFails(l, c) ==
  /\ LaneLease(l, c) # NoLease /\ LaneLease(l, c).next = "batch" /\ InBudget(l, c)
  /\ lane' = [lane EXCEPT ![l][c].next = "failed"]
  /\ UNCHANGED <<gc, budget, age, config, changing>>

Outcome(l, c) == IF LaneLease(l, c).next = "batch" THEN "budget_exhausted" ELSE LaneLease(l, c).next

\* Finish; a lane that lost its lease changes nothing.
Finished(row, how) ==
  LET failures == IF how = "failed" THEN Min({row.failures + 1, MaxShift}) ELSE 0
  IN [row EXCEPT !.holder = Free, !.lease = 0, !.state = how, !.failures = failures,
        !.wait = CASE how = "exhausted" -> IntervalTicks
                   [] how = "budget_exhausted" -> 1
                   [] how = "failed" -> 2^failures]

Finish(l, c) ==
  /\ LaneLease(l, c) # NoLease /\ (LaneLease(l, c).next # "batch" \/ ~InBudget(l, c))
  /\ \/ checkLease(l, c) /\ gc' = [gc EXCEPT ![c] = Finished(@, Outcome(l, c))]
     \/ UNCHANGED gc                  \* ErrConflict, or the statement fails
  /\ LetGo(l, c)
  /\ UNCHANGED <<budget, age, config, changing>>

\* The process stops; its leases run out by themselves.
LaneCrash(l) ==
  /\ \E c \in Collectors : LaneLease(l, c) # NoLease
  /\ lane' = [lane EXCEPT ![l] = [c \in Collectors |-> NoLease]]
  /\ UNCHANGED <<gc, budget, age, config, changing>>

GcNext ==
  \/ GcTick
  \/ \E c \in Collectors :
       \/ Import(c) \/ ChangeBegins(c) \/ ChangeEnds(c) \/ PhpCollects(c)
       \/ \E owner \in {"php", "paused", "gorge"} : Transfer(c, owner)
       \/ \E r \in GcRows : Touch(c, r)
       \/ \E l \in DOMAIN lane :
            Claim(l, c) \/ Batch(l, c) \/ BatchConflict(l, c) \/ BatchFails(l, c) \/ Finish(l, c)
  \/ \E l \in DOMAIN lane : LaneCrash(l)

GcSpec == GcInit /\ [][GcNext]_gcVars

-----------------------------------------------------------------------------
\* A row only disappears by the hand of the current owner and under the policy
\* in force, though lanes keep leases across pauses, imports and expiries: a
\* deletion by the service happens while it owns the collector, and only of
\* rows past the retention that is imported at that moment.
DeletedUnderPolicy ==
  [][\A c \in Collectors, r \in GcRows :
        age[c][r] # -1 /\ age'[c][r] = -1 =>
          \/ gc[c].owner = "php" /\ age[c][r] > config[c]
          \/ gc[c].owner = "gorge" /\ gc[c].intact /\ age[c][r] > gc[c].policy]_gcVars

\* A lane that lost its lease to another one cannot give the other's lease
\* back: a lease ends by the step in which its holder lets go, by a claim, or by
\* an operator.
LeaseKept ==
  [][\A c \in Collectors :
        gc[c].holder # Free /\ gc'[c].holder = Free /\ gc'[c].owner = gc[c].owner =>
          LaneLease(gc[c].holder, c) # NoLease /\ lane'[gc[c].holder][c] = NoLease]_gcVars

\* While the service keeps a collector and its policy, an old row does not
\* survive for ever, whatever lanes crash, lose answers or fail.
Garbage(c, r) ==
  gc[c].owner = "gorge" /\ gc[c].intact /\ gc[c].policy # Indefinite /\ age[c][r] > gc[c].policy

GarbageCollected ==
  \A c \in Collectors, r \in GcRows : Garbage(c, r) ~> ~Garbage(c, r)

\* Rows go only under the policy in force for their owner, and a lease is given
\* up only by the lane that holds it or by a change of the owner (Batch, Finish).
CollectsUnderLease == DeletedUnderPolicy /\ LeaseKept
=============================================================================
