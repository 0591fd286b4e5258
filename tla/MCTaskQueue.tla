---------------------------- MODULE MCTaskQueue ----------------------------
(***************************************************************************)
(* The queue on a small instance: its contract, and the Redis store that   *)
(* implements it.  The initial state picks the subject, and only the       *)
(* subject moves.                                                          *)
(***************************************************************************)
EXTENDS RedisStore, TLC

VARIABLE subject

MCFollowups == [c \in Classes |-> IF c = "parent" THEN 1 ELSE 0]
\* The children are more urgent than their parents.
MCPriority == [c \in Classes |-> IF c = "parent" THEN 2 ELSE 1]
\* Any class, or leaves only.
MCFilters == {{}, {"leaf"}}

QueueInit == subject \in {"contract", "redis"} /\ RedisInit

\* Bounds: the contract has three tasks, but less time, fewer failures and no
\* leaf of its own.
ContractBound ==
  /\ now' <= 2 /\ \A i \in DOMAIN active' : active'[i].failures <= 1
  /\ \A i \in DOMAIN active' \ DOMAIN active : active'[i].class = "parent" \/ origin'[i].parent # 0

\* Beside the contract, the sets and counters are what its tables call for.
Reindexed ==
  /\ idxActive' = DOMAIN active'
  /\ idxUnleased' = {i \in DOMAIN active' : active'[i].expires = NULL}
  /\ idxLeased' = [i \in DOMAIN active' \ idxUnleased' |-> active'[i].expires]
  /\ counterFailed' = Cardinality({i \in DOMAIN active' : active'[i].failures > 0})
  /\ counterArchived' = Cardinality(DOMAIN archive')

QueueNext ==
  /\ UNCHANGED subject
  /\ \/ subject = "contract" /\ Next /\ ContractBound /\ Reindexed
     \/ subject = "redis" /\ RedisNext /\ counter' <= 2

QueueSpec == QueueInit /\ [][QueueNext]_<<redisVars, subject>>

Symmetry == Permutations(Owners)
=============================================================================
