------------------------------ MODULE DbProxy ------------------------------
(***************************************************************************)
(* The write path kept for Phorge's database connections (dbproxy): the    *)
(* router's cached pools, nested transactions on savepoints, and retried   *)
(* queries.  MySQL's side of a transaction is its work so far and its      *)
(* savepoints; a lost connection rolls it back.  intent is what the nested *)
(* Begin, Commit and Rollback calls mean: the work at each open Begin.     *)
(***************************************************************************)
EXTENDS Integers, Sequences, SequencesExt, FiniteSets

CONSTANTS
  Writes,       \* the statements callers execute, each once
  MaxDepth,     \* bound: nesting
  MaxTries,  \* RetryPolicy
  PoolUsers, Nodes   \* of the router; Nodes holds "master" and "replica"

VARIABLES
  depth,     \* TxManager.depth
  alive,     \* MySQL still has the transaction
  work,      \* what the open transaction has written
  saves,     \* its savepoints: name -> the work when it was set
  intent,    \* the work at every Begin that is open
  table,     \* what is committed
  applied,   \* statement -> how often it ran outside a transaction
  query,     \* the statement that runs outside a transaction, and its attempts
  up,        \* nodes that answer
  pools,     \* connection pools: [node, by], open
  conns,     \* Router.conns: node -> the cached pool
  caller,    \* caller of the router -> stage, node and pool
  readOnly,  \* Router.readOnly
  closed     \* Close has run

txVars == <<depth, alive, work, saves, intent, table, applied, query>>
routerVars == <<up, pools, conns, caller, readOnly, closed>>

NoQuery == [write |-> "none"]
NoPool == [by |-> "none"]

DbInit ==
  /\ depth = 0 /\ alive = FALSE /\ work = {} /\ saves = <<>> /\ intent = <<>> /\ table = {}
  /\ applied = [w \in Writes |-> 0] /\ query = NoQuery
  /\ up \in SUBSET Nodes
  /\ pools = {} /\ conns = [n \in Nodes |-> NoPool] /\ readOnly = FALSE /\ closed = FALSE
  /\ caller = [c \in PoolUsers |-> [stage |-> "idle"]]

-----------------------------------------------------------------------------
(***************************************************************************)
(* TxManager.                                                              *)
(***************************************************************************)
BeforeUnwinding(d) == d + 1   \* a bug: the name is made before depth is lowered
savepointName(d) == d

Begin ==
  /\ depth < MaxDepth
  /\ \/ depth = 0 /\ alive' = TRUE /\ work' = {} /\ saves' = <<>> /\ table' = table
     \/ depth > 0 /\ alive /\ UNCHANGED <<alive, work, table>>
        /\ saves' = [n \in DOMAIN saves \cup {depth} |-> IF n = depth THEN work ELSE saves[n]]
  /\ depth' = depth + 1
  /\ intent' = Append(intent, work')
  /\ UNCHANGED <<applied, query>>

Commit ==
  /\ depth > 0
  /\ depth' = depth - 1
  /\ table' = IF depth = 1 /\ alive THEN table \cup work ELSE table
  /\ alive' = (alive /\ depth > 1)
  /\ intent' = Front(intent)
  /\ UNCHANGED <<work, saves, applied, query>>

\* ROLLBACK TO SAVEPOINT drops the savepoints set after it
Rollback ==
  LET name == savepointName(depth - 1)
  IN /\ depth > 0
     /\ depth' = depth - 1
     /\ IF depth = 1 \/ ~alive THEN alive' = (alive /\ depth > 1) /\ UNCHANGED <<work, saves>>
        ELSE /\ alive' = alive
             /\ work' = IF name \in DOMAIN saves THEN saves[name] ELSE work
             /\ saves' = [n \in {n \in DOMAIN saves : n <= name} |-> saves[n]]
     /\ intent' = Front(intent)
     /\ UNCHANGED <<table, applied, query>>

\* queryContext: a statement inside the transaction, once
TxExecute(w) ==
  /\ depth > 0 /\ alive /\ w \notin work \cup table
  /\ work' = work \cup {w}
  /\ UNCHANGED <<depth, alive, saves, intent, table, applied, query>>

\* the connection is lost, or the transaction's context ends
ConnectionLost ==
  /\ alive
  /\ alive' = FALSE
  /\ UNCHANGED <<depth, work, saves, intent, table, applied, query>>

\* QueryWithRetry without a transaction
QueryStarts(w, read) ==
  /\ query = NoQuery /\ depth = 0 /\ applied[w] = 0
  /\ query' = [write |-> w, read |-> read, attempt |-> 1]
  /\ UNCHANGED <<depth, alive, work, saves, intent, table, applied>>

Retries(q) == q.read /\ q.attempt < MaxTries

\* an attempt: it ran or not, and its answer comes or is lost
QueryAttempt ==
  /\ query # NoQuery
  /\ \E ran \in {0, 1}, answered \in BOOLEAN :
       /\ answered => ran = 1
       /\ applied' = [applied EXCEPT ![query.write] = @ + (IF query.read THEN 0 ELSE ran)]
       /\ query' = IF ~answered /\ Retries(query) THEN [query EXCEPT !.attempt = @ + 1] ELSE NoQuery
  /\ UNCHANGED <<depth, alive, work, saves, intent, table>>

TxNext ==
  \/ Begin \/ Commit \/ Rollback \/ ConnectionLost \/ QueryAttempt
  \/ \E w \in Writes : TxExecute(w) \/ \E read \in BOOLEAN : QueryStarts(w, read)

-----------------------------------------------------------------------------
(***************************************************************************)
(* Router.                                                                 *)
(***************************************************************************)
Enter(c, kind) ==
  /\ caller[c].stage = "idle"
  /\ kind = "write" => ~readOnly
  /\ caller' = [caller EXCEPT ![c] = [stage |-> "lookup", kind |-> kind, node |-> "master"]]
  /\ UNCHANGED <<up, pools, conns, readOnly, closed>>

Given(c, pool) == [caller EXCEPT ![c] = [stage |-> "done", kind |-> caller[c].kind, node |-> caller[c].node, pool |-> pool]]

Cached(c) ==
  /\ caller[c].stage = "lookup" /\ conns[caller[c].node] # NoPool
  /\ caller' = Given(c, conns[caller[c].node])
  /\ UNCHANGED <<up, pools, conns, readOnly, closed>>

Connects(c) ==
  LET n == caller[c].node IN
  /\ caller[c].stage = "lookup" /\ conns[n] = NoPool /\ n \in up
  /\ pools' = pools \cup {[node |-> n, by |-> c]}
  /\ caller' = [caller EXCEPT ![c] = [@ EXCEPT !.stage = "insert"]]
  /\ UNCHANGED <<up, conns, readOnly, closed>>

\* GetReader falls back to the replica and latches readOnly; GetWriter fails
ConnectFails(c) ==
  LET n == caller[c].node IN
  /\ caller[c].stage = "lookup" /\ conns[n] = NoPool /\ n \notin up
  /\ readOnly' = (readOnly \/ (caller[c].kind = "read" /\ n = "master"))
  /\ caller' = [caller EXCEPT ![c] = IF @.kind = "read" /\ n = "master" THEN [@ EXCEPT !.node = "replica"]
                                     ELSE [stage |-> "failed", kind |-> @.kind]]
  /\ UNCHANGED <<up, pools, conns, closed>>

CachedMeanwhile(n) == conns[n] # NoPool

Inserts(c) ==
  LET n == caller[c].node
      mine == [node |-> n, by |-> c]
  IN /\ caller[c].stage = "insert"
     /\ IF CachedMeanwhile(n)
        THEN pools' = pools \ {mine} /\ caller' = Given(c, conns[n]) /\ UNCHANGED conns
        ELSE conns' = [conns EXCEPT ![n] = mine] /\ caller' = Given(c, mine) /\ UNCHANGED pools
     /\ UNCHANGED <<up, readOnly, closed>>

NodeChanges(n) ==
  /\ up' = IF n \in up THEN up \ {n} ELSE up \cup {n}
  /\ UNCHANGED <<pools, conns, caller, readOnly, closed>>

\* Router.Close, on shutdown; a caller that is connecting is not stopped
RouterClose ==
  /\ ~closed
  /\ closed' = TRUE
  /\ pools' = pools \ {conns[n] : n \in Nodes}
  /\ conns' = [n \in Nodes |-> NoPool]
  /\ UNCHANGED <<up, caller, readOnly>>

RouterNext ==
  \/ RouterClose
  \/ \E c \in PoolUsers : \/ \E kind \in {"read", "write"} : Enter(c, kind)
                        \/ Cached(c) \/ Connects(c) \/ ConnectFails(c) \/ Inserts(c)
  \/ \E n \in Nodes : NodeChanges(n)

-----------------------------------------------------------------------------
(* Rolling back a nested level undoes what was written since its Begin and
   nothing else, though levels that were committed or rolled back before
   left their savepoints behind under the same names. *)
NestedRollback ==
  [][Rollback /\ alive' => work' = Last(intent)]_txVars

(* A write that runs outside a transaction runs at most once, whatever
   answers are lost. *)
WriteRunsOnce == \A w \in Writes : applied[w] <= 1

(* Until the router is closed, callers that were given a pool of the same node
   share it and it is open; and at any time the only open pools are the cached
   ones and those of callers about to cache theirs. *)
OnePool ==
  /\ \A c \in PoolUsers : caller[c].stage = "done" /\ ~closed =>
        caller[c].pool = conns[caller[c].node] /\ caller[c].pool \in pools
  /\ \A p \in pools : p = conns[p.node] \/ caller[p.by].stage = "insert"

\* Retries, savepoints and the pool cache do not show: no write runs twice, a
\* rollback restores the work at its Begin, a node has one pool (dbproxy).
ProxyTransparent == [](WriteRunsOnce /\ OnePool) /\ NestedRollback
=============================================================================
