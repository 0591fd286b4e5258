----------------------------- MODULE SourceScan -----------------------------
(***************************************************************************)
(* A source scan (projection/source_scan.go, source_scan_worker.go): the   *)
(* job freezes a catalog of classes and upper ids, replicas lease a shard, *)
(* fetch a page from the source service, send its snapshots to the target  *)
(* inbox and commit the cursor; the last shard creates the control rebuild.*)
(* The source service is external: it may answer with any page, and        *)
(* ValidatePage decides.                                                   *)
(***************************************************************************)
EXTENDS Clock, FiniteSets

CONSTANTS
  Classes,      \* searchable classes
  Catalogs,     \* catalogs the source may report: [Classes -> upper id]
  SourceRows,   \* [Classes -> set of existing ids]
  PageRows,     \* items of a page (32)
  Scanners,     \* replicas
  ScanTTL,      \* 30 s lease, in ticks
  MaxScans      \* bound: leases of one shard

ShardRows ==
  [upper : Nat, cursor : Nat, status : {"scanning", "complete"}, counted : Nat,
   owner : Scanners \cup {NULL}, epoch : Nat, expires : Nat, next : Nat]

\* ValidateCatalog refuses an empty catalog; ids are auto-increment keys.
ASSUME ScanAssumption ==
  /\ Classes # {} /\ Catalogs \subseteq [Classes -> Nat]
  /\ \A c \in Classes : SourceRows[c] \subseteq Nat \ {0} /\ IsFiniteSet(SourceRows[c])
  /\ NULL \notin Scanners /\ NULL \notin ShardRows /\ NULL \notin Catalogs
  /\ ScanTTL \in Nat /\ MaxTime \in Nat

VARIABLES
  catalog,    \* search_projection_source_job.catalog, or NULL
  shard,      \* search_projection_source_shard per class, or NULL
  poster,     \* a POST that looked the job up: the catalog it fetched
  scan,       \* the step a replica is in
  accepted,   \* rows whose snapshot reached the target inbox
  absent,     \* rows a page reported missing or without an engine
  control     \* the control rebuild job exists

scanVars == <<catalog, shard, poster, scan, accepted, absent, control>>

Rest == [stage |-> "idle"]

ScanInit ==
  /\ catalog = NULL /\ control = FALSE /\ poster = [x \in Scanners |-> NULL]
  /\ shard = [c \in Classes |-> NULL]
  /\ scan = [x \in Scanners |-> Rest]
  /\ accepted = {} /\ absent = {}

-----------------------------------------------------------------------------
(* POST /source-scans: lookup, catalog from the source, CreateSourceJob.   *)

PostScan(x) ==
  /\ catalog = NULL /\ poster[x] = NULL
  /\ \E k \in Catalogs : poster' = [poster EXCEPT ![x] = k]
  /\ UNCHANGED <<now, catalog, shard, scan, accepted, absent, control>>

\* ON DUPLICATE KEY: the first catalog is frozen and shards are made from it
Frozen(x) == IF catalog = NULL THEN poster[x] ELSE catalog

NewShard(upper) ==
  [upper |-> upper, cursor |-> 0, status |-> "scanning", counted |-> 0,
   owner |-> NULL, epoch |-> 0, expires |-> 0, next |-> 0]

CreateSourceJob(x) ==
  /\ poster[x] # NULL
  /\ catalog' = Frozen(x)
  /\ shard' = [c \in Classes |->
                IF shard[c] = NULL THEN NewShard(Frozen(x)[c]) ELSE shard[c]]
  /\ poster' = [poster EXCEPT ![x] = NULL]
  /\ UNCHANGED <<now, scan, accepted, absent, control>>

-----------------------------------------------------------------------------
(* StepSourceShard.                                                        *)

Leased(row, x) ==
  [row EXCEPT !.owner = x, !.epoch = row.epoch + 1, !.expires = Later(ScanTTL)]

ClaimShard(x, c) ==
  /\ scan[x].stage = "idle" /\ shard[c] # NULL /\ shard[c].status = "scanning"
  /\ shard[c].expires <= now /\ shard[c].next <= now /\ shard[c].epoch < MaxScans
  /\ shard' = [shard EXCEPT ![c] = Leased(shard[c], x)]
  /\ scan' = [scan EXCEPT ![x] =
       [stage |-> "fetch", class |-> c, epoch |-> shard[c].epoch + 1,
        after |-> shard[c].cursor, upper |-> shard[c].upper]]
  /\ UNCHANGED <<now, catalog, poster, accepted, absent, control>>

\* external: pages the source service may answer with
Pages(c, after, upper) ==
  [items : SUBSET {i \in SourceRows[c] : i > after /\ i <= upper},
   next : after..upper, complete : BOOLEAN]

\* external: a source that answers from the table leaves out no row it passes
HonestPage(c, after, p) ==
  \A i \in SourceRows[c] : (i > after /\ i <= p.next) => i \in p.items

\* ValidatePage's progress rules
ValidPage(p, after, upper) ==
  /\ Cardinality(p.items) <= PageRows
  /\ p.complete => p.next = upper
  /\ ~p.complete => p.next # after /\ p.next \in p.items
  /\ \A i \in p.items : i > after /\ i <= p.next

FetchPageOf(x) ==
  /\ scan[x].stage = "fetch"
  /\ \E p \in Pages(scan[x].class, scan[x].after, scan[x].upper) :
       /\ HonestPage(scan[x].class, scan[x].after, p)
       /\ ValidPage(p, scan[x].after, scan[x].upper)
       /\ scan' = [scan EXCEPT ![x] =
            [stage |-> "accept", class |-> @.class, epoch |-> @.epoch, page |-> p, todo |-> p.items]]
  /\ UNCHANGED <<now, catalog, shard, poster, accepted, absent, control>>

\* item by item: a materialized one is accepted for the target, others are
\* only counted
AcceptItem(x) ==
  /\ scan[x].stage = "accept"
  /\ \E i \in scan[x].todo :
       /\ \A j \in scan[x].todo : i <= j
       /\ \/ accepted' = accepted \cup {<<scan[x].class, i>>} /\ UNCHANGED absent
          \/ absent' = absent \cup {<<scan[x].class, i>>} /\ UNCHANGED accepted
       /\ scan' = [scan EXCEPT ![x].todo = @ \ {i}]
  /\ UNCHANGED <<now, catalog, shard, poster, control>>

OwnsShard(x) ==
  shard[scan[x].class].owner = x /\ shard[scan[x].class].epoch = scan[x].epoch

HoldsShard(x) == OwnsShard(x) /\ shard[scan[x].class].expires > now

OthersPending(s, c) == \E d \in Classes : s[d].status # "complete"

Pending(s, c) == \E d \in Classes \ {c} : s[d].status # "complete"

Passing(row, p) ==
  [row EXCEPT !.cursor = p.next, !.counted = row.counted + Cardinality(p.items),
              !.status = IF p.complete THEN "complete" ELSE "scanning",
              !.owner = NULL, !.expires = 0, !.next = Later(1)]

\* under the parent's row lock: cursor, counters and, with the last shard,
\* the control rebuild
CommitShard(x) ==
  LET c == scan[x].class
      p == scan[x].page
  IN /\ scan[x].stage = "accept" /\ scan[x].todo = {} /\ HoldsShard(x)
     /\ shard' = [shard EXCEPT ![c] = Passing(shard[c], p)]
     /\ control' = (control \/ (p.complete /\ ~Pending(shard, c)))
     /\ scan' = [scan EXCEPT ![x] = Rest]
     /\ UNCHANGED <<now, catalog, poster, accepted, absent>>

Returned(row) == [row EXCEPT !.owner = NULL, !.expires = 0, !.next = Later(ScanTTL)]

\* any error, or a lost lease: the deferred release
ScanFails(x) ==
  /\ scan[x].stage # "idle"
  /\ shard' = IF OwnsShard(x)
              THEN [shard EXCEPT ![scan[x].class] = Returned(shard[scan[x].class])]
              ELSE shard
  /\ scan' = [scan EXCEPT ![x] = Rest]
  /\ UNCHANGED <<now, catalog, poster, accepted, absent, control>>

ScanCrash(x) ==
  /\ scan[x].stage # "idle"
  /\ scan' = [scan EXCEPT ![x] = Rest]
  /\ UNCHANGED <<now, catalog, shard, poster, accepted, absent, control>>

ScanTick == Advance /\ UNCHANGED scanVars

ScanNext ==
  \/ ScanTick
  \/ \E x \in Scanners :
       \/ PostScan(x) \/ CreateSourceJob(x) \/ FetchPageOf(x) \/ AcceptItem(x)
       \/ CommitShard(x) \/ ScanFails(x) \/ ScanCrash(x)
       \/ \E c \in Classes : ClaimShard(x, c)

ScanSpec == ClockInit /\ ScanInit /\ [][ScanNext]_<<now, scanVars>>

-----------------------------------------------------------------------------
\* A shard's cursor passes no existing row whose snapshot was neither accepted
\* for the target nor reported absent, and its counters count each of them
\* once, however often a page was fetched again (source_scan_worker.go).
ScanCovers ==
  \A c \in Classes : shard[c] # NULL =>
    LET end == IF shard[c].status = "complete" THEN shard[c].upper ELSE shard[c].cursor
        passed == {i \in SourceRows[c] : i <= end}
    IN
      /\ \A i \in passed : <<c, i>> \in accepted \cup absent
      /\ shard[c].counted = Cardinality(passed)

\* The control rebuild exists exactly when every shard is complete, also when
\* two replicas commit the last two shards at the same time.
ControlWithLast ==
  control <=> \A c \in Classes : shard[c] # NULL /\ shard[c].status = "complete"

\* Shards keep the ranges of the one catalog that was frozen first, whichever
\* of two concurrent requests created them (the check in SourceJob).
FrozenRanges ==
  \A c \in Classes : shard[c] # NULL =>
    shard[c].upper = catalog[c] /\ shard[c].cursor <= shard[c].upper

\* The shards together cover the frozen ranges once, and whoever completes the
\* last one creates the control rebuild (source_scan_worker.go).
ScanComplete == ScanCovers /\ ControlWithLast /\ FrozenRanges
=============================================================================
