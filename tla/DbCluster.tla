----------------------------- MODULE DbCluster -----------------------------
(***************************************************************************)
(* What the database API says of Phorge's MySQL cluster: which node serves *)
(* an application, whether a node is healthy, and where the schema of a    *)
(* replica drifts from its master's.  A schema maps the paths <<database>>,*)
(* <<database, table>> and <<database, table, column>> to attributes; the  *)
(* database of an application carries the application's name.              *)
(***************************************************************************)
EXTENDS Integers, Sequences, SequencesExt, FiniteSets, FiniteSetsExt

CONSTANTS
  Applications,
  ClusterFiles,   \* cluster.databases: sequences of [key, master, disabled, partition]
  Inspected,      \* the files whose nodes are asked as well: a bound
  NodeSchemas,    \* the schemas a node can be found with
  MaxDelay        \* seconds a replica may be behind (30)

VARIABLE inspection   \* one request: the cluster, what was read of its nodes, the answer so far

-----------------------------------------------------------------------------
(***************************************************************************)
(* The cluster and its partitions.                                         *)
(***************************************************************************)
IndividualNode == [key |-> "single", master |-> TRUE, disabled |-> FALSE, individual |-> TRUE,
                   default |-> TRUE, apps |-> {}]

\* a master without a partition serves the default one
NodeOf(spec) ==
  [key |-> spec.key, master |-> spec.master, disabled |-> spec.disabled, individual |-> FALSE,
   default |-> "default" \in spec.partition \/ (spec.partition = {} /\ spec.master),
   apps |-> spec.partition \ {"default"}]

buildClusterFromRaw(specs) ==
  IF specs = <<>> THEN <<IndividualNode>> ELSE [k \in DOMAIN specs |-> NodeOf(specs[k])]

NoRef == [key |-> "nil"]
EnabledRefs(cc, master) == SelectSeq(cc, LAMBDA r : r.master = master /\ ~r.disabled)
IsApplicationHost(r, app) == app \in r.apps
IsDefaultPartition(r, app) == r.default
IsUnpartitioned(r, app) == ~r.default /\ r.apps = {}

ApplicationHosts(refs, app) == SelectSeq(refs, LAMBDA r : IsApplicationHost(r, app))
Defaults(refs, app) == SelectSeq(refs, LAMBDA r : IsDefaultPartition(r, app))
Unpartitioned(refs, app) == SelectSeq(refs, LAMBDA r : IsUnpartitioned(r, app))

FirstRef(found) == IF found = <<>> THEN NoRef ELSE found[1]

OrElse(ref, other) == IF ref # NoRef THEN ref ELSE other

GetMasterForApplication(cc, app) ==
  LET masters == EnabledRefs(cc, TRUE)
  IN OrElse(FirstRef(ApplicationHosts(masters, app)),
            OrElse(FirstRef(Defaults(masters, app)), FirstRef(Unpartitioned(masters, app))))

\* the replicas of the default partition follow its master only
DefaultFollows(cc, app) ==
  LET master == GetMasterForApplication(cc, app) IN master # NoRef /\ master.default

GetReplicaForApplication(cc, app) ==
  LET replicas == EnabledRefs(cc, FALSE)
      default == IF DefaultFollows(cc, app) THEN FirstRef(Defaults(replicas, app)) ELSE NoRef
  IN OrElse(FirstRef(ApplicationHosts(replicas, app)), OrElse(default, FirstRef(Unpartitioned(replicas, app))))

ServesApplication(cc, ref, app) ==
  LET refs == EnabledRefs(cc, ref.master)
  IN /\ ~ref.disabled
     /\ IF ApplicationHosts(refs, app) # <<>> THEN IsApplicationHost(ref, app)
        ELSE IF Defaults(refs, app) # <<>> /\ (ref.master \/ DefaultFollows(cc, app)) THEN ref.default
        ELSE IsUnpartitioned(ref, app)

-----------------------------------------------------------------------------
(***************************************************************************)
(* The health probe.  An observation is what the node answers: error is    *)
(* that of the dial or ping ("auth", "fail"), of the replication statement *)
(* ("1045", "1227", "other") or of its rows ("rows"), or "" for none; a    *)
(* delay of -1 is a lag column that is absent, NULL or not a number.       *)
(***************************************************************************)
Observations ==
  [error : {"auth", "fail", "1045", "1227", "other", "rows"}, replicating : {FALSE},
   threads : {"unknown"}, delay : {-1}]
  \cup [error : {""}, replicating : BOOLEAN, threads : {"running", "stopped", "unknown"},
        delay : {-1, 0, MaxDelay, MaxDelay + 1}]

ProbeReport(connection, replica, delay) == [connection |-> connection, replica |-> replica, delay |-> delay]
recordConnectionFailure(error) == ProbeReport(IF error \in {"auth", "1045"} THEN "auth" ELSE "fail", "", -1)

analyzeReplicaLag(seen) ==
  CASE seen.threads = "stopped" \/ seen.delay = -1 -> ProbeReport("okay", "not-replicating", -1)
    [] OTHER -> ProbeReport("okay", IF seen.delay > MaxDelay THEN "replica-slow" ELSE "okay", seen.delay)

ReplicationOf(ref, seen) ==
  CASE ref.master /\ seen.replicating -> ProbeReport("okay", "master-replica", -1)
    [] ~ref.master /\ ~seen.replicating -> ProbeReport("okay", "replica-none", -1)
    [] ~ref.master /\ seen.replicating -> analyzeReplicaLag(seen)
    [] OTHER -> ProbeReport("okay", "okay", -1)

probeRef(ref, seen) ==
  CASE seen.error \in {"auth", "fail"} -> recordConnectionFailure(seen.error)
    [] seen.error \notin {"auth", "fail"} /\ ref.individual -> ProbeReport("okay", "not-applicable", -1)
    [] seen.error = "1227" /\ ~ref.individual -> ProbeReport("okay", "permission-denied", -1)
    [] seen.error \in {"1045", "other", "rows"} /\ ~ref.individual -> recordConnectionFailure(seen.error)
    [] OTHER -> ReplicationOf(ref, seen)

-----------------------------------------------------------------------------
(***************************************************************************)
(* Schema drift.  A tree maps paths to nodes; a node has attributes and    *)
(* the diagnostics written on it.                                          *)
(***************************************************************************)
NotLoaded == <<"nil">>
TreeOf(schema) == [p \in DOMAIN schema |-> [attrs |-> schema[p], diags |-> <<>>]]
Diagnostic(key, status) == [key |-> key, status |-> status]

sameColumnType(a, b) ==
  LET normalize(v) == CASE v = "int(10)" -> "int"
                        [] v = "int(10) unsigned" -> "int unsigned"
                        [] v = "bigint(20)" -> "bigint"
                        [] v = "bigint(20) unsigned" -> "bigint unsigned"
                        [] OTHER -> v
  IN normalize(a) = normalize(b)

\* what is compared on a database, a table and a column, in order
Compared ==
  <<<<Diagnostic("charset", "warn"), Diagnostic("collation", "warn")>>,
    <<Diagnostic("collation", "warn"), Diagnostic("engine", "warn")>>,
    <<Diagnostic("charset", "warn"), Diagnostic("collation", "warn"), Diagnostic("columntype", "warn"),
      Diagnostic("nullable", "fail"), Diagnostic("autoincrement", "warn")>>>>

SameAttribute(key, a, b) == IF key = "columntype" THEN sameColumnType(a[key], b[key]) ELSE a[key] = b[key]

setSchemaIssue(tree, p, diags) == [tree EXCEPT ![p].diags = @ \o diags]
ChildrenOf(tree, p) == {q \in DOMAIN tree : Len(q) = Len(p) + 1 /\ SubSeq(q, 1, Len(p)) = p}

\* the nodes appended for what only the master has
WithMissing(tree, paths) ==
  [p \in DOMAIN tree \cup paths |->
     IF p \in DOMAIN tree THEN tree[p] ELSE [attrs |-> <<>>, diags |-> <<Diagnostic("missing", "fail")>>]]

CompareProperties(expected, tree, p) ==
  setSchemaIssue(tree, p, SelectSeq(Compared[Len(p)],
                                    LAMBDA d : ~SameAttribute(d.key, expected[p].attrs, tree[p].attrs)))

\* a bug: what only the master has is taken from every level at once
AllMissing(expected, actual, p) == {q \in DOMAIN expected : Len(q) > Len(p) /\ SubSeq(q, 1, Len(p)) = p} \ DOMAIN actual
MissingChildren(expected, actual, p) == ChildrenOf(expected, p) \ DOMAIN actual

RECURSIVE compareSchemaNodes(_, _, _)
compareSchemaNodes(expected, actual, p) ==
  LET step(q, tree) == IF q \in DOMAIN expected THEN compareSchemaNodes(expected, tree, q)
                       ELSE setSchemaIssue(tree, q, <<Diagnostic("surplus", "fail")>>)
  IN WithMissing(FoldSet(step, CompareProperties(expected, actual, p), ChildrenOf(actual, p)),
                 MissingChildren(expected, actual, p))

\* the tree of the master whose data ref replicates for app
ExpectedServer(cc, ref, app, trees) ==
  LET master == GetMasterForApplication(cc, app)
  IN IF ServesApplication(cc, ref, app) /\ master # NoRef THEN trees[master.key] ELSE NotLoaded

annotateSchemaAgainstMasters(cc, ref, trees) ==
  LET actual == trees[ref.key]
      server == [a \in Applications |-> ExpectedServer(cc, ref, a, trees)]
      judged == {a \in Applications : server[a] # NotLoaded}
      present == {a \in judged : <<a>> \in DOMAIN actual}
      absent == {a \in judged \ present : <<a>> \in DOMAIN server[a]}
      step(a, tree) == IF <<a>> \in DOMAIN server[a] THEN compareSchemaNodes(server[a], tree, <<a>>)
                       ELSE setSchemaIssue(tree, <<a>>, <<Diagnostic("surplus", "fail")>>)
  IN IF ref.master THEN actual ELSE WithMissing(FoldSet(step, actual, present), {<<a>> : a \in absent})

flattenIssues(key, tree) ==
  FoldSet(LAMBDA p, out : out \o [k \in DOMAIN tree[p].diags |-> [key |-> key, path |-> p, diag |-> tree[p].diags[k]]],
          <<>>, DOMAIN tree)

-----------------------------------------------------------------------------
NotProbed == [ref |-> NoRef]
Unread(key) == [key |-> key, path |-> <<>>, diag |-> Diagnostic("error", "fail")]

ClusterInit ==
  \E specs \in ClusterFiles :
    inspection = [file |-> specs, cc |-> buildClusterFromRaw(specs), probe |-> NotProbed,
                  read |-> <<>>, trees |-> <<>>, issues |-> <<>>, annotated |-> 0]

CollectRefs == SelectSeq(inspection.cc, LAMBDA r : ~r.disabled)

\* QueryOne, or one round of QueryAll
QueryOne ==
  /\ inspection.file \in Inspected /\ inspection.read = <<>> /\ inspection.probe = NotProbed
  /\ \E k \in DOMAIN inspection.cc, seen \in Observations :
       LET ref == inspection.cc[k]
       IN inspection' = [inspection EXCEPT !.probe = [ref |-> ref, seen |-> seen, report |-> probeRef(ref, seen)]]

\* CollectIssues reads every enabled node; one that cannot be read is an issue itself
LoadActualSchema ==
  LET i == inspection
      ref == CollectRefs[Len(i.read) + 1]
  IN /\ i.file \in Inspected /\ i.probe = NotProbed /\ Len(i.read) < Len(CollectRefs)
     /\ \E found \in {TreeOf(s) : s \in NodeSchemas} \cup {NotLoaded} :
          inspection' = [i EXCEPT !.read = Append(@, found),
                                  !.trees = [k \in DOMAIN @ \cup {ref.key} |-> IF k = ref.key THEN found ELSE @[k]],
                                  !.issues = IF found = NotLoaded THEN Append(@, Unread(ref.key)) ELSE @]

\* and then annotates and flattens one tree after the other
AnnotateAndFlatten ==
  LET i == inspection
      ref == CollectRefs[i.annotated + 1]
      tree == annotateSchemaAgainstMasters(i.cc, ref, i.trees)
      next == [i EXCEPT !.annotated = @ + 1]
  IN /\ Len(i.read) = Len(CollectRefs) /\ i.annotated < Len(CollectRefs)
     /\ inspection' = IF i.trees[ref.key] = NotLoaded THEN next
                      ELSE [next EXCEPT !.trees[ref.key] = tree, !.issues = @ \o flattenIssues(ref.key, tree)]

ClusterNext == QueryOne \/ LoadActualSchema \/ AnnotateAndFlatten

-----------------------------------------------------------------------------
(* The router and the checks that ask who serves an application agree: the
   master and the replica picked for an application are nodes that serve it,
   and none is picked only if no enabled node of that role serves it. *)
RoutedServes ==
  LET cc == inspection.cc
      agree(ref, app, master) ==
        IF ref # NoRef THEN ref.master = master /\ ServesApplication(cc, ref, app)
        ELSE \A k \in DOMAIN cc : cc[k].master = master => ~ServesApplication(cc, cc[k], app)
  IN \A app \in Applications : /\ agree(GetMasterForApplication(cc, app), app, TRUE)
                               /\ agree(GetReplicaForApplication(cc, app), app, FALSE)

(* A node is reported healthy only in its configured role, a replica only
   while it keeps up; a master that replicates is always told as such, and a
   probe that failed says nothing of replication. *)
ReportFollowsNode ==
  LET i == inspection.probe
      r == i.report
  IN i # NotProbed =>
       /\ r.replica = "okay" =>
            /\ r.connection = "okay" /\ i.seen.error = "" /\ i.seen.replicating = ~i.ref.master
            /\ ~i.ref.master => i.seen.threads # "stopped" /\ i.seen.delay \in 0..MaxDelay
       /\ i.ref.master /\ ~i.ref.individual /\ i.seen.error = "" /\ i.seen.replicating => r.replica = "master-replica"
       /\ r.connection # "okay" => r.replica = "" /\ r.delay = -1

\* what differs between a replica's schema and its master's, path by path
DriftOf(key, app, expected, actual) ==
  LET under(tree) == {p \in DOMAIN tree : p[1] = app}
      topmost(p, tree) == Len(p) = 1 \/ Front(p) \in DOMAIN tree
      issue(p, d) == [key |-> key, path |-> p, diag |-> d]
  IN {issue(p, Diagnostic("missing", "fail")) : p \in {p \in under(expected) \ under(actual) : topmost(p, actual)}}
     \cup {issue(p, Diagnostic("surplus", "fail")) : p \in {p \in under(actual) \ under(expected) : topmost(p, expected)}}
     \cup UNION {{issue(p, d) : d \in {d \in Range(Compared[Len(p)]) :
                                        ~SameAttribute(d.key, expected[p].attrs, actual[p].attrs)}}
                 : p \in under(expected) \cap under(actual)}

(* The issues CollectIssues answers are exactly the differences between the
   trees as they were read, each once, although the trees are annotated in
   place while later nodes are still compared with them; a node that could
   not be read is reported and never taken for an empty one. *)
IssuesAreDrift ==
  LET i == inspection
      refs == CollectRefs
      readOf(ref) == i.read[CHOOSE k \in DOMAIN refs : refs[k] = ref]
      compared == {ra \in {refs[k] : k \in {k \in DOMAIN refs : ~refs[k].master}} \X Applications :
                     /\ ServesApplication(i.cc, ra[1], ra[2]) /\ readOf(ra[1]) # NotLoaded
                     /\ LET m == GetMasterForApplication(i.cc, ra[2]) IN m # NoRef /\ readOf(m) # NotLoaded}
      drift == UNION {DriftOf(ra[1].key, ra[2], readOf(GetMasterForApplication(i.cc, ra[2])), readOf(ra[1])) : ra \in compared}
               \cup {Unread(refs[k].key) : k \in {k \in DOMAIN i.read : i.read[k] = NotLoaded}}
  IN i.annotated = Len(refs) => Range(i.issues) = drift /\ IsInjective(i.issues)

\* What the API says of the cluster is so: the node it routes to serves the
\* application, the report follows the node, and the issues are the drift.
ClusterDescribed == RoutedServes /\ ReportFollowsNode /\ IssuesAreDrift
=============================================================================
