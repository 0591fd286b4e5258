----------------------------- MODULE MCServices -----------------------------
(***************************************************************************)
(* Services one at a time: mail, effects, inbound mail and facts, which    *)
(* act on the outside world; the notification hub and its peers; the       *)
(* database proxy and the cluster report, the rate limiter, the image      *)
(* cache and the diff engines.                                             *)
(* The initial state picks the subject, and only the subject moves.        *)
(***************************************************************************)
EXTENDS MailDelivery, EffectStore, Inbox, FactProjection, NotificationHub, PeerMesh,
        Diffs, DbProxy, DbCluster, RateLimiter, ImageCache

VARIABLE subject

mail == <<rows, attempts, req, accepted, orphans, source, projector>>
effect == <<effects, calls, performed, late, evidence, told>>
inbound == <<inbox, relay, receipt, executions>>
outer == <<mail, effect, inbound, factVars>>
proxy == <<txVars, routerVars, inspection>>
volatile == <<limiterVars, imageVars>>
diffs == <<unified, prose>>
inner == <<hubVars, meshVars, proxy, volatile, diffs>>

MCDeadline == [p \in Mailings |-> 3]
MCMailerKeys == [p \in Mailings |-> IF p = "q" THEN {"nowhere"} ELSE {}]
MCSpecs == <<[key |-> "k1", kind |-> "smtp", priority |-> 0],
             [key |-> "k2", kind |-> "postmark", priority |-> 5]>>
MCKeyOf == [m \in Messages |-> "k"]
MCBytes == [m \in Msgs |-> 1]
MCFrames == [c \in Conns |-> IF c = "c1" THEN 2 ELSE 0]
MCSize == [k \in ImageKeys |-> IF k = "k3" THEN 1 ELSE 2]
MCPeers == [s \in Servers |-> Servers \ {s}]
MCStarts == [s \in Servers |-> IF s = "s1" THEN 2 ELSE 1]
MCNode(key, master, partition) == [key |-> key, master |-> master, disabled |-> FALSE, partition |-> partition]
MCNodes(key, master) == [key : {key}, master : {master}, disabled : BOOLEAN, partition : SUBSET {"default", "a"}]
MCInspected ==
  {<<>>,
   <<MCNode("r1", FALSE, {}), MCNode("m1", TRUE, {}), MCNode("r2", FALSE, {"default"})>>,
   <<MCNode("m1", TRUE, {"a"}), MCNode("m2", TRUE, {}), MCNode("r1", FALSE, {"a", "default"})>>,
   <<MCNode("m1", TRUE, {"default", "b"}), MCNode("r1", FALSE, {"a"}), MCNode("r2", FALSE, {})>>}
MCClusterFiles ==
  MCInspected \cup {<<m1, r1, m2, r2>> : m1 \in MCNodes("m1", TRUE), m2 \in MCNodes("m2", TRUE),
                                        r1 \in MCNodes("r1", FALSE), r2 \in MCNodes("r2", FALSE)}
MCDatabase(c) == [charset |-> c, collation |-> "bin"]
MCTable(e) == [collation |-> "bin", engine |-> e]
MCColumn(c, t, n) == [charset |-> c, collation |-> "bin", columntype |-> t, nullable |-> n, autoincrement |-> FALSE]
MCFull(app, c, e, column) ==
  (<<app>> :> MCDatabase(c)) @@ (<<app, "t">> :> MCTable(e)) @@ (<<app, "t", "x">> :> column)
MCNodeSchemas ==
  LET int == MCColumn("utf8", "int", TRUE)
  IN {<<>>, MCFull("a", "utf8", "InnoDB", int), MCFull("a", "utf8", "InnoDB", MCColumn("utf8", "int(10)", FALSE)),
      MCFull("b", "utf8", "InnoDB", int),
      MCFull("a", "utf8mb4", "MyISAM", MCColumn("utf8mb4", "bigint", TRUE)) @@ (<<"a", "t", "y">> :> int),
      MCFull("a", "utf8", "InnoDB", int) @@ (<<"a", "u">> :> MCTable("InnoDB")) @@ (<<"a", "u", "x">> :> int)
        @@ MCFull("b", "utf8mb4", "InnoDB", int)}

MCChars == {"a", " ", "\n"}

OuterNext ==
  /\ UNCHANGED inner
  /\ \/ subject = "mail" /\ MailNext /\ UNCHANGED <<effect, inbound, factVars>>
     \/ subject = "effect" /\ EffectNext /\ UNCHANGED <<mail, inbound, factVars>>
     \/ subject = "inbox" /\ InboxNext /\ UNCHANGED <<mail, effect, factVars>>
     \/ subject = "fact" /\ FactNext /\ UNCHANGED <<now, mail, effect, inbound>>

InnerNext ==
  /\ UNCHANGED <<now, outer>>
  /\ \/ subject = "hub" /\ HubNext /\ UNCHANGED <<meshVars, proxy, volatile, diffs>>
     \/ subject = "mesh" /\ MeshNext /\ UNCHANGED <<hubVars, proxy, volatile, diffs>>
     \/ subject = "tx" /\ TxNext /\ UNCHANGED <<hubVars, meshVars, routerVars, inspection, volatile, diffs>>
     \/ subject = "router" /\ RouterNext /\ UNCHANGED <<hubVars, meshVars, txVars, inspection, volatile, diffs>>
     \/ subject = "cluster" /\ ClusterNext /\ UNCHANGED <<hubVars, meshVars, txVars, routerVars, volatile, diffs>>
     \/ subject = "limiter" /\ LimiterNext /\ UNCHANGED <<hubVars, meshVars, proxy, imageVars, diffs>>
     \/ subject = "image" /\ ImageNext /\ UNCHANGED <<hubVars, meshVars, proxy, limiterVars, diffs>>
     \/ subject = "unified" /\ UnifiedNext /\ UNCHANGED <<hubVars, meshVars, proxy, volatile, prose>>
     \/ subject = "prose" /\ ProseNext /\ UNCHANGED <<hubVars, meshVars, proxy, volatile, unified>>

Init ==
  /\ subject \in {"mail", "effect", "inbox", "fact", "hub", "mesh", "tx", "router", "cluster", "limiter", "image", "unified", "prose"}
  /\ MailInit /\ EffectInit /\ InboxInit /\ FactInit
  /\ HubInit /\ MeshInit /\ LimiterInit /\ ImageInit
  /\ DbInit /\ (subject = "router" \/ up = {})
  /\ ClusterInit /\ (subject = "cluster" \/ inspection.file = <<>>)
  /\ UnifiedInit /\ (subject = "unified" \/ unified.old = <<>>)
  /\ ProseInit /\ (subject = "prose" \/ prose.old = <<>>)

Next == UNCHANGED subject /\ (OuterNext \/ InnerNext)

Spec == Init /\ [][Next]_<<now, outer, inner, subject>>
=============================================================================
