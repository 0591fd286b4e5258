------------------------------ MODULE MCStores ------------------------------
(***************************************************************************)
(* The search projection and the file service, one question at a time: the *)
(* projection's relay, its deliveries, a rebuild, the source scan and the  *)
(* search engine; the uploads, the physical deletion together with the     *)
(* uploads it cancels, one write through the router, and the fetcher.  The *)
(* initial state picks the subject, and only the subject moves.            *)
(***************************************************************************)
EXTENDS SearchRebuild, SourceScan, SearchEngine, FileDeletion, StorageRouter, Fetcher, TLC

VARIABLE subject

MCPublished ==
  {[id |-> "out", phid |-> 1, rev |-> 1, content |-> "a"],
   [id |-> "out", phid |-> 1, rev |-> 2, content |-> "b"],
   [id |-> "out", phid |-> 2, rev |-> 1, content |-> "a"],
   [id |-> "other", phid |-> 1, rev |-> 1, content |-> "c"]}
MCRelayTargets == [x \in Relays |-> IF x = "x1" THEN {"old"} ELSE {"old", "new"}]
MCWorkerTarget == [w \in Workers |-> "new"]
MCCatalogs == {[c \in Classes |-> 1], [c \in Classes |-> IF c = "task" THEN 2 ELSE 1]}
MCSourceRows == [c \in Classes |-> IF c = "task" THEN {1, 2} ELSE {}]
MCCooldowns == <<1, 2>>
MCBackoff == <<1, 2>>
MCEngines == <<[kind |-> "blob", writable |-> TRUE, limit |-> 2],
               [kind |-> "disk", writable |-> TRUE, limit |-> NoLimit],
               [kind |-> "s3", writable |-> TRUE, limit |-> NoLimit]>>

Symmetry == Permutations(Scanners)

projection ==
  <<outbox, inbox, revisions, head, delivery, relay, worker, wire, backend, rebuildVars>>
search == <<projection, scanVars, engineVars>>
sessions == <<manifest, files, op, acked, sealed, served, fails>>
tables == <<fileRows, minted, blobs, intents, txn>>
fileService == <<sessions, tables, writeVars, fetchVars>>

Init ==
  /\ subject \in {"relay", "deliver", "rebuild", "scan", "engine", "upload", "delete", "write", "fetch"}
  /\ SearchInit /\ RebuildInit /\ EngineInit
  /\ UploadsInit /\ DeletionInit /\ FetchInit
  /\ ScanInit /\ WriteInit
  /\ subject # "write" => body = <<>> /\ candidates = Candidates(0)

\* Bounds: the relay and the deliveries of one object; in a rebuild, posts that
\* reach replicas which do not know the new generation.
OnlyObject1 == \A x \in Relays : relay'[x].stage # "idle" => relay'[x].event.phid = 1
PostsOf(p) == \E x \in Relays, e \in Published : e.phid = p /\ Post(x, e)
Posts == \E e \in Published : e.id = "out" /\ Post("x1", e)

Projection ==
  \/ /\ subject = "relay"
     /\ SearchTick \/ (RelaySteps /\ OnlyObject1)
     /\ UNCHANGED rebuildVars
  \/ /\ subject = "deliver"
     /\ SearchTick \/ PostsOf(1) \/ WireArrives \/ WorkerSteps
     /\ UNCHANGED rebuildVars
  \/ /\ subject = "rebuild"
     /\ \/ RebuildSteps
        \/ /\ SearchTick \/ Posts \/ \E w \in Workers : w = "w1" /\ Delivers(w)
           /\ UNCHANGED rebuildVars

IndexNext ==
  \/ Projection /\ UNCHANGED <<scanVars, engineVars>>
  \/ subject = "scan" /\ ScanNext /\ UNCHANGED <<projection, engineVars>>
  \/ subject = "engine" /\ EngineNext /\ UNCHANGED <<projection, scanVars>>

\* Bound: in the deletion, one client that uploads files of one chunk.
OneChunk ==
  /\ op'["c2"] = Idle /\ served' = {} /\ now' <= 1
  /\ op'["c1"].stage = "save" => Size(op'["c1"].m) \subseteq {1}
  /\ op'["c1"].stage = "chunk" => op'["c1"].kind[3] = "a"

FilesNext ==
  \/ subject = "upload" /\ UploadsNext /\ UNCHANGED <<tables, writeVars, fetchVars>>
  \/ subject = "delete" /\ DeletionNext /\ OneChunk /\ UNCHANGED <<writeVars, fetchVars>>
  \/ subject = "write" /\ WriteNext /\ UNCHANGED <<now, sessions, tables, fetchVars>>
  \/ subject = "fetch" /\ FetchNext /\ UNCHANGED <<now, sessions, tables, writeVars>>

Next ==
  /\ UNCHANGED subject
  /\ \/ IndexNext /\ UNCHANGED fileService
     \/ FilesNext /\ UNCHANGED search

Spec == Init /\ [][Next]_<<now, search, fileService, subject>>
=============================================================================
