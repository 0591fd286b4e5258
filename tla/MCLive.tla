------------------------------- MODULE MCLive -------------------------------
(***************************************************************************)
(* What must happen at last as soon as every goroutine is scheduled: the   *)
(* uploads and the physical deletion, the notification hub, the image      *)
(* cache, the Gitea bridge and the listeners of a process.  The initial    *)
(* state picks the subject, and only the subject moves.                    *)
(***************************************************************************)
EXTENDS FileDeletion, NotificationHub, ImageCache, GiteaBridge, Listeners

VARIABLE subject

MCBackoff == <<1, 1>>
MCBytes == [m \in Msgs |-> 1]
MCFrames == [c \in Conns |-> IF c = "c1" THEN 1 ELSE 0]
MCSize == [k \in ImageKeys |-> IF k = "k3" THEN 1 ELSE 2]
MCGiteaEvents == {<<"T1">>, <<"T1", "T2">>}
MCSentAs == [e \in MCGiteaEvents |-> IF Len(e) = 1 THEN {"a1", "a2", "a3"} ELSE {"a1", "a2"}]

tables == <<fileRows, minted, blobs, intents, txn>>
others == <<hubVars, imageVars, bridgeVars, listenVars, subject>>

\* Bound: in the deletion, one client that uploads files of one chunk.
OneChunk ==
  /\ op'["c2"] = Idle /\ served' = {}
  /\ op'["c1"].stage = "save" => Size(op'["c1"].m) \subseteq {1}
  /\ op'["c1"].stage = "chunk" => op'["c1"].kind[3] = "a"

InUpload(A) == subject = "upload" /\ A /\ UNCHANGED <<tables, others>>
InDeletion(A) == subject = "delete" /\ A /\ OneChunk /\ UNCHANGED others

LiveInit ==
  /\ subject \in {"upload", "delete", "hub", "image", "bridge", "listen"}
  /\ ClockInit /\ UploadsInit /\ DeletionInit /\ HubInit /\ ImageInit /\ ListenInit
  /\ BridgeInit /\ (subject = "bridge" \/ Len(taskIDs) = 1)

LiveNext ==
  \/ InUpload(UploadsNext)
  \/ InDeletion(DeletionNext)
  \/ /\ UNCHANGED <<subject, deletionVars>>
     /\ \/ subject = "hub" /\ HubNext /\ UNCHANGED <<imageVars, bridgeVars, listenVars>>
        \/ subject = "image" /\ ImageNext /\ UNCHANGED <<hubVars, bridgeVars, listenVars>>
        \/ subject = "bridge" /\ BridgeNext /\ UNCHANGED <<hubVars, imageVars, listenVars>>
        \/ subject = "listen" /\ ListenNext /\ UNCHANGED <<hubVars, imageVars, bridgeVars>>

liveVars == <<deletionVars, others>>

\* The goroutine of main.go ticks every five seconds for as long as it runs,
\* and an operation that is not cut short goes on to its next step.
FilesFairness ==
  /\ WF_liveVars(InUpload(UploadTick))
  /\ \A id \in Sessions : WF_liveVars(InUpload(SweepExpired(id)))
  /\ \A p \in Clients \cup {Sweeper} : WF_liveVars(InUpload(GoroutineSteps(p)))
  /\ WF_liveVars(InDeletion(UploadTick /\ UNCHANGED tables))
  /\ \A p \in {"c1", Sweeper} \cup Deleters :
       WF_liveVars(InDeletion(GoroutineSteps(p) /\ UNCHANGED tables))
  /\ \A id \in Sessions : WF_liveVars(InDeletion(SweepExpired(id) /\ UNCHANGED tables))
  /\ \A w \in Deleters : WF_liveVars(InDeletion(ConsumerSteps(w)))

\* The goroutines of a process are scheduled.
ListenFairness == WF_listenVars(subject = "listen" /\ RunAll) /\ \A s \in Apps : WF_listenVars(Serve(s))

\* The fairness of a subject that does not move asks for nothing: none of its
\* actions is enabled.
LiveSpec ==
  /\ LiveInit /\ [][LiveNext]_liveVars
  /\ FilesFairness /\ HubFairness /\ ImageFairness /\ BridgeFairness /\ ListenFairness
=============================================================================
