--------------------------- MODULE StorageProofs ----------------------------
(***************************************************************************)
(* The storage of files, for any number of sessions, chunks, goroutines,   *)
(* and files: chunked uploads and physical deletion.                       *)
(***************************************************************************)
EXTENDS Uploads, FileDeletion, TLAPS

-----------------------------------------------------------------------------
(***************************************************************************)
(* Uploads keep what they said across every crash between two durable      *)
(* writes.  The argument: an operation holds its session's lock from the   *)
(* load of the manifest to its last write, so the manifest it carries in   *)
(* memory is the one on disk with its own change.                          *)
(***************************************************************************)
ChunkTables == UNION {[1..n -> Data \cup {NULL}] : n \in 0..MaxChunks}
Digests == {NULL} \cup UNION {[1..n -> Data] : n \in 1..MaxChunks}
States == {"uploading", "complete", "cancelled"}

\* A manifest file and the directory beside it.
SessionOK(m, f) ==
  /\ m \in Manifests
  /\ m.cleaned => m.state = "cancelled" /\ f = {}
  /\ m.state = "uploading" => 1 \in DOMAIN m.chunks
  /\ m.state # "cancelled" =>
       \A c \in DOMAIN m.chunks : m.chunks[c] # NULL => <<c, m.chunks[c]>> \in f

(* What an operation under way holds, by its kind: m is the manifest on    *)
(* disk and f the directory of its session.                                *)
Creating(o, m) ==
  \E size \in 1..MaxChunks, e \in 0..MaxTime :
    /\ m = NULL
    /\ o = Step(<<"create">>, "save", o.id,
             [state |-> "uploading", expires |-> e, cleaned |-> FALSE,
              chunks |-> [c \in 1..size |-> NULL], digest |-> NULL])

Putting(o, m, f) ==
  \E c \in 1..MaxChunks, d \in Data, stage \in {"chunk", "save"} :
    /\ m # NULL /\ m.state = "uploading" /\ c \in DOMAIN m.chunks /\ m.chunks[c] = NULL
    /\ o = Step(<<"put", c, d>>, stage, o.id, [m EXCEPT !.chunks[c] = d])
    /\ stage = "save" => <<c, d>> \in f

Completing(o, m, f) ==
  /\ m # NULL /\ m.state = "uploading"
  /\ \A c \in DOMAIN m.chunks : m.chunks[c] # NULL
  /\ o = Step(<<"complete">>, "save", o.id, [m EXCEPT !.state = "complete", !.digest = m.chunks])

Cancelling(o, m, f) ==
  \E stage \in {"save", "unlink"}, t \in Manifests :
    /\ o = Step(<<"cancel">>, stage, o.id, t)
    /\ t.state = "cancelled"
    /\ m # NULL => ~m.cleaned /\ t.chunks = m.chunks
    /\ t.cleaned => stage = "save" /\ m # NULL /\ f = {}
    /\ stage = "unlink" => m = t

Busy(o, m, f) ==
  \/ Creating(o, m) \/ Putting(o, m, f) \/ Completing(o, m, f) \/ Cancelling(o, m, f)

Stages == {"chunk", "save", "unlink"}

OpsOK ==
  \A p \in Goroutines : \/ op[p] = Idle \/ op[p] = Failed
                        \/ /\ op[p].stage \in Stages /\ op[p].id \in Sessions
                           /\ Busy(op[p], manifest[op[p].id], files[op[p].id])

\* The session's flock.
OneHolder ==
  \A p, q \in Goroutines : ~Resting(p) /\ ~Resting(q) /\ op[p].id = op[q].id => p = q

\* What clients were told of session id, whose manifest is m: the chunks A
\* stored, the chunks S served, the digest x answered.
ToldOK(id, m, A, S, x) ==
  /\ \A a \in A : a[1] = id => m # NULL /\ a[2] \in DOMAIN m.chunks /\ m.chunks[a[2]] = a[3]
  /\ \A s \in S : s[1] = id => /\ m # NULL /\ m.state # "uploading" /\ s[2] \in DOMAIN m.chunks
                               /\ m.chunks[s[2]] = s[3]
  /\ x # NULL => m # NULL /\ m.state # "uploading" /\ x = m.chunks

Directories == SUBSET ((1..MaxChunks) \X Data)
Answers == SUBSET (Sessions \X (1..MaxChunks) \X Data)

UploadInv ==
  /\ now \in 0..MaxTime
  /\ manifest \in [Sessions -> Manifests \cup {NULL}] /\ files \in [Sessions -> Directories]
  /\ DOMAIN op = Goroutines /\ DOMAIN sealed = Sessions
  /\ acked \in Answers /\ served \in Answers
  /\ \A id \in Sessions :
       /\ manifest[id] # NULL => SessionOK(manifest[id], files[id])
       /\ ToldOK(id, manifest[id], acked, served, sealed[id])
  /\ OpsOK /\ OneHolder

-----------------------------------------------------------------------------
(* The lock.                                                               *)

\* An operation is at rest exactly when it is in no stage.
LEMMA StageIsBusy ==
  ASSUME UploadInv, NEW p \in Goroutines
  PROVE  /\ Resting(p) <=> op[p].stage \notin Stages
         /\ ~Resting(p) => op[p].id \in Sessions /\ Busy(op[p], manifest[op[p].id], files[op[p].id])
BY DEF UploadInv, OpsOK, Resting, Idle, Failed, Stages

HasLock(p, id) == \A q \in Goroutines \ {p} : ~Resting(q) => op[q].id # id

\* Whoever enters a session that nobody has locked has it to itself.
LEMMA EnterLocks ==
  ASSUME NEW p \in Goroutines, NEW id \in Sessions, ~Locked(id)
  PROVE  HasLock(p, id)
BY ZenonT(60) DEF Locked, HasLock

\* An operation under way has its session to itself.
LEMMA BusyLocks ==
  ASSUME UploadInv, NEW p \in Goroutines, ~Resting(p)
  PROVE  HasLock(p, op[p].id)
BY ZenonT(60) DEF UploadInv, OneHolder, HasLock

\* The holder of a session's lock moves its own operation, its session's files
\* and what is told of the session, and nothing else.
LEMMA HolderStep ==
  ASSUME UploadInv, NEW p \in Goroutines, NEW id \in Sessions, HasLock(p, id), NEW o,
         DOMAIN op' = Goroutines, op'[p] = o, \A q \in Goroutines \ {p} : op'[q] = op[q],
         o = Idle \/ o = Failed \/ (o.stage \in Stages /\ o.id = id /\ Busy(o, manifest'[id], files'[id])),
         manifest' \in [Sessions -> Manifests \cup {NULL}], files' \in [Sessions -> Directories],
         \A d \in Sessions \ {id} : manifest'[d] = manifest[d] /\ files'[d] = files[d] /\ sealed'[d] = sealed[d],
         manifest'[id] # NULL => SessionOK(manifest'[id], files'[id]),
         ToldOK(id, manifest'[id], acked', served', sealed'[id]),
         acked' \in Answers, served' \in Answers, DOMAIN sealed' = Sessions,
         \A a \in acked' \ acked : a[1] = id, \A s \in served' \ served : s[1] = id,
         now' = now
  PROVE  UploadInv'
<1>1. DOMAIN op' = Goroutines /\ op'[p] = o /\ \A q \in Goroutines \ {p} : op'[q] = op[q]
  BY ZenonT(60)
<1>2. OpsOK'
  <2>1. ASSUME NEW q \in Goroutines \ {p}
        PROVE  \/ op'[q] = Idle \/ op'[q] = Failed
               \/ /\ op'[q].stage \in Stages /\ op'[q].id \in Sessions
                  /\ Busy(op'[q], manifest'[op'[q].id], files'[op'[q].id])
    <3>1. CASE Resting(q)
      BY ZenonT(60), <1>1, <3>1 DEF Resting
    <3>2. CASE ~Resting(q)
      <4>1. /\ op[q].stage \in Stages /\ op[q].id \in Sessions \ {id}
            /\ Busy(op[q], manifest[op[q].id], files[op[q].id])
        BY ZenonT(60), <3>2, StageIsBusy DEF HasLock
      <4> QED BY <1>1, <4>1
    <3> QED BY ZenonT(60), <3>1, <3>2
  <2> QED BY <1>1, <2>1 DEF OpsOK
<1>3. OneHolder'
  <2>1. \A q \in Goroutines \ {p} : ~Resting(q)' => ~Resting(q) /\ op'[q].id # id
    BY ZenonT(60), <1>1 DEF Resting, HasLock
  <2>2. ~Resting(p)' => op'[p].id = id
    BY ZenonT(60), <1>1 DEF Resting
  <2> QED BY <1>1, <2>1, <2>2 DEF OneHolder, UploadInv, Resting
<1>4. ASSUME NEW d \in Sessions \ {id}
      PROVE  /\ manifest'[d] # NULL => SessionOK(manifest'[d], files'[d])
             /\ ToldOK(d, manifest'[d], acked', served', sealed'[d])
  <2>1. manifest'[d] = manifest[d] /\ files'[d] = files[d] /\ sealed'[d] = sealed[d]
    BY ZenonT(60)
  <2>2. /\ manifest[d] # NULL => SessionOK(manifest[d], files[d])
        /\ ToldOK(d, manifest[d], acked, served, sealed[d])
    BY ZenonT(60) DEF UploadInv
  <2>3. \A a \in acked' : a[1] = d => a \in acked
    BY ZenonT(60)
  <2>4. \A a \in served' : a[1] = d => a \in served
    BY ZenonT(60)
  <2> QED BY <2>1, <2>2, <2>3, <2>4 DEF ToldOK
<1> QED BY ZenonT(60), <1>1, <1>2, <1>3, <1>4 DEF UploadInv

\* An operation begins on a session nobody holds.
LEMMA BeginOK ==
  ASSUME UploadInv, NEW p \in Goroutines, NEW id \in Sessions, ~Locked(id), NEW o,
         op' = [op EXCEPT ![p] = o], o.stage \in Stages, o.id = id,
         Busy(o, manifest[id], files[id]), UNCHANGED <<now, manifest, files, acked, sealed, served>>
  PROVE  UploadInv'
<1>1. HasLock(p, id)
  BY ZenonT(60), EnterLocks
<1>2. /\ manifest \in [Sessions -> Manifests \cup {NULL}] /\ files \in [Sessions -> Directories]
      /\ manifest[id] # NULL => SessionOK(manifest[id], files[id])
      /\ ToldOK(id, manifest[id], acked, served, sealed[id])
      /\ acked \in Answers /\ served \in Answers /\ DOMAIN sealed = Sessions
  BY ZenonT(60) DEF UploadInv
<1>3. DOMAIN op' = Goroutines /\ op'[p] = o /\ \A q \in Goroutines \ {p} : op'[q] = op[q]
  BY ZenonT(60) DEF UploadInv
<1> QED BY ZenonT(60), <1>1, <1>2, <1>3, HolderStep

-----------------------------------------------------------------------------
(* Manifests.                                                              *)

\* The manifests as one set of records.
LEMMA ManifestFields ==
  /\ Manifests = [state : States, expires : 0..MaxTime, cleaned : BOOLEAN, chunks : ChunkTables,
                  digest : Digests]
  /\ NULL \in Digests /\ "cancelled" \in States /\ "uploading" \in States
<1>1. Manifests = [state : States, expires : 0..MaxTime, cleaned : BOOLEAN, chunks : ChunkTables,
                   digest : Digests]
  BY ZenonT(60) DEF Manifests, ChunkTables, Digests, States
<1>2. NULL \in Digests /\ "cancelled" \in States /\ "uploading" \in States
  BY ZenonT(60) DEF Digests, States
<1> QED BY ZenonT(60), <1>1, <1>2

\* The fields of a manifest, one by one.
LEMMA ManifestType ==
  ASSUME NEW m \in Manifests
  PROVE  /\ m # NULL /\ m.state \in States /\ m.expires \in 0..MaxTime /\ m.cleaned \in BOOLEAN
         /\ m.chunks \in ChunkTables /\ m.digest \in Digests
BY ZenonT(60), UploadsAssumption DEF Manifests, ChunkTables, Digests, States

\* A chunk table has numbered chunks, each missing or with contents.
LEMMA ChunkType ==
  ASSUME NEW t \in ChunkTables
  PROVE  DOMAIN t \subseteq 1..MaxChunks /\ \A c \in DOMAIN t : t[c] \in Data \cup {NULL}
BY UploadsAssumption DEF ChunkTables

\* The tombstone of a session that was never created is a manifest.
LEMMA TombstoneType == Tombstone \in Manifests
<1>1. <<>> \in [1..0 -> Data \cup {NULL}]
  OBVIOUS
<1>2. <<>> \in ChunkTables
  BY <1>1, UploadsAssumption DEF ChunkTables
<1>3. 0 \in 0..MaxTime
  BY UploadsAssumption
<1> QED BY ZenonT(60), <1>2, <1>3, ManifestFields DEF Tombstone

\* A new upload expects its chunks.
LEMMA UploadType ==
  ASSUME NEW size \in 1..MaxChunks, NEW e \in 0..MaxTime
  PROVE  LET m == [state |-> "uploading", expires |-> e, cleaned |-> FALSE,
                   chunks |-> [c \in 1..size |-> NULL], digest |-> NULL]
         IN m \in Manifests
<1>1. [c \in 1..size |-> NULL] \in ChunkTables
  BY UploadsAssumption DEF ChunkTables
<1> QED BY ZenonT(60), <1>1, ManifestFields

\* A chunk is recorded.
LEMMA PutType ==
  ASSUME NEW m \in Manifests, NEW c \in DOMAIN m.chunks, NEW d \in Data
  PROVE  LET t == [m EXCEPT !.chunks[c] = d] IN
         /\ t \in Manifests /\ t.state = m.state /\ t.cleaned = m.cleaned
         /\ DOMAIN t.chunks = DOMAIN m.chunks /\ t.chunks[c] = d
         /\ \A b \in DOMAIN m.chunks \ {c} : t.chunks[b] = m.chunks[b]
<1>1. PICK n \in 0..MaxChunks : m.chunks \in [1..n -> Data \cup {NULL}]
  BY ZenonT(60), ManifestType DEF ChunkTables
<1>2. [m.chunks EXCEPT ![c] = d] \in ChunkTables
  BY ZenonT(60), <1>1 DEF ChunkTables
<1>3. PICK t : t = [m.chunks EXCEPT ![c] = d] /\ t \in ChunkTables
  BY ZenonT(60), <1>2
<1>4. [m EXCEPT !.chunks[c] = d] = [m EXCEPT !.chunks = t]
  BY ZenonT(60), <1>3
<1>5. PICK u : u = [m EXCEPT !.chunks = t]
  BY ZenonT(60)
<1>6. u \in Manifests /\ u.state = m.state /\ u.cleaned = m.cleaned /\ u.chunks = t
  BY ZenonT(60), <1>3, <1>5 DEF Manifests, ChunkTables
<1>7. DOMAIN t = DOMAIN m.chunks /\ t[c] = d /\ \A b \in DOMAIN m.chunks \ {c} : t[b] = m.chunks[b]
  BY ZenonT(60), <1>1, <1>3
<1> QED BY ZenonT(60), <1>4, <1>5, <1>6, <1>7

\* An upload is sealed with the digest of its chunks.
LEMMA CompleteType ==
  ASSUME NEW m \in Manifests, 1 \in DOMAIN m.chunks, \A c \in DOMAIN m.chunks : m.chunks[c] # NULL
  PROVE  LET t == [m EXCEPT !.state = "complete", !.digest = m.chunks] IN
         /\ t \in Manifests /\ t.state = "complete" /\ t.cleaned = m.cleaned
         /\ t.chunks = m.chunks /\ t.digest = m.chunks
<1>1. PICK n \in 0..MaxChunks : m.chunks \in [1..n -> Data \cup {NULL}]
  BY ZenonT(60), ManifestType DEF ChunkTables
<1>2. n \in 1..MaxChunks
  BY <1>1, UploadsAssumption
<1>3. m.chunks \in [1..n -> Data]
  BY ZenonT(60), <1>1
<1>4. m.chunks \in Digests
  BY ZenonT(60), <1>2, <1>3 DEF Digests
<1>5. PICK t : t = [m EXCEPT !.state = "complete", !.digest = m.chunks]
  BY ZenonT(60)
<1>6. /\ t \in Manifests /\ t.state = "complete" /\ t.cleaned = m.cleaned
      /\ t.chunks = m.chunks /\ t.digest = m.chunks
  BY ZenonT(60), <1>4, <1>5 DEF Manifests, Digests
<1> QED BY ZenonT(60), <1>5, <1>6

\* A manifest that is cancelled or marked cleaned is one.
LEMMA CancelType ==
  ASSUME NEW m \in Manifests
  PROVE  /\ [m EXCEPT !.state = "cancelled"] \in Manifests
         /\ [m EXCEPT !.cleaned = TRUE] \in Manifests
BY ZenonT(60) DEF Manifests

-----------------------------------------------------------------------------
(* Operations begin.                                                       *)

\* The fields of an operation under way.
LEMMA StepFields ==
  \A k, stage, id, m :
    LET o == Step(k, stage, id, m) IN o.kind = k /\ o.stage = stage /\ o.id = id /\ o.m = m
BY ZenonT(60) DEF Step

\* The stage and the kind of an operation under way.
LEMMA BusyForms ==
  ASSUME NEW o, NEW m, NEW f
  PROVE  /\ Creating(o, m) => o.stage = "save" /\ o.kind = <<"create">>
         /\ Putting(o, m, f) => o.stage \in {"chunk", "save"} /\ \E c, d : o.kind = <<"put", c, d>>
         /\ Completing(o, m, f) => o.stage = "save" /\ o.kind = <<"complete">>
         /\ Cancelling(o, m, f) => o.stage \in {"save", "unlink"} /\ o.kind = <<"cancel">>
<1>1. ASSUME Creating(o, m) PROVE o.stage = "save" /\ o.kind = <<"create">>
  <2>1. PICK t : o = Step(<<"create">>, "save", o.id, t)
    BY ZenonT(60), <1>1 DEF Creating
  <2> QED BY <2>1, StepFields
<1>2. ASSUME Putting(o, m, f)
      PROVE  o.stage \in {"chunk", "save"} /\ \E c, d : o.kind = <<"put", c, d>>
  <2>1. PICK c \in 1..MaxChunks, d \in Data, n \in {"chunk", "save"} :
          o = Step(<<"put", c, d>>, n, o.id, [m EXCEPT !.chunks[c] = d])
    BY ZenonT(60), <1>2 DEF Putting
  <2> QED BY <2>1, StepFields
<1>3. ASSUME Completing(o, m, f) PROVE o.stage = "save" /\ o.kind = <<"complete">>
  <2>1. PICK t : o = Step(<<"complete">>, "save", o.id, t)
    BY ZenonT(60), <1>3 DEF Completing
  <2> QED BY <2>1, StepFields
<1>4. ASSUME Cancelling(o, m, f) PROVE o.stage \in {"save", "unlink"} /\ o.kind = <<"cancel">>
  <2>1. PICK n \in {"save", "unlink"}, t \in Manifests : o = Step(<<"cancel">>, n, o.id, t)
    BY ZenonT(60), <1>4 DEF Cancelling
  <2> QED BY <2>1, StepFields
<1> QED BY ZenonT(60), <1>1, <1>2, <1>3, <1>4

\* Only a put writes a chunk, and only a cancellation removes files.
LEMMA BusyKinds ==
  ASSUME NEW o, NEW m, NEW f, Busy(o, m, f)
  PROVE  /\ o.stage = "chunk" => Putting(o, m, f)
         /\ o.stage = "unlink" => Cancelling(o, m, f)
         /\ o.kind[1] = "cancel" => Cancelling(o, m, f)
<1>1. /\ Creating(o, m) => o.kind[1] # "cancel"
      /\ Completing(o, m, f) => o.kind[1] # "cancel"
  BY BusyForms
<1>2. Putting(o, m, f) => o.kind[1] # "cancel"
  <2>1. SUFFICES ASSUME Putting(o, m, f) PROVE o.kind[1] # "cancel"
    BY ZenonT(60)
  <2>2. PICK c, d : o.kind = <<"put", c, d>>
    BY ZenonT(60), <2>1, BusyForms
  <2> QED BY <2>2
<1> QED BY ZenonT(60), <1>1, <1>2, BusyForms DEF Busy

\* Create finds no manifest and is about to save the first.
LEMMA CreateOK ==
  ASSUME UploadInv, NEW p \in Goroutines, NEW id \in Sessions, Create(p, id)
  PROVE  UploadInv'
<1>1. Later(Lifetime) \in 0..MaxTime
  BY UploadsAssumption DEF UploadInv, Later
<1>2. PICK size \in 1..MaxChunks : op' = [op EXCEPT ![p] = Step(<<"create">>, "save", id, Upload(size))]
  BY ZenonT(60) DEF Create, Do
<1>3. PICK o : o = Step(<<"create">>, "save", id, Upload(size))
  BY ZenonT(60)
<1>4. o.id = id /\ o.stage = "save"
  BY <1>3, StepFields
<1>5. Creating(o, manifest[id])
  BY ZenonT(60), <1>1, <1>3, <1>4 DEF Creating, Create, Upload
<1>6. ~Locked(id)
  BY ZenonT(60) DEF Create, Enter
<1> QED BY ZenonT(60), <1>2, <1>3, <1>4, <1>5, <1>6, BeginOK DEF Busy, Stages, Create

\* Put takes a chunk the live manifest is missing.
LEMMA PutOK ==
  ASSUME UploadInv, NEW p \in Goroutines, NEW id \in Sessions, NEW c \in 1..MaxChunks, NEW d \in Data,
         Put(p, id, c, d)
  PROVE  UploadInv'
<1>1. PICK o : o = Step(<<"put", c, d>>, "chunk", id, [manifest[id] EXCEPT !.chunks[c] = d])
  BY ZenonT(60)
<1>2. o.id = id /\ o.stage = "chunk"
  BY <1>1, StepFields
<1>3. Putting(o, manifest[id], files[id])
  BY ZenonT(60), <1>1, <1>2 DEF Putting, Put, Live, Size, Missing
<1>4. ~Locked(id) /\ op' = [op EXCEPT ![p] = o]
  BY ZenonT(60), <1>1 DEF Put, Live, Enter, Do
<1> QED BY ZenonT(60), <1>2, <1>3, <1>4, BeginOK DEF Busy, Stages, Put

\* Complete finds every chunk and is about to save the digest.
LEMMA CompleteOK ==
  ASSUME UploadInv, NEW p \in Goroutines, NEW id \in Sessions, Complete(p, id)
  PROVE  UploadInv'
<1>1. PICK o : o = Step(<<"complete">>, "save", id,
                [manifest[id] EXCEPT !.state = "complete", !.digest = manifest[id].chunks])
  BY ZenonT(60)
<1>2. o.id = id /\ o.stage = "save"
  BY <1>1, StepFields
<1>3. Completing(o, manifest[id], files[id])
  BY ZenonT(60), <1>1, <1>2 DEF Completing, Complete, Live, Size, hashChunks
<1>4. ~Locked(id) /\ op' = [op EXCEPT ![p] = o]
  BY ZenonT(60), <1>1 DEF Complete, Live, Enter, Do
<1> QED BY ZenonT(60), <1>2, <1>3, <1>4, BeginOK DEF Busy, Stages, Complete

\* cancelLocked, for whoever calls it.
LEMMA CancelLockedOK ==
  ASSUME UploadInv, NEW p \in Goroutines, NEW id \in Sessions, NEW m \in Manifests, Enter(p, id),
         manifest[id] # NULL => m = manifest[id],
         manifest[id] = NULL => ~m.cleaned,
         cancelLocked(p, id, m), UNCHANGED <<now, manifest, files, acked, sealed, served>>
  PROVE  UploadInv'
<1>1. PICK t : t = [m EXCEPT !.state = "cancelled"]
  BY ZenonT(60)
<1>2. t \in Manifests /\ t.state = "cancelled" /\ t.chunks = m.chunks /\ t.cleaned = m.cleaned
  BY ZenonT(60), <1>1, CancelType, ManifestFields
<1>3. ~m.cleaned
  BY DEF UploadInv, SessionOK, cancelLocked
<1>4. PICK o : o = Step(<<"cancel">>, "save", id, t)
  BY ZenonT(60)
<1>5. o.id = id /\ o.stage = "save"
  BY <1>4, StepFields
<1>6. Cancelling(o, manifest[id], files[id])
  BY ZenonT(60), <1>2, <1>3, <1>4, <1>5 DEF Cancelling
<1>7. ~Locked(id) /\ op' = [op EXCEPT ![p] = o]
  BY ZenonT(60), <1>1, <1>4 DEF Enter, cancelLocked, Do
<1> QED BY ZenonT(60), <1>5, <1>6, <1>7, BeginOK DEF Busy, Stages

\* Cancel of a session that may not exist yet.
LEMMA CancelOK ==
  ASSUME UploadInv, NEW p \in Goroutines, NEW id \in Sessions, Cancel(p, id)
  PROVE  UploadInv'
<1>1. PICK m : m = IF manifest[id] = NULL THEN Tombstone ELSE manifest[id]
  BY ZenonT(60)
<1>2. m \in Manifests /\ ~Tombstone.cleaned
  BY ZenonT(60), <1>1, TombstoneType DEF UploadInv, Tombstone
<1> QED BY ZenonT(60), <1>1, <1>2, CancelLockedOK DEF Cancel

\* The sweep cancels an expired session, or one whose cancellation was cut
\* short.
LEMMA SweepOK ==
  ASSUME UploadInv, NEW id \in Sessions, SweepExpired(id)
  PROVE  UploadInv'
<1>1. manifest[id] \in Manifests /\ Sweeper \in Goroutines
  BY ZenonT(60) DEF UploadInv, SweepExpired, Goroutines
<1> QED BY ZenonT(60), <1>1, CancelLockedOK DEF SweepExpired

-----------------------------------------------------------------------------
(* Answers that write nothing.                                             *)

\* A repeated put of a recorded chunk is answered from the manifest on disk.
LEMMA PutAgainOK ==
  ASSUME UploadInv, NEW p \in Goroutines, NEW id \in Sessions, NEW c \in 1..MaxChunks, PutAgain(p, id, c)
  PROVE  UploadInv'
<1>1. PICK m : m = manifest[id] /\ m \in Manifests /\ c \in DOMAIN m.chunks /\ m.chunks[c] # NULL
  BY ZenonT(60) DEF UploadInv, PutAgain, Live, Size
<1>2. m.chunks[c] \in Data
  BY ZenonT(60), <1>1, ManifestType, ChunkType
<1>3. acked' = acked \cup {<<id, c, m.chunks[c]>>}
  BY ZenonT(60), <1>1 DEF PutAgain
<1>4. acked' \in Answers
  BY <1>2, <1>3 DEF UploadInv, Answers
<1>5. ToldOK(id, m, acked', served, sealed[id])
  <2>1. ToldOK(id, m, acked, served, sealed[id])
    BY ZenonT(60), <1>1 DEF UploadInv
  <2> QED BY <1>1, <1>3, <2>1, ManifestType DEF ToldOK
<1>6. HasLock(p, id) /\ (op[p] = Idle \/ op[p] = Failed)
  BY ZenonT(60), EnterLocks DEF PutAgain, Live, Enter, Resting
<1>7. /\ manifest \in [Sessions -> Manifests \cup {NULL}] /\ files \in [Sessions -> Directories]
      /\ manifest[id] # NULL => SessionOK(manifest[id], files[id])
      /\ served \in Answers /\ DOMAIN sealed = Sessions /\ DOMAIN op = Goroutines
  BY ZenonT(60) DEF UploadInv
<1>8. UNCHANGED <<now, manifest, files, op, sealed, served>>
  BY ZenonT(60) DEF PutAgain
<1>9. \A a \in acked' \ acked : a[1] = id
  BY <1>3
<1> QED BY ZenonT(60), <1>1, <1>4, <1>5, <1>6, <1>7, <1>8, <1>9, HolderStep

\* Read serves a complete session, and its chunks are the sealed ones.
LEMMA ReadOK ==
  ASSUME UploadInv, NEW p \in Goroutines, NEW id \in Sessions, NEW c \in 1..MaxChunks, Read(p, id, c)
  PROVE  UploadInv'
<1>1. PICK m : /\ m = manifest[id] /\ m \in Manifests /\ m.state = "complete" /\ c \in DOMAIN m.chunks
               /\ <<c, m.chunks[c]>> \in files[id]
  BY ZenonT(60) DEF UploadInv, Read, Live, Size
<1>2. m.chunks[c] \in Data
  BY <1>1 DEF UploadInv, Directories
<1>3. served' = served \cup {<<id, c, m.chunks[c]>>}
  BY ZenonT(60), <1>1 DEF Read
<1>4. served' \in Answers
  BY <1>2, <1>3 DEF UploadInv, Answers
<1>5. ToldOK(id, m, acked, served', sealed[id])
  <2>1. ToldOK(id, m, acked, served, sealed[id])
    BY ZenonT(60), <1>1 DEF UploadInv
  <2> QED BY <1>1, <1>3, <2>1, ManifestType DEF ToldOK
<1>6. HasLock(p, id) /\ (op[p] = Idle \/ op[p] = Failed)
  BY ZenonT(60), EnterLocks DEF Read, Live, Enter, Resting
<1>7. /\ manifest \in [Sessions -> Manifests \cup {NULL}] /\ files \in [Sessions -> Directories]
      /\ manifest[id] # NULL => SessionOK(manifest[id], files[id])
      /\ acked \in Answers /\ DOMAIN sealed = Sessions /\ DOMAIN op = Goroutines
  BY ZenonT(60) DEF UploadInv
<1>8. UNCHANGED <<now, manifest, files, op, sealed, acked>>
  BY ZenonT(60) DEF Read
<1>9. \A a \in served' \ served : a[1] = id
  BY <1>3
<1> QED BY ZenonT(60), <1>1, <1>4, <1>5, <1>6, <1>7, <1>8, <1>9, HolderStep

-----------------------------------------------------------------------------
(* Durable writes.                                                         *)

\* The manifest an operation is about to save fits the directory, keeps what
\* was told, and takes no state back.
Savable(p) ==
  LET o == op[p] IN
  /\ o.m \in Manifests /\ SessionOK(o.m, files[o.id])
  /\ ToldOK(o.id, o.m, acked, served, sealed[o.id])
  /\ Rank(o.m) >= Rank(manifest[o.id])
  /\ o.kind[1] = "put" =>
       /\ o.kind[2] \in 1..MaxChunks /\ o.kind[3] \in Data
       /\ o.kind[2] \in DOMAIN o.m.chunks /\ o.m.chunks[o.kind[2]] = o.kind[3]
  /\ o.kind[1] = "complete" => o.m.state = "complete" /\ o.m.digest = o.m.chunks
  /\ o.kind[1] = "cancel" => o.m.state = "cancelled"

\* The order of the states.
LEMMA RankOrder ==
  ASSUME NEW m \in Manifests
  PROVE  /\ Rank(NULL) = 0 /\ Rank(m) \in 1..3
         /\ m.state = "uploading" <=> Rank(m) = 1
         /\ m.state = "cancelled" <=> Rank(m) = 3
BY ManifestType DEF Rank, States

\* Whatever an operation is about to save may be saved.
LEMMA SavableWhenSaving ==
  ASSUME UploadInv, NEW p \in Goroutines, op[p].stage = "save"
  PROVE  op[p].id \in Sessions /\ Savable(p)
<1>1. PICK o, id, m, f : o = op[p] /\ id = o.id /\ m = manifest[id] /\ f = files[id]
  BY ZenonT(60)
<1>2. id \in Sessions /\ Busy(o, m, f)
  BY ZenonT(60), <1>1, StageIsBusy DEF Stages
<1>3. /\ m \in Manifests \cup {NULL} /\ (m # NULL => SessionOK(m, f)) /\ f \in Directories
      /\ ToldOK(id, m, acked, served, sealed[id]) /\ acked \in Answers
  BY ZenonT(60), <1>1, <1>2 DEF UploadInv
<1>4. CASE Creating(o, m)
  <2>1. PICK size, e, t :
          /\ size \in 1..MaxChunks /\ e \in 0..MaxTime
          /\ t = [state |-> "uploading", expires |-> e, cleaned |-> FALSE,
                  chunks |-> [c \in 1..size |-> NULL], digest |-> NULL]
          /\ m = NULL /\ o = Step(<<"create">>, "save", o.id, t)
    BY ZenonT(60), <1>4 DEF Creating
  <2>2. o.m = t /\ o.kind = <<"create">> /\ t \in Manifests
    BY <2>1, StepFields, UploadType
  <2>3. SessionOK(t, f)
    <3>1. 1 \in 1..size
      BY <2>1
    <3> QED BY <2>1, <2>2, <3>1 DEF SessionOK
  <2>4. ToldOK(id, t, acked, served, sealed[id])
    BY ZenonT(60), <1>3, <2>1 DEF ToldOK
  <2>5. Rank(t) >= Rank(m)
    <3>1. Rank(m) = 0 /\ Rank(t) \in 1..3
      BY ZenonT(60), <2>1, <2>2, RankOrder
    <3> QED BY <3>1
  <2> QED BY <1>1, <1>2, <2>2, <2>3, <2>4, <2>5 DEF Savable
<1>5. CASE Putting(o, m, f)
  <2>1. PICK c, d, t :
          /\ c \in 1..MaxChunks /\ d \in Data
          /\ m # NULL /\ m.state = "uploading" /\ c \in DOMAIN m.chunks /\ m.chunks[c] = NULL
          /\ t = [m EXCEPT !.chunks[c] = d] /\ o = Step(<<"put", c, d>>, "save", o.id, t)
          /\ <<c, d>> \in f
    BY <1>1, <1>5, StepFields DEF Putting
  <2>2. m \in Manifests /\ o.m = t /\ o.kind = <<"put", c, d>>
    BY <1>3, <2>1, StepFields
  <2>3. /\ t \in Manifests /\ t.state = "uploading" /\ t.cleaned = m.cleaned
        /\ DOMAIN t.chunks = DOMAIN m.chunks /\ t.chunks[c] = d
        /\ \A b \in DOMAIN m.chunks \ {c} : t.chunks[b] = m.chunks[b]
    BY <2>1, <2>2, PutType
  <2>4. SessionOK(t, f)
    BY ZenonT(60), <1>3, <2>1, <2>2, <2>3 DEF SessionOK
  <2>5. ToldOK(id, t, acked, served, sealed[id])
    <3>1. \A a \in acked : a[1] = id => a[2] # c
      <4>1. \A a \in acked : a[3] \in Data
        BY ZenonT(60), <1>3 DEF Answers
      <4> QED BY ZenonT(60), <1>3, <2>1, <4>1, UploadsAssumption DEF ToldOK
    <3>2. t # NULL
      BY ZenonT(60), <2>3, ManifestType
    <3> QED BY ZenonT(60), <1>3, <2>1, <2>3, <3>1, <3>2 DEF ToldOK
  <2>6. Rank(t) >= Rank(m)
    <3>1. Rank(m) = 1 /\ Rank(t) \in 1..3
      BY ZenonT(60), <2>1, <2>2, <2>3, RankOrder
    <3> QED BY <3>1
  <2>7. o.kind[1] = "put" /\ o.kind[2] = c /\ o.kind[3] = d
    BY <2>2
  <2> QED BY ZenonT(60), <1>1, <1>2, <2>1, <2>2, <2>3, <2>4, <2>5, <2>6, <2>7 DEF Savable
<1>6. CASE Completing(o, m, f)
  <2>1. PICK t : /\ t = [m EXCEPT !.state = "complete", !.digest = m.chunks]
                 /\ o = Step(<<"complete">>, "save", o.id, t)
                 /\ m # NULL /\ m.state = "uploading"
                 /\ \A c \in DOMAIN m.chunks : m.chunks[c] # NULL
    BY ZenonT(60), <1>6 DEF Completing
  <2>2. m \in Manifests /\ o.m = t /\ o.kind = <<"complete">> /\ 1 \in DOMAIN m.chunks
    BY <1>3, <2>1, StepFields DEF SessionOK
  <2>3. /\ t \in Manifests /\ t.state = "complete" /\ t.cleaned = m.cleaned
        /\ t.chunks = m.chunks /\ t.digest = m.chunks
    BY ZenonT(60), <2>1, <2>2, CompleteType
  <2>4. SessionOK(t, f)
    BY ZenonT(60), <1>3, <2>1, <2>2, <2>3 DEF SessionOK
  <2>5. ToldOK(id, t, acked, served, sealed[id])
    BY ZenonT(60), <1>3, <2>1, <2>2, <2>3, ManifestType DEF ToldOK
  <2>6. Rank(t) >= Rank(m)
    <3>1. Rank(m) = 1 /\ Rank(t) \in 1..3
      BY ZenonT(60), <2>1, <2>2, <2>3, RankOrder
    <3> QED BY <3>1
  <2> QED BY <1>1, <1>2, <2>2, <2>3, <2>4, <2>5, <2>6 DEF Savable
<1>7. CASE Cancelling(o, m, f)
  <2>1. PICK stage \in {"save", "unlink"}, t \in Manifests :
          /\ o = Step(<<"cancel">>, stage, o.id, t) /\ t.state = "cancelled"
          /\ m # NULL => t.chunks = m.chunks
          /\ t.cleaned => f = {}
    BY ZenonT(60), <1>7 DEF Cancelling
  <2>2. o.m = t /\ o.kind = <<"cancel">>
    BY <2>1, StepFields
  <2>3. SessionOK(t, f)
    BY ZenonT(60), <2>1 DEF SessionOK
  <2>4. ToldOK(id, t, acked, served, sealed[id])
    BY ZenonT(60), <1>3, <2>1, ManifestType DEF ToldOK
  <2>5. Rank(t) >= Rank(m)
    <3>1. Rank(t) = 3 /\ (Rank(m) = 0 \/ Rank(m) \in 1..3)
      BY ZenonT(60), <1>3, <2>1, RankOrder
    <3> QED BY <3>1
  <2> QED BY <1>1, <1>2, <2>1, <2>2, <2>3, <2>4, <2>5 DEF Savable
<1> QED BY ZenonT(60), <1>2, <1>4, <1>5, <1>6, <1>7 DEF Busy

\* The saved manifest replaces the one on disk.
LEMMA ManifestSaved ==
  ASSUME UploadInv, NEW p \in Goroutines, op[p].stage = "save", NEW o, NEW A \in Answers, NEW x,
         manifest' = [manifest EXCEPT ![op[p].id] = op[p].m],
         op' = [op EXCEPT ![p] = o], acked' = A,
         DOMAIN sealed' = Sessions, sealed'[op[p].id] = x,
         \A d \in Sessions \ {op[p].id} : sealed'[d] = sealed[d], UNCHANGED <<now, files, served>>,
         o = Idle \/ o = Failed \/ (o.stage \in Stages /\ o.id = op[p].id
                                     /\ Busy(o, op[p].m, files[op[p].id])),
         \A a \in A \ acked : a[1] = op[p].id,
         ToldOK(op[p].id, op[p].m, A, served, x)
  PROVE  UploadInv'
<1>1. op[p].id \in Sessions /\ op[p].m \in Manifests /\ SessionOK(op[p].m, files[op[p].id])
  BY ZenonT(60), SavableWhenSaving DEF Savable
<1>2. PICK id, t : id = op[p].id /\ t = op[p].m
  BY ZenonT(60)
<1>3. HasLock(p, id)
  BY ZenonT(60), <1>2, BusyLocks, StageIsBusy DEF Stages
<1>4. /\ manifest' \in [Sessions -> Manifests \cup {NULL}] /\ manifest'[id] = t
      /\ \A d \in Sessions \ {id} : manifest'[d] = manifest[d]
  BY ZenonT(60), <1>1, <1>2 DEF UploadInv
<1>5. /\ DOMAIN sealed' = Sessions /\ sealed'[id] = x
      /\ \A d \in Sessions \ {id} : sealed'[d] = sealed[d]
  BY ZenonT(60), <1>2
<1>6. DOMAIN op' = Goroutines /\ op'[p] = o /\ \A q \in Goroutines \ {p} : op'[q] = op[q]
  BY ZenonT(60) DEF UploadInv
<1>7. files \in [Sessions -> Directories] /\ served \in Answers
  BY ZenonT(60) DEF UploadInv
<1>8. ToldOK(id, manifest'[id], acked', served', sealed'[id]) /\ acked' \in Answers
  BY <1>2, <1>4, <1>5
<1>9. \A a \in acked' \ acked : a[1] = id
  BY ZenonT(60), <1>2
<1> QED BY <1>1, <1>2, <1>3, <1>4, <1>5, <1>6, <1>7, <1>8, <1>9, HolderStep

\* A save writes the manifest, answers the client and goes on to the next
\* stage.
LEMMA SaveOK ==
  ASSUME UploadInv, NEW p \in Goroutines, Save(p)
  PROVE  UploadInv'
<1>0. manifest' = [manifest EXCEPT ![op[p].id] = op[p].m] /\ UNCHANGED <<now, files, served>>
  BY ZenonT(60) DEF Save
<1>1. op[p].stage = "save"
  BY ZenonT(60) DEF Save
<1>2. PICK o, id, t : o = op[p] /\ id = o.id /\ t = o.m
  BY ZenonT(60)
<1>3. id \in Sessions /\ Savable(p)
  BY ZenonT(60), <1>1, <1>2, SavableWhenSaving
<1>4. PICK A, x : /\ A = IF o.kind[1] = "put" THEN acked \cup {<<o.id, o.kind[2], o.kind[3]>>} ELSE acked
                  /\ x = IF o.kind[1] = "complete" THEN t.digest ELSE sealed[id]
  BY ZenonT(60)
<1>5. /\ acked' = A /\ DOMAIN sealed' = Sessions /\ sealed'[id] = x
      /\ \A d \in Sessions \ {id} : sealed'[d] = sealed[d]
  BY ZenonT(60), <1>1, <1>2, <1>3, <1>4 DEF Save, UploadInv
<1>6. A \in Answers /\ \A a \in A \ acked : a[1] = id
  BY <1>2, <1>3, <1>4 DEF Savable, UploadInv, Answers
<1>7. ToldOK(id, t, A, served, x)
  <2>1. /\ ToldOK(id, t, acked, served, sealed[id]) /\ t \in Manifests
        /\ o.kind[1] = "put" => o.kind[2] \in DOMAIN t.chunks /\ t.chunks[o.kind[2]] = o.kind[3]
        /\ o.kind[1] = "complete" => t.state = "complete" /\ t.digest = t.chunks
    BY ZenonT(60), <1>2, <1>3 DEF Savable
  <2> QED BY <1>2, <1>4, <2>1, ManifestType DEF ToldOK
<1>8. CASE o.kind[1] = "cancel" /\ AfterTombstone(t) = "unlink"
  <2>1. PICK u : u = [o EXCEPT !.stage = "unlink"] /\ op' = [op EXCEPT ![p] = u]
    BY ZenonT(60), <1>1, <1>2, <1>8 DEF Save, Do
  <2>2. ~t.cleaned /\ t.state = "cancelled" /\ t \in Manifests
    BY ZenonT(60), <1>2, <1>3, <1>8 DEF AfterTombstone, Savable
  <2>3. o = Step(<<"cancel">>, "save", id, t)
    <3>1. Busy(o, manifest[id], files[id])
      BY ZenonT(60), <1>1, <1>2, StageIsBusy DEF Stages
    <3>2. \A k, n, i, m : o = Step(k, n, i, m) => o.kind = k /\ o.stage = n /\ o.id = i /\ o.m = m
      BY StepFields
    <3>3. Cancelling(o, manifest[id], files[id])
      BY ZenonT(60), <1>8, <3>1, BusyKinds
    <3> QED BY <1>1, <1>2, <3>2, <3>3 DEF Cancelling
  <2>4. u = Step(<<"cancel">>, "unlink", id, t)
    BY ZenonT(60), <2>1, <2>3 DEF Step
  <2>5. u.stage = "unlink" /\ u.id = id
    BY <2>4, StepFields
  <2>6. Cancelling(u, t, files[id])
    BY ZenonT(60), <2>2, <2>4, <2>5 DEF Cancelling
  <2>7. u.stage \in Stages /\ u.id = op[p].id /\ Busy(u, op[p].m, files[op[p].id])
    BY ZenonT(60), <1>2, <2>5, <2>6 DEF Busy, Stages
  <2>8. op' = [op EXCEPT ![p] = u]
    BY ZenonT(60), <2>1
  <2> QED BY ZenonT(60), <1>1, <1>2, <1>5, <1>6, <1>7, <1>0, <2>7, <2>8, ManifestSaved
<1>9. CASE ~(o.kind[1] = "cancel" /\ AfterTombstone(t) = "unlink")
  <2>1. op' = [op EXCEPT ![p] = Idle]
    BY ZenonT(60), <1>2, <1>9 DEF Save, Do
  <2> QED BY ZenonT(60), <1>1, <1>2, <1>5, <1>6, <1>7, <1>0, <2>1, ManifestSaved
<1> QED BY ZenonT(60), <1>8, <1>9

\* A durable write fails, before the rename or after it: the operation stops
\* there, its manifest on disk or not.
LEMMA FailOK ==
  ASSUME UploadInv, NEW p \in Goroutines, Fail(p)
  PROVE  UploadInv'
<1>1. op' = [op EXCEPT ![p] = Failed] /\ ~Resting(p) /\ UNCHANGED <<now, files, acked, sealed, served>>
  BY ZenonT(60) DEF Fail, Do
<1>2. PICK id : id = op[p].id /\ id \in Sessions /\ HasLock(p, id)
  BY ZenonT(60), <1>1, BusyLocks, StageIsBusy
<1>3. CASE UNCHANGED manifest
  <2>1. DOMAIN op' = Goroutines /\ op'[p] = Failed /\ \A q \in Goroutines \ {p} : op'[q] = op[q]
    BY ZenonT(60), <1>1 DEF UploadInv
  <2>2. /\ manifest \in [Sessions -> Manifests \cup {NULL}] /\ files \in [Sessions -> Directories]
        /\ manifest[id] # NULL => SessionOK(manifest[id], files[id])
        /\ ToldOK(id, manifest[id], acked, served, sealed[id])
        /\ acked \in Answers /\ served \in Answers /\ DOMAIN sealed = Sessions
    BY ZenonT(60), <1>2 DEF UploadInv
  <2> QED BY <1>1, <1>2, <1>3, <2>1, <2>2, HolderStep
<1>4. CASE op[p].stage = "save" /\ manifest' = [manifest EXCEPT ![op[p].id] = op[p].m]
  <2>1. Savable(p)
    BY ZenonT(60), <1>4, SavableWhenSaving
  <2>2. PICK x : /\ x = sealed[id] /\ DOMAIN sealed' = Sessions /\ sealed'[id] = x
                 /\ \A d \in Sessions \ {id} : sealed'[d] = sealed[d]
    BY ZenonT(60), <1>1, <1>2 DEF UploadInv
  <2>3. acked \in Answers
    BY ZenonT(60) DEF UploadInv
  <2>4. ToldOK(id, op[p].m, acked, served, x)
    BY ZenonT(60), <1>2, <2>1, <2>2 DEF Savable
  <2> QED BY ZenonT(60), <1>1, <1>2, <1>4, <2>2, <2>3, <2>4, ManifestSaved
<1> QED BY ZenonT(60), <1>3, <1>4 DEF Fail

\* The bytes are written: the chunk is not recorded yet.
LEMMA PutChunkOK ==
  ASSUME UploadInv, NEW p \in Goroutines, PutChunk(p)
  PROVE  UploadInv'
<1>1. PICK o, id, m, f : o = op[p] /\ id = o.id /\ m = manifest[id] /\ f = files[id]
  BY ZenonT(60)
<1>2. o.stage = "chunk" /\ ~Resting(p) /\ id \in Sessions /\ Busy(o, m, f)
  BY ZenonT(60), <1>1, StageIsBusy DEF PutChunk, Stages
<1>3. PICK c, d, t :
        /\ c \in 1..MaxChunks /\ d \in Data
        /\ m # NULL /\ m.state = "uploading" /\ c \in DOMAIN m.chunks /\ m.chunks[c] = NULL
        /\ t = [m EXCEPT !.chunks[c] = d] /\ o = Step(<<"put", c, d>>, "chunk", id, t)
  <2>1. Putting(o, m, f)
    BY ZenonT(60), <1>2, BusyKinds
  <2>2. PICK c, d, n, t :
        /\ c \in 1..MaxChunks /\ d \in Data /\ n \in {"chunk", "save"}
        /\ m # NULL /\ m.state = "uploading" /\ c \in DOMAIN m.chunks /\ m.chunks[c] = NULL
        /\ t = [m EXCEPT !.chunks[c] = d] /\ o = Step(<<"put", c, d>>, n, o.id, t)
    BY ZenonT(60), <2>1 DEF Putting
  <2>3. n = "chunk"
    BY <1>2, <2>2, StepFields
  <2> QED BY <1>1, <2>2, <2>3
<1>4. PICK u : u = Step(<<"put", c, d>>, "save", id, t)
  BY ZenonT(60)
<1>5. o.kind = <<"put", c, d>> /\ u.stage = "save" /\ u.id = id
  BY <1>3, <1>4, StepFields
<1>6. PICK g : g = {x \in f : x[1] # c} \cup {<<c, d>>}
  BY ZenonT(60)
<1>7. files' = [files EXCEPT ![id] = g]
  BY <1>1, <1>5, <1>6 DEF PutChunk
<1>8. op' = [op EXCEPT ![p] = u]
  <2>1. [o EXCEPT !.stage = "save"] = u
    BY <1>3, <1>4 DEF Step
  <2> QED BY ZenonT(60), <1>1, <2>1 DEF PutChunk, Do
<1>9. Busy(u, m, g)
  <2>1. /\ c \in 1..MaxChunks /\ d \in Data /\ "save" \in {"chunk", "save"} /\ <<c, d>> \in g
        /\ m # NULL /\ m.state = "uploading" /\ c \in DOMAIN m.chunks /\ m.chunks[c] = NULL
    BY ZenonT(60), <1>3, <1>6
  <2>2. u = Step(<<"put", c, d>>, "save", u.id, [m EXCEPT !.chunks[c] = d])
    BY ZenonT(60), <1>3, <1>4, <1>5
  <2>3. Putting(u, m, g)
    BY ZenonT(60), <2>1, <2>2 DEF Putting
  <2> QED BY ZenonT(60), <2>3 DEF Busy
<1>10. f \in Directories /\ g \in Directories
  <2>1. f \in Directories
    BY ZenonT(60), <1>1, <1>2 DEF UploadInv
  <2>2. <<c, d>> \in (1..MaxChunks) \X Data
    BY ZenonT(60), <1>3
  <2> QED BY ZenonT(60), <1>6, <2>1, <2>2 DEF Directories
<1>11. SessionOK(m, g)
  <2>1. SessionOK(m, f)
    BY ZenonT(60), <1>1, <1>2, <1>3 DEF UploadInv
  <2> QED BY ZenonT(60), <1>3, <1>6, <2>1 DEF SessionOK
<1>12. /\ files' \in [Sessions -> Directories] /\ files'[id] = g
       /\ \A e \in Sessions \ {id} : files'[e] = files[e]
  BY ZenonT(60), <1>2, <1>7, <1>10 DEF UploadInv
<1>13. DOMAIN op' = Goroutines /\ op'[p] = u /\ \A q \in Goroutines \ {p} : op'[q] = op[q]
  BY ZenonT(60), <1>8 DEF UploadInv
<1>14. /\ manifest \in [Sessions -> Manifests \cup {NULL}] /\ acked \in Answers /\ served \in Answers
       /\ DOMAIN sealed = Sessions /\ ToldOK(id, m, acked, served, sealed[id])
  BY ZenonT(60), <1>1, <1>2 DEF UploadInv
<1>15. UNCHANGED <<now, manifest, acked, sealed, served>> /\ HasLock(p, id)
  BY ZenonT(60), <1>1, <1>2, BusyLocks DEF PutChunk
<1>16. u.stage \in Stages /\ u.id = id
  BY ZenonT(60), <1>5 DEF Stages
<1> QED BY <1>1, <1>2, <1>9, <1>11, <1>12, <1>13, <1>14, <1>15, <1>16, HolderStep

\* A file of a cancelled session goes, or the tombstone is about to say that
\* none is left.
LEMMA UnlinkOK ==
  ASSUME UploadInv, NEW p \in Goroutines, Unlink(p)
  PROVE  UploadInv'
<1>1. PICK o, id, m, f : o = op[p] /\ id = o.id /\ m = manifest[id] /\ f = files[id]
  BY ZenonT(60)
<1>2. o.stage = "unlink" /\ ~Resting(p) /\ id \in Sessions /\ Busy(o, m, f)
  BY ZenonT(60), <1>1, StageIsBusy DEF Unlink, Stages
<1>3. /\ m \in Manifests /\ m.state = "cancelled" /\ ~m.cleaned
      /\ o = Step(<<"cancel">>, "unlink", id, m)
  <2>1. Cancelling(o, m, f)
    BY ZenonT(60), <1>2, BusyKinds
  <2>2. PICK n \in {"save", "unlink"}, t \in Manifests :
          /\ o = Step(<<"cancel">>, n, o.id, t) /\ t.state = "cancelled"
          /\ m # NULL => ~m.cleaned
          /\ n = "unlink" => m = t
    BY ZenonT(60), <2>1 DEF Cancelling
  <2>3. n = "unlink"
    BY <1>2, <2>2, StepFields
  <2> QED BY ZenonT(60), <1>1, <2>2, <2>3, ManifestType
<1>4. /\ manifest \in [Sessions -> Manifests \cup {NULL}] /\ acked \in Answers /\ served \in Answers
      /\ DOMAIN sealed = Sessions /\ ToldOK(id, m, acked, served, sealed[id])
      /\ DOMAIN op = Goroutines /\ files \in [Sessions -> Directories] /\ SessionOK(m, f)
  BY ZenonT(60), <1>1, <1>2, <1>3, ManifestType DEF UploadInv
<1>5. UNCHANGED <<now, manifest, acked, sealed, served>> /\ HasLock(p, id)
  BY ZenonT(60), <1>1, <1>2, BusyLocks DEF Unlink
<1>6. ASSUME NEW x \in f, files' = [files EXCEPT ![id] = f \ {x}], UNCHANGED op
      PROVE  UploadInv'
  <2>1. /\ files' \in [Sessions -> Directories] /\ files'[id] = f \ {x}
        /\ \A e \in Sessions \ {id} : files'[e] = files[e]
    BY ZenonT(60), <1>1, <1>2, <1>4, <1>6 DEF Directories
  <2>2. Busy(o, m, f \ {x}) /\ o.id = id /\ o.stage \in Stages
    BY <1>2, <1>3, StepFields, ManifestType DEF Busy, Cancelling, Stages
  <2>3. SessionOK(m, f \ {x})
    BY ZenonT(60), <1>3, <1>4 DEF SessionOK
  <2> QED BY ZenonT(60), <1>1, <1>2, <1>4, <1>5, <1>6, <2>1, <2>2, <2>3, HolderStep
<1>7. ASSUME f = {}, op' = [op EXCEPT ![p] = Step(o.kind, "save", o.id, [o.m EXCEPT !.cleaned = TRUE])],
             UNCHANGED files
      PROVE  UploadInv'
  <2>1. PICK t : t = [m EXCEPT !.cleaned = TRUE]
    BY ZenonT(60)
  <2>2. t \in Manifests /\ t.state = "cancelled" /\ t.chunks = m.chunks /\ t.cleaned
    BY ZenonT(60), <1>3, <2>1, CancelType, ManifestFields
  <2>3. PICK u : u = Step(<<"cancel">>, "save", id, t)
    BY ZenonT(60)
  <2>4. o.kind = <<"cancel">> /\ o.m = m
    BY <1>3, StepFields
  <2>5. u.stage \in Stages /\ u.id = id
    BY <2>3, StepFields DEF Stages
  <2>6. Cancelling(u, m, f)
    BY ZenonT(60), <1>3, <1>7, <2>2, <2>3, <2>5, ManifestType DEF Cancelling
  <2>7. DOMAIN op' = Goroutines /\ op'[p] = u /\ \A q \in Goroutines \ {p} : op'[q] = op[q]
    BY ZenonT(60), <1>1, <1>4, <1>7, <2>1, <2>3, <2>4
  <2>8. Busy(u, m, f)
    BY ZenonT(60), <2>6 DEF Busy
  <2>9. files' = files
    BY ZenonT(60), <1>7
  <2> QED BY ZenonT(60), <1>1, <1>2, <1>4, <1>5, <2>5, <2>7, <2>8, <2>9, HolderStep
<1>8. \/ \E x \in files[op[p].id] : /\ files' = [files EXCEPT ![op[p].id] = files[op[p].id] \ {x}]
                                    /\ UNCHANGED op
      \/ /\ files[op[p].id] = {} /\ UNCHANGED files
         /\ op' = [op EXCEPT ![p] = Step(op[p].kind, "save", op[p].id, [op[p].m EXCEPT !.cleaned = TRUE])]
  BY ZenonT(60) DEF Unlink, Do
<1> QED BY ZenonT(60), <1>1, <1>6, <1>7, <1>8

-----------------------------------------------------------------------------
(* Uploads, alone and beside deletion.                                     *)

RanksGrow == \A id \in Sessions : Rank(manifest'[id]) >= Rank(manifest[id])

\* A goroutine at rest forgets the error of its last operation.
Forgets(p) ==
  /\ Resting(p) /\ op' = [op EXCEPT ![p] = Idle]
  /\ UNCHANGED <<now, manifest, files, acked, sealed, served>>

\* What may happen to the sessions, whoever asks for it.
SessionStep ==
  \/ UploadTick \/ ClientUploads
  \/ \E id \in Sessions : SweepExpired(id) \/ \E p \in Goroutines : Cancel(p, id)
  \/ \E p \in Goroutines : GoroutineSteps(p) \/ Fail(p) \/ Forgets(p)
  \/ UNCHANGED <<now, manifest, files, op, acked, sealed, served>>

\* A manifest is written by a save only, its own or one that fails late.
LEMMA ManifestWriters ==
  ASSUME SessionStep
  PROVE  UNCHANGED manifest \/ \E p \in Goroutines : Save(p) \/ Fail(p)
<1>1. UploadTick => UNCHANGED manifest
  BY ZenonT(60) DEF UploadTick
<1>2. ClientUploads => UNCHANGED manifest
  <2>1. \A p \in Clients, id \in Sessions : Create(p, id) \/ Complete(p, id) => UNCHANGED manifest
    BY ZenonT(60) DEF Create, Complete
  <2>2. \A p \in Clients, id \in Sessions, c \in 1..MaxChunks :
          PutAgain(p, id, c) \/ Read(p, id, c) => UNCHANGED manifest
    BY ZenonT(60) DEF PutAgain, Read
  <2>3. \A p \in Clients, id \in Sessions, c \in 1..MaxChunks, d \in Data :
          Put(p, id, c, d) => UNCHANGED manifest
    BY ZenonT(60) DEF Put
  <2> QED BY ZenonT(60), <2>1, <2>2, <2>3 DEF ClientUploads
<1>3. \A id \in Sessions : SweepExpired(id) => UNCHANGED manifest
  BY ZenonT(60) DEF SweepExpired
<1>4. \A id \in Sessions : \A p \in Goroutines : Cancel(p, id) => UNCHANGED manifest
  BY ZenonT(60) DEF Cancel
<1>5. \A p \in Goroutines : GoroutineSteps(p) => Save(p) \/ UNCHANGED manifest
  BY ZenonT(60) DEF GoroutineSteps, PutChunk, Unlink
<1>6. \A p \in Goroutines : Forgets(p) => UNCHANGED manifest
  BY ZenonT(60) DEF Forgets
<1> QED BY ZenonT(60), <1>1, <1>2, <1>3, <1>4, <1>5, <1>6 DEF SessionStep

\* Whatever a save writes comes later in a session's life.
LEMMA RanksGrowOK == UploadInv /\ SessionStep => RanksGrow
<1> SUFFICES ASSUME UploadInv, SessionStep, NEW id \in Sessions
             PROVE  Rank(manifest'[id]) >= Rank(manifest[id])
  BY ZenonT(60) DEF RanksGrow
<1>1. Rank(manifest[id]) \in Int
  <2>1. manifest[id] \in Manifests \cup {NULL}
    BY ZenonT(60) DEF UploadInv
  <2>2. Rank(NULL) = 0
    BY ZenonT(60) DEF Rank
  <2> QED BY <2>1, <2>2, RankOrder
<1>2. CASE UNCHANGED manifest
  BY <1>1, <1>2
<1>3. ASSUME NEW p \in Goroutines, op[p].stage = "save",
             manifest' = [manifest EXCEPT ![op[p].id] = op[p].m]
      PROVE  Rank(manifest'[id]) >= Rank(manifest[id])
  <2>1. op[p].id \in Sessions /\ Rank(op[p].m) >= Rank(manifest[op[p].id])
    BY ZenonT(60), <1>3, SavableWhenSaving DEF Savable
  <2> QED BY <1>1, <1>3, <2>1 DEF UploadInv
<1>4. CASE \E p \in Goroutines : Save(p) \/ Fail(p)
  BY ZenonT(60), <1>2, <1>3, <1>4 DEF Save, Fail
<1> QED BY ZenonT(60), <1>2, <1>4, ManifestWriters

\* The invariant is inductive.
LEMMA SessionStepOK == UploadInv /\ SessionStep => UploadInv'
<1> SUFFICES ASSUME UploadInv, SessionStep PROVE UploadInv'
  BY ZenonT(60)
<1>1. Clients \subseteq Goroutines
  BY ZenonT(60) DEF Goroutines
<1>2. CASE ClientUploads
  BY ZenonT(60), <1>1, <1>2, CreateOK, CompleteOK, PutAgainOK, ReadOK, PutOK DEF ClientUploads
<1>3. CASE \E id \in Sessions : SweepExpired(id) \/ \E p \in Goroutines : Cancel(p, id)
  BY ZenonT(60), <1>3, SweepOK, CancelOK
<1>4. CASE \E p \in Goroutines : GoroutineSteps(p) \/ Fail(p)
  BY ZenonT(60), <1>4, PutChunkOK, UnlinkOK, SaveOK, FailOK DEF GoroutineSteps
<1>5. CASE UNCHANGED <<now, manifest, files, op, acked, sealed, served>>
  BY ZenonT(60), <1>5 DEF UploadInv, OpsOK, OneHolder, Resting
<1>6. CASE UploadTick
  <2>1. now' \in 0..MaxTime
    BY <1>6, UploadsAssumption DEF UploadInv, UploadTick, Advance
  <2>2. UNCHANGED <<manifest, files, op, acked, sealed, served>>
    BY ZenonT(60), <1>6 DEF UploadTick
  <2> QED BY ZenonT(60), <2>1, <2>2 DEF UploadInv, OpsOK, OneHolder, Resting
<1>7. ASSUME NEW p \in Goroutines, Forgets(p) PROVE UploadInv'
  <2>1. UNCHANGED <<now, manifest, files, acked, sealed, served>>
    BY ZenonT(60), <1>7 DEF Forgets
  <2>2. DOMAIN op' = Goroutines /\ op'[p] = Idle /\ \A q \in Goroutines \ {p} : op'[q] = op[q]
    BY ZenonT(60), <1>7 DEF Forgets, UploadInv
  <2>3. OpsOK'
    BY ZenonT(60), <2>1, <2>2 DEF UploadInv, OpsOK
  <2>4. OneHolder'
    BY ZenonT(60), <2>2 DEF UploadInv, OneHolder, Resting
  <2> QED BY ZenonT(60), <2>1, <2>2, <2>3, <2>4 DEF UploadInv
<1> QED BY ZenonT(60), <1>2, <1>3, <1>4, <1>5, <1>6, <1>7 DEF SessionStep

\* It holds of the empty directory a service starts with.
LEMMA UploadInitOK == ClockInit /\ UploadsInit => UploadInv
<1> SUFFICES ASSUME ClockInit, UploadsInit PROVE UploadInv
  BY ZenonT(60)
<1>1. now \in 0..MaxTime
  BY UploadsAssumption DEF ClockInit
<1>2. /\ manifest \in [Sessions -> Manifests \cup {NULL}] /\ files \in [Sessions -> Directories]
      /\ acked \in Answers /\ served \in Answers /\ DOMAIN sealed = Sessions
  BY ZenonT(60) DEF UploadsInit, Directories, Answers
<1>3. DOMAIN op = Goroutines /\ \A p \in Goroutines : op[p] = Idle
  BY ZenonT(60) DEF UploadsInit
<1>4. \A id \in Sessions : manifest[id] = NULL /\ sealed[id] = NULL /\ acked = {} /\ served = {}
  BY ZenonT(60) DEF UploadsInit
<1> QED BY ZenonT(60), <1>1, <1>2, <1>3, <1>4 DEF UploadInv, OpsOK, OneHolder, Resting, ToldOK

\* It implies the invariants of the module.
LEMMA UploadInvSuffices ==
  UploadInv => UploadsTypeOK /\ RecordedIsStored /\ AckedIsKept /\ ServedIsSealed /\ CleanedIsEmpty
<1> SUFFICES ASSUME UploadInv
             PROVE  UploadsTypeOK /\ RecordedIsStored /\ AckedIsKept /\ ServedIsSealed /\ CleanedIsEmpty
  BY ZenonT(60)
<1>1. UploadsTypeOK
  BY ZenonT(60), StageIsBusy DEF UploadInv, UploadsTypeOK, Directories, Stages
<1>2. RecordedIsStored /\ CleanedIsEmpty
  BY ZenonT(60) DEF UploadInv, RecordedIsStored, CleanedIsEmpty, Cleaned, SessionOK, Size
<1>3. \A a \in acked \cup served : a[1] \in Sessions
  BY ZenonT(60) DEF UploadInv, Answers
<1>4. \A a \in acked : manifest[a[1]].chunks[a[2]] = a[3]
  BY ZenonT(60), <1>3 DEF UploadInv, ToldOK
<1>5. \A s \in served : sealed[s[1]] # NULL => sealed[s[1]][s[2]] = s[3]
  BY <1>3 DEF UploadInv, ToldOK
<1> QED BY ZenonT(60), <1>1, <1>2, <1>4, <1>5 DEF AckedIsKept, ServedIsSealed

\* However puts, completions, cancellations, sweeps and reads of the same
\* sessions interleave, and wherever a durable write fails, a recorded or
\* acknowledged chunk is stored, what is served is what was sealed, a cleaned
\* session is empty, and a session never moves back: for any sets of sessions,
\* clients and contents (uploads.go).
THEOREM UploadsKeepTheirWord == UploadsSpec => UploadsDurable
<1>1. [UploadsNext]_uploadVars => SessionStep
  BY ZenonT(60) DEF UploadsNext, SessionStep, uploadVars, Goroutines
<1>2. UploadInv /\ [UploadsNext]_uploadVars => UploadInv' /\ RanksGrow
  BY ZenonT(60), <1>1, SessionStepOK, RanksGrowOK
<1>3. UploadInv /\ [UploadsNext]_uploadVars => [RanksGrow]_manifest
  BY ZenonT(60), <1>2
<1> QED BY <1>2, <1>3, UploadInitOK, UploadInvSuffices, PTL
        DEF UploadsSpec, UploadsDurable, NeverResurrected, RanksGrow

-----------------------------------------------------------------------------
(***************************************************************************)
(* Physical deletion removes only what no file row points at, whatever     *)
(* uploads, sweeps, crashes and other consumers do meanwhile.  The         *)
(* argument: a handle with an open deletion, or with an operation under    *)
(* way on its session, has no row and gets none; and what is gone stays    *)
(* gone, since neither a blob handle nor a cleaned session is used again.  *)
(***************************************************************************)
FileRecords == [id : Nat, handle : StorageHandles]
IntentRows ==
  [handle : StorageHandles, state : {"pending", "cancelled", "done"}, attempts : Nat, next : Nat]
Txns == [intent : Nat, stage : {"cancelled", "delete", "cancelling", "done", "error"}]

TablesOK ==
  /\ fileRows \subseteq FileRecords /\ minted \in Nat /\ blobs \subseteq BlobHandles
  /\ intents \in Seq(IntentRows)
  /\ txn \in [Deleters -> {NoTxn} \cup Txns]
  /\ \A w \in Deleters : Open(w) => txn[w].intent \in 1..Len(intents)

\* The bytes behind h are there; they are gone for good.
Stored(h) ==
  h \in blobs \/ (h \in Sessions /\ manifest[h] # NULL /\ manifest[h].state = "complete")
Gone(h) ==
  h \in BlobHandles \ blobs \/ (h \in Sessions /\ Cleaned(h) /\ files[h] = {})

\* A consumer that found no reference, or is about to report.
TxnOK(w) ==
  /\ txn[w].stage # "cancelled" => References(Handle(w)) = {}
  /\ txn[w].stage = "done" => Gone(Handle(w))
  /\ txn[w].stage = "cancelling" =>
       /\ Handle(w) \in Sessions
       /\ \/ op[w] = Failed
          \/ op[w] = Idle /\ Gone(Handle(w))
          \/ ~Resting(w) /\ op[w].id = Handle(w) /\ op[w].kind[1] = "cancel"

DeletionInv ==
  /\ UploadInv /\ TablesOK
  /\ \A r \in fileRows : Stored(r.handle)
  /\ \A p \in Goroutines : ~Resting(p) => References(op[p].id) = {}
  /\ \A w \in Deleters : Open(w) => TxnOK(w)
  /\ \A i \in 1..Len(intents) : intents[i].state = "done" => Gone(intents[i].handle)

\* The types, one by one.
LEMMA TableFacts ==
  ASSUME DeletionInv
  PROVE  /\ fileRows \subseteq FileRecords /\ minted \in Nat /\ blobs \subseteq BlobHandles
         /\ intents \in Seq(IntentRows) /\ Len(intents) \in Nat /\ DOMAIN intents = 1..Len(intents)
         /\ txn \in [Deleters -> {NoTxn} \cup Txns]
         /\ \A w \in Deleters : Open(w) => txn[w].intent \in 1..Len(intents)
<1>1. TablesOK
  BY ZenonT(60) DEF DeletionInv
<1>2. intents \in Seq(IntentRows)
  BY ZenonT(60), <1>1 DEF TablesOK
<1>3. Len(intents) \in Nat /\ DOMAIN intents = 1..Len(intents)
  BY <1>2
<1> QED BY ZenonT(60), <1>1, <1>2, <1>3 DEF TablesOK

\* The rows alone.
LEMMA RowFacts ==
  ASSUME DeletionInv
  PROVE  fileRows \subseteq FileRecords /\ minted \in Nat
BY ZenonT(60) DEF DeletionInv, TablesOK

\* What a finished intent was for is gone.
LEMMA DoneFacts ==
  ASSUME DeletionInv
  PROVE  \A i \in 1..Len(intents) : intents[i].state = "done" => Gone(intents[i].handle)
BY ZenonT(60) DEF DeletionInv

\* A manifest is written under its session's lock.
LEMMA ManifestKept ==
  ASSUME UploadInv, SessionStep, NEW id \in Sessions,
         \A p \in Goroutines : ~Resting(p) => op[p].id # id
  PROVE  manifest'[id] = manifest[id]
<1>1. CASE UNCHANGED manifest
  BY ZenonT(60), <1>1
<1>2. CASE \E p \in Goroutines : Save(p) \/ Fail(p)
  <2>1. PICK p \in Goroutines : Save(p) \/ Fail(p)
    BY ZenonT(60), <1>2
  <2>2. ~Resting(p)
    BY ZenonT(60), <2>1, StageIsBusy DEF Save, Fail, Stages
  <2> QED BY ZenonT(60), <2>1, <2>2 DEF Save, Fail, UploadInv
<1> QED BY ZenonT(60), <1>1, <1>2, ManifestWriters

\* A cleaned session stays as it is.
LEMMA CleanedStays ==
  ASSUME UploadInv, SessionStep, NEW id \in Sessions, Cleaned(id)
  PROVE  Cleaned(id)' /\ files'[id] = {}
<1>1. manifest[id] # NULL /\ manifest[id].cleaned /\ manifest[id].state = "cancelled"
  BY ZenonT(60) DEF UploadInv, SessionOK, Cleaned
<1>2. ASSUME NEW p \in Goroutines, ~Resting(p) PROVE op[p].id # id
  <2>1. SUFFICES ASSUME op[p].id = id PROVE FALSE
    BY ZenonT(60)
  <2>2. Busy(op[p], manifest[id], files[id])
    BY ZenonT(60), <1>2, <2>1, StageIsBusy
  <2> QED BY ZenonT(60), <1>1, <2>2 DEF Busy, Creating, Putting, Completing, Cancelling
<1>3. manifest'[id] = manifest[id]
  BY ZenonT(60), <1>2, ManifestKept
<1>4. UploadInv'
  BY ZenonT(60), SessionStepOK
<1> QED BY ZenonT(60), <1>1, <1>3, <1>4 DEF UploadInv, SessionOK, Cleaned

\* What is gone stays gone.
LEMMA GoneStays ==
  ASSUME DeletionInv, SessionStep, NEW h, Gone(h), h \in BlobHandles => h \notin blobs'
  PROVE  Gone(h)'
BY ZenonT(60), CleanedStays DEF DeletionInv, Gone

\* What a step of an operation under way does to it: a cancellation that ends
\* well has left a cleaned session.
LEMMA GoroutineEffect ==
  ASSUME UploadInv, NEW p \in Goroutines, GoroutineSteps(p) \/ Fail(p)
  PROVE  /\ ~Resting(p) /\ DOMAIN op' = Goroutines /\ \A q \in Goroutines \ {p} : op'[q] = op[q]
         /\ \/ op'[p] = Failed
            \/ /\ op'[p] = Idle
               /\ \A d \in Sessions : op[p].kind[1] = "cancel" /\ op[p].id = d => Cleaned(d)'
            \/ op'[p].stage \in Stages /\ op'[p].id = op[p].id /\ op'[p].kind = op[p].kind
<1>1. DOMAIN op = Goroutines
  BY ZenonT(60) DEF UploadInv
<1>2. ~Resting(p) /\ op[p].stage \in Stages /\ op[p].id \in Sessions
  BY ZenonT(60), StageIsBusy DEF GoroutineSteps, PutChunk, Unlink, Save, Fail, Stages
<1>3. PICK k, n, id, t : op[p] = Step(k, n, id, t)
  <2>1. PICK m, f : Busy(op[p], m, f)
    BY ZenonT(60), <1>2, StageIsBusy
  <2>2. Creating(op[p], m) => \E k, n, id, t : op[p] = Step(k, n, id, t)
    BY ZenonT(60) DEF Creating
  <2>3. Putting(op[p], m, f) => \E k, n, id, t : op[p] = Step(k, n, id, t)
    BY ZenonT(60) DEF Putting
  <2>4. Completing(op[p], m, f) => \E k, n, id, t : op[p] = Step(k, n, id, t)
    BY ZenonT(60) DEF Completing
  <2>5. Cancelling(op[p], m, f) => \E k, n, id, t : op[p] = Step(k, n, id, t)
    BY ZenonT(60) DEF Cancelling
  <2> QED BY ZenonT(60), <2>1, <2>2, <2>3, <2>4, <2>5 DEF Busy
<1>4. op[p].kind = k /\ op[p].id = id /\ op[p].m = t
  BY <1>3, StepFields
<1>5. \A s : [op[p] EXCEPT !.stage = s] = Step(k, s, id, t)
  BY <1>3 DEF Step
<1>6. ASSUME NEW o, op' = [op EXCEPT ![p] = o]
      PROVE  DOMAIN op' = Goroutines /\ op'[p] = o /\ \A q \in Goroutines \ {p} : op'[q] = op[q]
  BY ZenonT(60), <1>1, <1>6
<1>11. ASSUME NEW s \in Stages, NEW x, op' = [op EXCEPT ![p] = Step(k, s, id, x)]
       PROVE  /\ DOMAIN op' = Goroutines /\ \A q \in Goroutines \ {p} : op'[q] = op[q]
              /\ op'[p].stage \in Stages /\ op'[p].id = op[p].id /\ op'[p].kind = op[p].kind
  <2>1. /\ DOMAIN op' = Goroutines /\ op'[p] = Step(k, s, id, x)
        /\ \A q \in Goroutines \ {p} : op'[q] = op[q]
    BY ZenonT(60), <1>6, <1>11
  <2> QED BY <1>4, <2>1, StepFields
<1>7. CASE Fail(p)
  <2>1. op' = [op EXCEPT ![p] = Failed]
    BY ZenonT(60), <1>7 DEF Fail, Do
  <2> QED BY ZenonT(60), <1>2, <1>6, <2>1
<1>8. CASE PutChunk(p)
  <2>1. op' = [op EXCEPT ![p] = Step(k, "save", id, t)]
    BY ZenonT(60), <1>5, <1>8 DEF PutChunk, Do
  <2> QED BY ZenonT(60), <1>2, <1>11, <2>1 DEF Stages
<1>9. CASE Unlink(p)
  <2>1. CASE UNCHANGED op
    BY ZenonT(60), <1>1, <1>2, <2>1
  <2>2. CASE op' = [op EXCEPT ![p] = Step(op[p].kind, "save", op[p].id, [op[p].m EXCEPT !.cleaned = TRUE])]
    BY ZenonT(60), <1>2, <1>4, <1>11, <2>2 DEF Stages
  <2> QED BY ZenonT(60), <1>9, <2>1, <2>2 DEF Unlink, Do
<1>10. CASE Save(p)
  <2>1. manifest' = [manifest EXCEPT ![id] = t] /\ op[p].stage = "save"
    BY ZenonT(60), <1>4, <1>10 DEF Save
  <2>2. t \in Manifests
    BY ZenonT(60), <1>4, <2>1, SavableWhenSaving DEF Savable
  <2>3. manifest'[id] = t /\ t # NULL
    BY ZenonT(60), <1>2, <1>4, <2>1, <2>2, UploadsAssumption DEF UploadInv
  <2>4. CASE k[1] = "cancel" /\ AfterTombstone(t) = "unlink"
    <3>1. op' = [op EXCEPT ![p] = Step(k, "unlink", id, t)]
      BY ZenonT(60), <1>4, <1>5, <1>10, <2>4 DEF Save, Do
    <3> QED BY ZenonT(60), <1>2, <1>11, <3>1 DEF Stages
  <2>5. CASE ~(k[1] = "cancel" /\ AfterTombstone(t) = "unlink")
    <3>1. op' = [op EXCEPT ![p] = Idle]
      BY ZenonT(60), <1>4, <1>10, <2>5 DEF Save, Do
    <3>2. k[1] = "cancel" => Cleaned(id)'
      BY ZenonT(60), <2>3, <2>5 DEF AfterTombstone, Cleaned
    <3>3. DOMAIN op' = Goroutines /\ op'[p] = Idle /\ \A q \in Goroutines \ {p} : op'[q] = op[q]
      BY ZenonT(60), <1>6, <3>1
    <3>4. \A d \in Sessions : op[p].kind[1] = "cancel" /\ op[p].id = d => Cleaned(d)'
      BY ZenonT(60), <1>4, <3>2
    <3> QED BY ZenonT(60), <1>2, <3>3, <3>4
  <2> QED BY ZenonT(60), <2>4, <2>5
<1> QED BY ZenonT(60), <1>7, <1>8, <1>9, <1>10 DEF GoroutineSteps

-----------------------------------------------------------------------------
(* Sessions move under the deletions.                                      *)

\* The application's tables and the blobs stay; an operation that begins, begins
\* on a session without rows.
Moves ==
  /\ SessionStep /\ UNCHANGED <<fileRows, minted, blobs, intents>>
  /\ \A p \in Goroutines : \/ op'[p] = op[p] \/ op'[p] = Idle \/ op'[p] = Failed
                           \/ ~Resting(p) /\ op'[p].id = op[p].id
                           \/ References(op'[p].id) = {}

\* A step of the sessions beside unchanged tables keeps the invariant, once
\* the open transactions are accounted for.
LEMMA MovesOK ==
  ASSUME DeletionInv, Moves, txn' \in [Deleters -> {NoTxn} \cup Txns],
         \A w \in Deleters : Open(w)' => txn'[w].intent \in 1..Len(intents) /\ TxnOK(w)'
  PROVE  DeletionInv'
<1>1. UploadInv'
  BY ZenonT(60), SessionStepOK DEF DeletionInv, Moves
<1>2. TablesOK'
  BY ZenonT(60) DEF DeletionInv, Moves, TablesOK
<1>3. ASSUME NEW r \in fileRows PROVE Stored(r.handle)'
  <2>1. Stored(r.handle) /\ r \in References(r.handle)
    BY ZenonT(60) DEF DeletionInv, References
  <2>2. \A p \in Goroutines : ~Resting(p) => op[p].id # r.handle
    BY ZenonT(60), <2>1 DEF DeletionInv
  <2>3. r.handle \in Sessions => manifest'[r.handle] = manifest[r.handle]
    BY ZenonT(60), <2>2, ManifestKept DEF DeletionInv, Moves
  <2> QED BY ZenonT(60), <2>1, <2>3 DEF Stored, Moves
<1>4. ASSUME NEW p \in Goroutines, ~Resting(p)' PROVE References(op'[p].id) = {}
  BY ZenonT(60), <1>4 DEF DeletionInv, Moves, Resting
<1>5. ASSUME NEW i \in 1..Len(intents), intents[i].state = "done" PROVE Gone(intents[i].handle)'
  <2>1. PICK h : h = intents[i].handle
    BY ZenonT(60)
  <2>2. Gone(h)
    BY ZenonT(60), <1>5, <2>1 DEF DeletionInv
  <2>3. h \in BlobHandles => h \notin blobs'
    BY ZenonT(60), <2>2, DeletionAssumption DEF Gone, Moves
  <2>4. Gone(h)'
    BY ZenonT(60), <2>2, <2>3, GoneStays DEF Moves
  <2> QED BY ZenonT(60), <2>1, <2>4 DEF Moves
<1>6. \A r \in fileRows' : Stored(r.handle)'
  BY ZenonT(60), <1>3 DEF Moves
<1>7. \A p \in Goroutines : ~Resting(p)' => (References(op[p].id) = {})'
  BY ZenonT(60), <1>4 DEF References, Moves
<1>8. \A i \in 1..Len(intents') : intents'[i].state = "done" => Gone(intents[i].handle)'
  BY ZenonT(60), <1>5 DEF Moves
<1> QED BY ZenonT(60), <1>1, <1>2, <1>6, <1>7, <1>8 DEF DeletionInv

\* An open transaction whose consumer takes no part, or goes on cancelling.
LEMMA TxnKept ==
  ASSUME DeletionInv, Moves, NEW w \in Deleters, Open(w), txn'[w] = txn[w],
         \/ op'[w] = op[w]
         \/ ~Resting(w) /\ (GoroutineSteps(w) \/ Fail(w))
  PROVE  Open(w)' /\ txn'[w].intent \in 1..Len(intents) /\ TxnOK(w)'
<1>1. PICK h, s : h = Handle(w) /\ s = txn[w].stage
  BY ZenonT(60)
<1>2. Handle(w)' = h /\ txn'[w].stage = s /\ Open(w)' /\ txn'[w].intent \in 1..Len(intents)
  BY ZenonT(60), <1>1 DEF Handle, Moves, Open, DeletionInv, TablesOK
<1>3. TxnOK(w)
  BY ZenonT(60) DEF DeletionInv
<1>4. s # "cancelled" => (References(Handle(w)) = {})'
  BY ZenonT(60), <1>1, <1>2, <1>3 DEF TxnOK, Moves, References
<1>5. Gone(h) => Gone(Handle(w))'
  <2>1. Gone(h) => (h \in BlobHandles => h \notin blobs')
    BY ZenonT(60), DeletionAssumption DEF Gone, Moves
  <2>2. Gone(h) => Gone(h)'
    BY ZenonT(60), <2>1, GoneStays DEF Moves
  <2> QED BY ZenonT(60), <1>2, <2>2 DEF Gone
<1>6. ASSUME s = "cancelling"
      PROVE  /\ h \in Sessions
             /\ \/ op'[w] = Failed
                \/ op'[w] = Idle /\ Gone(Handle(w))'
                \/ ~Resting(w)' /\ op'[w].id = h /\ op'[w].kind[1] = "cancel"
  <2>1. /\ h \in Sessions
        /\ op[w] = Failed \/ (op[w] = Idle /\ Gone(h))
             \/ (~Resting(w) /\ op[w].id = h /\ op[w].kind[1] = "cancel")
    BY ZenonT(60), <1>1, <1>3, <1>6 DEF TxnOK
  <2>2. CASE op'[w] = op[w]
    BY ZenonT(60), <1>5, <2>1, <2>2 DEF Resting
  <2>3. CASE ~Resting(w) /\ (GoroutineSteps(w) \/ Fail(w))
    <3>1. op[w].id = h /\ op[w].kind[1] = "cancel"
      BY ZenonT(60), <2>1, <2>3 DEF Resting
    <3>2. \/ op'[w] = Failed
          \/ op'[w] = Idle /\ Cleaned(h)'
          \/ op'[w].stage \in Stages /\ op'[w].id = op[w].id /\ op'[w].kind = op[w].kind
      BY ZenonT(60), <2>1, <2>3, <3>1, GoroutineEffect DEF DeletionInv, Goroutines
    <3>3. UploadInv'
      BY ZenonT(60), SessionStepOK DEF DeletionInv, Moves
    <3>4. Cleaned(h)' => Gone(h)'
      BY ZenonT(60), <2>1, <3>3 DEF UploadInv, SessionOK, Cleaned, Gone
    <3>5. op'[w].stage \in Stages => ~Resting(w)'
      BY DEF Resting, Idle, Failed, Stages
    <3>6. Gone(h)' => Gone(Handle(w))'
      BY ZenonT(60), <1>2 DEF Gone
    <3> QED BY ZenonT(60), <2>1, <3>1, <3>2, <3>4, <3>5, <3>6
  <2> QED BY ZenonT(60), <2>2, <2>3
<1> QED BY ZenonT(60), <1>1, <1>2, <1>3, <1>4, <1>5, <1>6 DEF TxnOK

\* A step that is not a consumer's own.
LEMMA OthersOK ==
  ASSUME DeletionInv, Moves, UNCHANGED txn,
         \A w \in Deleters : op'[w] = op[w] \/ (~Resting(w) /\ (GoroutineSteps(w) \/ Fail(w)))
  PROVE  DeletionInv'
<1>1. \A w \in Deleters : Open(w)' => Open(w)
  BY ZenonT(60) DEF Open
<1>2. txn' \in [Deleters -> {NoTxn} \cup Txns]
  BY ZenonT(60) DEF DeletionInv, TablesOK
<1>3. \A w \in Deleters : Open(w)' => txn'[w].intent \in 1..Len(intents) /\ TxnOK(w)'
  BY ZenonT(60), <1>1, TxnKept
<1> QED BY ZenonT(60), <1>2, <1>3, MovesOK

\* No row points at a session that is not complete.
LEMMA IncompleteIsFree ==
  ASSUME DeletionInv, NEW id \in Sessions, manifest[id] = NULL \/ manifest[id].state # "complete"
  PROVE  References(id) = {}
<1>1. ~Stored(id)
  BY ZenonT(60), DeletionAssumption DEF Stored, DeletionInv, TablesOK
<1> QED BY ZenonT(60), <1>1 DEF DeletionInv, References

\* A client or the sweep begins on a session without rows.
LEMMA BeginBesideOK ==
  ASSUME DeletionInv, SessionStep, UNCHANGED <<fileRows, minted, blobs, intents, txn>>,
         NEW p \in Clients \cup {Sweeper}, NEW id \in Sessions, References(id) = {},
         NEW k, NEW n, NEW m, op' = [op EXCEPT ![p] = Step(k, n, id, m)]
  PROVE  DeletionInv'
<1>0. PICK o : o = Step(k, n, id, m) /\ o.id = id
  BY StepFields
<1>1. DOMAIN op = Goroutines /\ p \in Goroutines /\ p \notin Deleters
  BY ZenonT(60), DeletionAssumption DEF DeletionInv, UploadInv, Goroutines
<1>2. op'[p] = o /\ \A q \in Goroutines \ {p} : op'[q] = op[q]
  BY ZenonT(60), <1>0, <1>1
<1>3. Moves
  BY ZenonT(60), <1>0, <1>2 DEF Moves
<1>4. \A w \in Deleters : op'[w] = op[w]
  BY ZenonT(60), <1>1, <1>2 DEF Goroutines
<1> QED BY ZenonT(60), <1>3, <1>4, OthersOK

\* Uploads go on beside the deletions: clients, the sweep, and every stage of
\* an operation.
LEMMA SessionsBesideOK ==
  ASSUME DeletionInv, UNCHANGED <<fileRows, minted, blobs, intents, txn>>,
         \/ UploadTick \/ ClientUploads
         \/ \E id \in Sessions : SweepExpired(id)
         \/ \E p \in Goroutines : GoroutineSteps(p) \/ Fail(p)
  PROVE  DeletionInv'
<1>1. SessionStep
  BY ZenonT(60) DEF SessionStep
<1>2. ASSUME UNCHANGED op PROVE DeletionInv'
  BY ZenonT(60), <1>1, <1>2, OthersOK DEF Moves
<1>3. ASSUME NEW p \in Goroutines, GoroutineSteps(p) \/ Fail(p) PROVE DeletionInv'
  <2>1. /\ ~Resting(p) /\ \A q \in Goroutines \ {p} : op'[q] = op[q]
        /\ op'[p] = Failed \/ op'[p] = Idle \/ op'[p].id = op[p].id
    BY ZenonT(60), <1>3, GoroutineEffect DEF DeletionInv
  <2>2. Moves
    BY ZenonT(60), <1>1, <2>1 DEF Moves
  <2>3. \A w \in Deleters : op'[w] = op[w] \/ (~Resting(w) /\ (GoroutineSteps(w) \/ Fail(w)))
    BY ZenonT(60), <1>3, <2>1 DEF Goroutines
  <2> QED BY ZenonT(60), <2>2, <2>3, OthersOK
<1>4. ASSUME NEW p \in Clients \cup {Sweeper}, NEW id \in Sessions,
             manifest[id] = NULL \/ manifest[id].state # "complete",
             NEW k, NEW n, NEW m, op' = [op EXCEPT ![p] = Step(k, n, id, m)]
      PROVE  DeletionInv'
  BY ZenonT(60), <1>1, <1>4, IncompleteIsFree, BeginBesideOK
<1>5. ASSUME NEW p \in Clients, NEW id \in Sessions, Create(p, id) PROVE DeletionInv'
  <2>1. PICK k, n, m : op' = [op EXCEPT ![p] = Step(k, n, id, m)]
    BY ZenonT(60), <1>5 DEF Create, Do
  <2> QED BY ZenonT(60), <1>4, <1>5, <2>1 DEF Create
<1>6. ASSUME NEW p \in Clients, NEW id \in Sessions, Complete(p, id) PROVE DeletionInv'
  <2>1. PICK k, n, m : op' = [op EXCEPT ![p] = Step(k, n, id, m)]
    BY ZenonT(60), <1>6 DEF Complete, Do
  <2> QED BY ZenonT(60), <1>4, <1>6, <2>1 DEF Complete
<1>7. ASSUME NEW p \in Clients, NEW id \in Sessions, NEW c \in 1..MaxChunks, NEW d \in Data, Put(p, id, c, d)
      PROVE  DeletionInv'
  <2>1. PICK k, n, m : op' = [op EXCEPT ![p] = Step(k, n, id, m)]
    BY ZenonT(60), <1>7 DEF Put, Do
  <2> QED BY ZenonT(60), <1>4, <1>7, <2>1 DEF Put, Missing
<1>8. ASSUME NEW id \in Sessions, SweepExpired(id) PROVE DeletionInv'
  <2>1. PICK k, n, m : op' = [op EXCEPT ![Sweeper] = Step(k, n, id, m)]
    BY ZenonT(60), <1>8 DEF SweepExpired, cancelLocked, Do
  <2> QED BY ZenonT(60), <1>4, <1>8, <2>1 DEF SweepExpired, Eligible
<1>9. CASE ClientUploads
  BY ZenonT(60), <1>2, <1>5, <1>6, <1>7, <1>9 DEF ClientUploads, PutAgain, Read
<1> QED BY ZenonT(60), <1>2, <1>3, <1>8, <1>9 DEF UploadTick

\* A client cancels its session only when no row points at it.
LEMMA AbandonOK ==
  ASSUME DeletionInv, NEW p \in Clients, NEW id \in Sessions, Abandon(p, id)
  PROVE  DeletionInv'
<1>1. Cancel(p, id) /\ References(id) = {} /\ UNCHANGED <<fileRows, minted, blobs, intents, txn>>
  BY ZenonT(60) DEF Abandon, phpVars
<1>2. SessionStep
  BY ZenonT(60), <1>1 DEF SessionStep, Goroutines
<1>3. PICK k, n, m : op' = [op EXCEPT ![p] = Step(k, n, id, m)]
  BY ZenonT(60), <1>1 DEF Cancel, cancelLocked, Do
<1> QED BY ZenonT(60), <1>1, <1>2, <1>3, BeginBesideOK

-----------------------------------------------------------------------------
(* The consumers.                                                          *)

\* A consumer's own step on its transaction: the others keep theirs.
LEMMA OwnStepOK ==
  ASSUME DeletionInv, Moves, NEW w \in Deleters, NEW x \in {NoTxn} \cup Txns,
         txn' = [txn EXCEPT ![w] = x], \A v \in Deleters \ {w} : op'[v] = op[v],
         x # NoTxn => x.intent \in 1..Len(intents) /\ TxnOK(w)'
  PROVE  DeletionInv'
<1>1. /\ txn' \in [Deleters -> {NoTxn} \cup Txns] /\ txn'[w] = x
      /\ \A v \in Deleters \ {w} : txn'[v] = txn[v]
  BY ZenonT(60) DEF DeletionInv, TablesOK
<1>2. \A v \in Deleters \ {w} : Open(v)' => txn'[v].intent \in 1..Len(intents) /\ TxnOK(v)'
  BY ZenonT(60), <1>1, TxnKept DEF Open
<1>3. Open(w)' => txn'[w].intent \in 1..Len(intents) /\ TxnOK(w)'
  BY <1>1 DEF Open, NoTxn
<1> QED BY ZenonT(60), <1>1, <1>2, <1>3, MovesOK

\* A consumer locks the first due intent and counts the references.
LEMMA TakeIntentOK ==
  ASSUME DeletionInv, NEW w \in Deleters, TakeIntent(w)
  PROVE  DeletionInv'
<1>1. Moves
  BY ZenonT(60) DEF TakeIntent, Moves, SessionStep, uploadVars, phpVars
<1>2. PICK i, s :
        /\ i \in DOMAIN intents
        /\ txn' = [txn EXCEPT ![w] = [intent |-> i, stage |-> s]]
        /\ s = IF Used(intents[i].handle) THEN "cancelled" ELSE "delete"
  BY ZenonT(60) DEF TakeIntent
<1>3. PICK x : x = [intent |-> i, stage |-> s]
  BY ZenonT(60)
<1>4. i \in 1..Len(intents) /\ x \in Txns /\ x.intent = i /\ x.stage = s /\ s \in {"cancelled", "delete"}
  BY <1>2, <1>3 DEF DeletionInv, TablesOK, Txns
<1>5. txn'[w] = x
  BY ZenonT(60), <1>2, <1>3 DEF DeletionInv, TablesOK
<1>6. Handle(w)' = intents[i].handle
  BY ZenonT(60), <1>1, <1>4, <1>5 DEF Handle, Moves
<1>7. s # "cancelled" => References(intents[i].handle) = {}
  BY ZenonT(60), <1>2 DEF Used
<1>8. TxnOK(w)'
  BY ZenonT(60), <1>1, <1>4, <1>5, <1>6, <1>7 DEF TxnOK, References, Moves
<1>9. UNCHANGED op
  BY ZenonT(60) DEF TakeIntent, uploadVars
<1> QED BY ZenonT(60), <1>1, <1>2, <1>3, <1>4, <1>8, <1>9, OwnStepOK

\* The stage of an open transaction moves on.
LEMMA StageOK ==
  ASSUME DeletionInv, Moves, NEW w \in Deleters, Open(w), NEW s \in {"cancelling", "done", "error"},
         txn[w].stage # "cancelled", Outcome(w, s), \A v \in Deleters \ {w} : op'[v] = op[v],
         NEW h, h = Handle(w), s = "done" => Gone(h)',
         s = "cancelling" => h \in Sessions /\ ~Resting(w)' /\ op'[w].id = h /\ op'[w].kind[1] = "cancel"
  PROVE  DeletionInv'
<1>1. txn[w] \in Txns /\ txn[w].intent \in 1..Len(intents)
  BY DEF DeletionInv, TablesOK, Open, NoTxn
<1>2. PICK x : x = [txn[w] EXCEPT !.stage = s]
  BY ZenonT(60)
<1>3. x \in Txns /\ x.intent = txn[w].intent /\ x.stage = s
  BY ZenonT(60), <1>1, <1>2 DEF Txns
<1>4. txn' = [txn EXCEPT ![w] = x]
  BY ZenonT(60), <1>2 DEF Outcome
<1>5. txn'[w] = x
  BY ZenonT(60), <1>4 DEF DeletionInv, TablesOK
<1>6. Handle(w)' = h
  BY ZenonT(60), <1>3, <1>5 DEF Handle, Moves
<1>7. References(h) = {}
  BY ZenonT(60) DEF DeletionInv, TxnOK
<1>8. TxnOK(w)'
  BY ZenonT(60), <1>3, <1>5, <1>6, <1>7 DEF TxnOK, References, Moves, Gone
<1> QED BY ZenonT(60), <1>1, <1>3, <1>4, <1>8, OwnStepOK

\* deleteTarget of an upload session begins the cancellation, or finds it
\* done.
LEMMA CancelSessionOK ==
  ASSUME DeletionInv, NEW w \in Deleters, CancelSession(w)
  PROVE  DeletionInv'
<1>1. PICK h : h = Handle(w)
  BY ZenonT(60)
<1>2. h \in Sessions /\ txn[w].stage = "delete" /\ Open(w) /\ UNCHANGED <<fileRows, minted, blobs, intents>>
  BY ZenonT(60), <1>1 DEF CancelSession, Open, phpVars
<1>3. w \in Goroutines /\ DOMAIN op = Goroutines
  BY ZenonT(60) DEF Goroutines, DeletionInv, UploadInv
<1>4. CASE Cleaned(h)
  <2>1. Outcome(w, "done") /\ UNCHANGED uploadVars
    BY ZenonT(60), <1>1, <1>4 DEF CancelSession
  <2>2. Moves
    BY ZenonT(60), <1>2, <2>1 DEF Moves, SessionStep, uploadVars
  <2>3. Gone(h)'
    BY ZenonT(60), <1>2, <1>4, <2>2, CleanedStays DEF Moves, DeletionInv, Gone
  <2>4. \A v \in Deleters \ {w} : op'[v] = op[v]
    BY ZenonT(60), <2>1 DEF uploadVars
  <2> QED BY ZenonT(60), <1>1, <1>2, <2>1, <2>2, <2>3, <2>4, StageOK
<1>5. CASE ~Cleaned(h)
  <2>1. Outcome(w, "cancelling") /\ Cancel(w, h)
    BY ZenonT(60), <1>1, <1>5 DEF CancelSession
  <2>2. PICK t : op' = [op EXCEPT ![w] = Step(<<"cancel">>, "save", h, t)]
    BY ZenonT(60), <2>1 DEF Cancel, cancelLocked, Do
  <2>3. op'[w] = Step(<<"cancel">>, "save", h, t) /\ \A q \in Goroutines \ {w} : op'[q] = op[q]
    BY ZenonT(60), <1>3, <2>2
  <2>4. op'[w].stage = "save" /\ op'[w].id = h /\ op'[w].kind = <<"cancel">>
    BY <2>3, StepFields
  <2>5. ~Resting(w)'
    BY <2>4 DEF Resting, Idle, Failed
  <2>6. References(h) = {}
    BY ZenonT(60), <1>1, <1>2 DEF DeletionInv, TxnOK
  <2>7. SessionStep
    BY ZenonT(60), <1>2, <1>3, <2>1 DEF SessionStep
  <2>8. Moves
    BY ZenonT(60), <1>2, <2>3, <2>4, <2>6, <2>7 DEF Moves
  <2>9. \A v \in Deleters \ {w} : op'[v] = op[v]
    BY ZenonT(60), <2>3 DEF Goroutines
  <2>10. op'[w].kind[1] = "cancel"
    BY <2>4
  <2> QED BY ZenonT(60), <1>1, <1>2, <2>1, <2>4, <2>5, <2>8, <2>9, <2>10, StageOK
<1> QED BY ZenonT(60), <1>4, <1>5

\* The cancellation comes back: an error, or a cleaned session.
LEMMA CancelReturnsOK ==
  ASSUME DeletionInv, NEW w \in Deleters, CancelReturns(w)
  PROVE  DeletionInv'
<1>1. PICK h, s : h = Handle(w) /\ s = CancelVerdict(w)
  BY ZenonT(60)
<1>2. /\ txn[w].stage = "cancelling" /\ Resting(w) /\ Open(w) /\ Outcome(w, s)
      /\ op' = [op EXCEPT ![w] = Idle] /\ UNCHANGED <<fileRows, minted, blobs, intents>>
  BY ZenonT(60), <1>1 DEF CancelReturns, Open, phpVars
<1>3. w \in Goroutines /\ DOMAIN op = Goroutines
  BY ZenonT(60) DEF Goroutines, DeletionInv, UploadInv
<1>4. op'[w] = Idle /\ \A q \in Goroutines \ {w} : op'[q] = op[q]
  BY ZenonT(60), <1>2, <1>3
<1>5. Forgets(w)
  BY ZenonT(60), <1>2 DEF Forgets, CancelReturns
<1>6. Moves
  BY ZenonT(60), <1>2, <1>3, <1>4, <1>5 DEF Moves, SessionStep
<1>7. s \in {"done", "error"} /\ (s = "done" => Gone(h))
  <2>1. op[w] = Failed \/ (op[w] = Idle /\ Gone(h))
    BY ZenonT(60), <1>1, <1>2 DEF DeletionInv, TxnOK
  <2> QED BY ZenonT(60), <1>1, <2>1 DEF CancelVerdict
<1>8. s = "done" => Gone(h)'
  <2>1. Gone(h) => (h \in BlobHandles => h \notin blobs')
    BY ZenonT(60), <1>2, DeletionAssumption DEF Gone
  <2> QED BY ZenonT(60), <1>6, <1>7, <2>1, GoneStays DEF Moves
<1>9. \A v \in Deleters \ {w} : op'[v] = op[v]
  BY ZenonT(60), <1>4 DEF Goroutines
<1> QED BY ZenonT(60), <1>1, <1>2, <1>6, <1>7, <1>8, <1>9, StageOK

\* The transaction is lost: the tables are as they were, the deleted bytes are
\* not.
LEMMA RollbackOK ==
  ASSUME DeletionInv, NEW w \in Deleters, RollbackOutcome(w)
  PROVE  DeletionInv'
<1>1. w \in Goroutines /\ DOMAIN op = Goroutines
  BY ZenonT(60) DEF Goroutines, DeletionInv, UploadInv
<1>2. op'[w] = Idle /\ \A q \in Goroutines \ {w} : op'[q] = op[q]
  BY ZenonT(60), <1>1 DEF RollbackOutcome
<1>3. Forgets(w)
  BY ZenonT(60) DEF Forgets, RollbackOutcome
<1>4. Moves
  BY ZenonT(60), <1>1, <1>2, <1>3 DEF Moves, SessionStep, RollbackOutcome, phpVars
<1>5. txn' = [txn EXCEPT ![w] = NoTxn] /\ \A v \in Deleters \ {w} : op'[v] = op[v]
  BY ZenonT(60), <1>2 DEF RollbackOutcome, Goroutines
<1> QED BY ZenonT(60), <1>4, <1>5, OwnStepOK

\* The bytes of a blob go while nothing points at them.
LEMMA DeleteBlobOK ==
  ASSUME DeletionInv, NEW w \in Deleters, DeleteBlob(w)
  PROVE  DeletionInv'
<1>1. PICK h : h = Handle(w)
  BY ZenonT(60)
<1>2. /\ txn[w].stage = "delete" /\ h \in BlobHandles /\ Open(w)
      /\ UNCHANGED <<now, manifest, files, op, acked, sealed, served, fileRows, minted, intents>>
  BY ZenonT(60), <1>1 DEF DeleteBlob, Open, phpVars
<1>3. PICK s \in {"done", "error"} :
        /\ Outcome(w, s) /\ blobs' \in {blobs, blobs \ {h}} /\ (s = "done" => blobs' = blobs \ {h})
  BY ZenonT(60), <1>1 DEF DeleteBlob
<1>4. txn[w] \in Txns /\ txn[w].intent \in 1..Len(intents) /\ txn \in [Deleters -> {NoTxn} \cup Txns]
  BY <1>2 DEF DeletionInv, TablesOK, Open, NoTxn
<1>5. PICK x : x = [txn[w] EXCEPT !.stage = s]
  BY ZenonT(60)
<1>6. x \in Txns /\ x.intent = txn[w].intent /\ x.stage = s
  BY ZenonT(60), <1>4, <1>5 DEF Txns
<1>7. /\ txn' \in [Deleters -> {NoTxn} \cup Txns] /\ txn'[w] = x
      /\ \A v \in Deleters \ {w} : txn'[v] = txn[v]
  BY ZenonT(60), <1>3, <1>4, <1>5, <1>6 DEF Outcome
<1>8. References(h) = {}
  BY ZenonT(60), <1>1, <1>2 DEF DeletionInv, TxnOK
<1>9. UploadInv'
  <2>1. SessionStep
    BY ZenonT(60), <1>2 DEF SessionStep
  <2> QED BY ZenonT(60), <2>1, SessionStepOK DEF DeletionInv
<1>10. TablesOK'
  BY ZenonT(60), <1>2, <1>3, <1>4, <1>6, <1>7 DEF DeletionInv, TablesOK, Open
<1>11. \A g : Gone(g) => Gone(g)'
  BY ZenonT(60), <1>2, <1>3 DEF Gone, Cleaned
<1>12. \A r \in fileRows' : Stored(r.handle)'
  BY ZenonT(60), <1>2, <1>3, <1>8 DEF DeletionInv, Stored, References
<1>13. \A g : References(g)' = References(g)
  BY ZenonT(60), <1>2 DEF References
<1>14. \A p \in Goroutines : ~Resting(p)' => (References(op[p].id) = {})'
  BY ZenonT(60), <1>2, <1>13 DEF DeletionInv, Resting, References
<1>15. \A i \in 1..Len(intents') : intents'[i].state = "done" => Gone(intents[i].handle)'
  BY ZenonT(60), <1>2, <1>11 DEF DeletionInv, Gone
<1>16. ASSUME NEW v \in Deleters \ {w}, Open(v)' PROVE TxnOK(v)'
  <2>1. Open(v) /\ Handle(v)' = Handle(v) /\ txn'[v] = txn[v]
    BY ZenonT(60), <1>2, <1>7, <1>16 DEF Open, Handle
  <2>2. TxnOK(v)
    BY ZenonT(60), <2>1 DEF DeletionInv
  <2>3. Gone(Handle(v)) => Gone(Handle(v))'
    BY ZenonT(60), <1>11, <2>1 DEF Gone
  <2>4. References(Handle(v)) = {} => (References(Handle(v)) = {})'
    BY ZenonT(60), <1>2, <2>1 DEF References
  <2>5. Resting(v)' <=> Resting(v)
    BY ZenonT(60), <1>2 DEF Resting
  <2> QED BY ZenonT(60), <1>2, <2>1, <2>2, <2>3, <2>4, <2>5 DEF TxnOK
<1>17. TxnOK(w)'
  <2>1. Handle(w)' = h
    BY ZenonT(60), <1>1, <1>2, <1>6, <1>7 DEF Handle
  <2>2. s = "done" => Gone(Handle(w))'
    BY ZenonT(60), <1>2, <1>3, <2>1 DEF Gone
  <2>3. (References(Handle(w)) = {})'
    BY ZenonT(60), <1>2, <1>8, <2>1 DEF References
  <2> QED BY ZenonT(60), <1>3, <1>6, <1>7, <2>2, <2>3 DEF TxnOK
<1> QED BY ZenonT(60), <1>9, <1>10, <1>12, <1>14, <1>15, <1>16, <1>17 DEF DeletionInv

-----------------------------------------------------------------------------
(* The tables.                                                             *)

\* A new row points at stored bytes that no consumer holds and no operation works
\* on; an intent keeps its handle, and a new one is pending.
NewRows ==
  \A r \in fileRows' \ fileRows : /\ Stored(r.handle)' /\ ~Held(r.handle)
                                  /\ \A p \in Goroutines : ~Resting(p) => op[p].id # r.handle
NewBlobs ==
  /\ blobs \subseteq blobs'
  /\ \A i \in 1..Len(intents) : intents[i].handle \notin blobs' \ blobs
NewIntents ==
  /\ \A i \in 1..Len(intents) : /\ i \in 1..Len(intents') /\ intents'[i].handle = intents[i].handle
                                /\ intents'[i].state = "done" => Gone(intents[i].handle)
  /\ \A i \in 1..Len(intents') : i \notin 1..Len(intents) => intents'[i].state = "pending"
TableTypes ==
  /\ fileRows' \subseteq FileRecords /\ minted' \in Nat /\ blobs' \subseteq BlobHandles
  /\ intents' \in Seq(IntentRows) /\ txn' \in [Deleters -> {NoTxn} \cup Txns]

\* Rows and intents change beside the sessions.
LEMMA TableStepOK ==
  ASSUME DeletionInv, UNCHANGED uploadVars, TableTypes, NewRows, NewBlobs, NewIntents,
         \A w \in Deleters : txn'[w] = txn[w] \/ txn'[w] = NoTxn
  PROVE  DeletionInv'
<1>1. UNCHANGED <<now, manifest, files, op, acked, sealed, served>>
  BY ZenonT(60) DEF uploadVars
<1>2. UploadInv'
  <2>1. SessionStep
    BY ZenonT(60), <1>1 DEF SessionStep
  <2> QED BY ZenonT(60), <2>1, SessionStepOK DEF DeletionInv
<1>3. \A w \in Deleters : Open(w)' => Open(w) /\ txn'[w] = txn[w]
  BY DEF Open, NoTxn
<1>4. \A w \in Deleters : Open(w)' => txn[w].intent \in 1..Len(intents)
  BY ZenonT(60), <1>3, TableFacts
<1>5. TablesOK'
  <2>1. \A w \in Deleters : Open(w)' => txn'[w].intent \in 1..Len(intents')
    BY ZenonT(60), <1>3, <1>4 DEF NewIntents
  <2> QED BY ZenonT(60), <2>1 DEF TablesOK, TableTypes
<1>6. \A h : Gone(h) /\ h \notin blobs' \ blobs => Gone(h)'
  BY ZenonT(60), <1>1 DEF Gone, Cleaned
<1>7. ASSUME NEW r \in fileRows' PROVE Stored(r.handle)'
  <2>1. r \in fileRows => Stored(r.handle)
    BY ZenonT(60) DEF DeletionInv
  <2>2. r \in fileRows => Stored(r.handle)'
    BY ZenonT(60), <1>1, <2>1 DEF Stored, NewBlobs
  <2> QED BY ZenonT(60), <1>7, <2>2 DEF NewRows
<1>8. ASSUME NEW p \in Goroutines, ~Resting(p)' PROVE (References(op[p].id) = {})'
  <2>1. ~Resting(p) /\ op'[p] = op[p] /\ References(op[p].id) = {}
    BY ZenonT(60), <1>1, <1>8 DEF DeletionInv, Resting
  <2> QED BY ZenonT(60), <2>1 DEF References, NewRows
<1>9. ASSUME NEW i \in 1..Len(intents'), intents'[i].state = "done" PROVE Gone(intents[i].handle)'
  <2>1. i \in 1..Len(intents)
    BY ZenonT(60), <1>9 DEF NewIntents
  <2>2. PICK h : h = intents[i].handle /\ Gone(h) /\ h = intents'[i].handle /\ h \notin blobs' \ blobs
    BY ZenonT(60), <1>9, <2>1 DEF NewIntents, NewBlobs
  <2>3. Gone(h)'
    BY ZenonT(60), <1>6, <2>2
  <2> QED BY ZenonT(60), <2>2, <2>3 DEF Gone
<1>10. ASSUME NEW w \in Deleters, Open(w)' PROVE TxnOK(w)'
  <2>0. /\ Open(w) /\ txn'[w] = txn[w] /\ txn[w].intent \in 1..Len(intents)
    BY ZenonT(60), <1>3, <1>4, <1>10
  <2>1. /\ Open(w) /\ txn'[w] = txn[w] /\ Handle(w)' = Handle(w) /\ TxnOK(w)
        /\ Handle(w) \notin blobs' \ blobs
    <3>1. Handle(w)' = Handle(w) /\ Handle(w) \notin blobs' \ blobs
      BY ZenonT(60), <2>0 DEF Handle, NewIntents, NewBlobs
    <3>2. TxnOK(w)
      BY ZenonT(60), <2>0 DEF DeletionInv
    <3> QED BY ZenonT(60), <2>0, <3>1, <3>2
  <2>2. Gone(Handle(w)) => Gone(Handle(w))'
    BY ZenonT(60), <1>6, <2>1 DEF Gone
  <2>3. References(Handle(w)) = {} => (References(Handle(w)) = {})'
    BY <2>1 DEF References, Held, Handle, NewRows
  <2>4. Resting(w)' <=> Resting(w)
    BY ZenonT(60), <1>1 DEF Resting
  <2> QED BY ZenonT(60), <1>1, <2>1, <2>2, <2>3, <2>4 DEF TxnOK
<1> QED BY ZenonT(60), <1>2, <1>5, <1>7, <1>8, <1>9, <1>10 DEF DeletionInv

\* The outcome is committed: an intent is done only when its bytes are gone.
LEMMA CommitOK ==
  ASSUME DeletionInv, NEW w \in Deleters, CommitOutcome(w)
  PROVE  DeletionInv'
<1>1. /\ intents' = [intents EXCEPT ![txn[w].intent] = Settled(w)]
      /\ txn' = [txn EXCEPT ![w] = NoTxn] /\ UNCHANGED <<uploadVars, fileRows, minted, blobs>>
      /\ txn[w].stage \in {"cancelled", "done", "error"}
  BY ZenonT(60) DEF CommitOutcome, Decided
<1>2. PICK n, s, i : n = txn[w].intent /\ s = txn[w].stage /\ i = intents[n]
  BY ZenonT(60)
<1>3. /\ n \in 1..Len(intents) /\ i \in IntentRows /\ intents \in Seq(IntentRows) /\ Len(intents) \in Nat
      /\ s = "done" => Gone(i.handle)
  <2>1. Open(w)
    BY ZenonT(60), <1>1 DEF Open
  <2>2. s = "done" => Gone(i.handle)
    BY ZenonT(60), <1>2, <2>1 DEF DeletionInv, TxnOK, Handle
  <2>3. n \in 1..Len(intents) /\ intents \in Seq(IntentRows) /\ Len(intents) \in Nat
    BY ZenonT(60), <1>2, <2>1, TableFacts
  <2> QED BY <1>2, <2>2, <2>3
<1>4. \A d \in Nat : Later(d) \in Nat
  BY UploadsAssumption DEF Later, DeletionInv, UploadInv
<1>5. PICK t : t = IF s = "error"
                   THEN Later(Backoff[IF i.attempts < Len(Backoff) THEN i.attempts + 1 ELSE Len(Backoff)])
                   ELSE 0
  BY ZenonT(60)
<1>6. t \in Nat
  <2>1. i.attempts \in Nat
    BY ZenonT(60), <1>3 DEF IntentRows
  <2>2. (IF i.attempts < Len(Backoff) THEN i.attempts + 1 ELSE Len(Backoff)) \in 1..Len(Backoff)
    BY <2>1, DeletionAssumption
  <2>3. Backoff[IF i.attempts < Len(Backoff) THEN i.attempts + 1 ELSE Len(Backoff)] \in Nat
    BY <2>2, DeletionAssumption
  <2> QED BY ZenonT(60), <1>4, <1>5, <2>3
<1>7. PICK x : x = Settled(w)
  BY ZenonT(60)
<1>8. x \in IntentRows /\ x.handle = i.handle /\ x.state = IF s = "error" THEN "pending" ELSE s
  <2>1. PICK y, a : y = (IF s = "error" THEN "pending" ELSE s) /\ a = i.attempts + 1
    BY ZenonT(60)
  <2>2. y \in {"pending", "cancelled", "done"} /\ a \in Nat
    <3>1. i.attempts \in Nat
      BY ZenonT(60), <1>3 DEF IntentRows
    <3>2. a \in Nat
      BY <2>1, <3>1
    <3> QED BY ZenonT(60), <1>1, <1>2, <2>1, <3>2
  <2>3. x = [i EXCEPT !.state = y, !.attempts = a, !.next = t]
    BY ZenonT(60), <1>2, <1>5, <1>7, <2>1 DEF Settled
  <2>4. x = [handle |-> i.handle, state |-> y, attempts |-> a, next |-> t]
    BY ZenonT(60), <1>3, <2>3 DEF IntentRows
  <2>5. i.handle \in StorageHandles
    BY ZenonT(60), <1>3 DEF IntentRows
  <2> QED BY ZenonT(60), <1>6, <2>1, <2>2, <2>4, <2>5 DEF IntentRows
<1>9. /\ intents' \in Seq(IntentRows) /\ Len(intents') = Len(intents) /\ intents'[n] = x
      /\ \A j \in 1..Len(intents) : j # n => intents'[j] = intents[j]
  BY <1>1, <1>2, <1>3, <1>7, <1>8
<1>10. NewIntents
  <2>1. \A j \in 1..Len(intents) : /\ intents'[j].handle = intents[j].handle
                                   /\ intents'[j].state = "done" => Gone(intents[j].handle)
    BY ZenonT(60), <1>2, <1>3, <1>8, <1>9, DoneFacts
  <2> QED BY ZenonT(60), <1>9, <2>1 DEF NewIntents
<1>11. /\ txn' \in [Deleters -> {NoTxn} \cup Txns]
       /\ \A v \in Deleters : txn'[v] = txn[v] \/ txn'[v] = NoTxn
  BY ZenonT(60), <1>1, TableFacts
<1>12. TableTypes
  BY ZenonT(60), <1>1, <1>9, <1>11, TableFacts DEF TableTypes
<1>13. NewRows /\ NewBlobs
  BY ZenonT(60), <1>1 DEF NewRows, NewBlobs
<1> QED BY ZenonT(60), <1>1, <1>10, <1>11, <1>12, <1>13, TableStepOK

\* A row is added for bytes that are there and that no operation touches.
LEMMA AddRowOK ==
  ASSUME DeletionInv, NEW h \in StorageHandles, AddRow(h), UNCHANGED <<uploadVars, intents, txn>>,
         NewBlobs, blobs' \subseteq BlobHandles, Stored(h)',
         \A p \in Goroutines : ~Resting(p) => op[p].id # h
  PROVE  DeletionInv'
<1>1. PICK r : r = [id |-> minted', handle |-> h]
  BY ZenonT(60)
<1>2. r.handle = h /\ ~Held(h) /\ fileRows' = fileRows \cup {r}
  BY ZenonT(60), <1>1 DEF AddRow
<1>3. minted' \in Nat /\ fileRows \subseteq FileRecords
  <2>1. minted \in Nat /\ fileRows \subseteq FileRecords
    BY ZenonT(60), RowFacts
  <2>2. minted' = minted + 1
    BY ZenonT(60) DEF AddRow
  <2> QED BY <2>1, <2>2
<1>4. fileRows' \subseteq FileRecords
  <2>1. r \in FileRecords
    BY ZenonT(60), <1>1, <1>3 DEF FileRecords
  <2> QED BY ZenonT(60), <1>2, <1>3, <2>1
<1>5. NewRows
  <2>1. \A q \in fileRows' \ fileRows : q = r
    BY ZenonT(60), <1>2
  <2> QED BY ZenonT(60), <1>2, <2>1 DEF NewRows
<1>6. NewIntents
  BY ZenonT(60), DoneFacts DEF NewIntents
<1>7. TableTypes
  BY ZenonT(60), <1>3, <1>4, TableFacts DEF TableTypes
<1>8. \A w \in Deleters : txn'[w] = txn[w]
  BY ZenonT(60)
<1> QED BY ZenonT(60), <1>5, <1>6, <1>7, <1>8, TableStepOK

\* An intent is added; rows may go with it.
LEMMA IntendOK ==
  ASSUME DeletionInv, NEW h \in StorageHandles, UNCHANGED <<uploadVars, minted, blobs, txn>>,
         fileRows' \subseteq fileRows,
         \/ UNCHANGED intents
         \/ intents' = Append(intents, [handle |-> h, state |-> "pending", attempts |-> 0, next |-> 0])
  PROVE  DeletionInv'
<1>1. PICK x : x = [handle |-> h, state |-> "pending", attempts |-> 0, next |-> 0]
  BY ZenonT(60)
<1>2. x \in IntentRows /\ x.state = "pending"
  BY ZenonT(60), <1>1 DEF IntentRows
<1>3. intents \in Seq(IntentRows) /\ Len(intents) \in Nat
  BY ZenonT(60), TableFacts
<1>4. /\ intents' \in Seq(IntentRows) /\ Len(intents') \in {Len(intents), Len(intents) + 1}
      /\ \A i \in 1..Len(intents) : intents'[i] = intents[i]
      /\ \A i \in 1..Len(intents') : i \notin 1..Len(intents) => intents'[i] = x
  <2>1. CASE UNCHANGED intents
    BY ZenonT(60), <1>3, <2>1
  <2>2. CASE intents' = Append(intents, x)
    BY <1>2, <1>3, <2>2
  <2> QED BY ZenonT(60), <1>1, <2>1, <2>2
<1>5. NewIntents
  <2>1. \A i \in 1..Len(intents) : i \in 1..Len(intents')
    BY <1>3, <1>4
  <2> QED BY ZenonT(60), <1>2, <1>4, <2>1, DoneFacts DEF NewIntents
<1>6. TableTypes
  BY ZenonT(60), <1>4, TableFacts DEF TableTypes
<1>7. NewRows /\ NewBlobs
  BY ZenonT(60) DEF NewRows, NewBlobs
<1>8. \A w \in Deleters : txn'[w] = txn[w]
  BY ZenonT(60)
<1> QED BY ZenonT(60), <1>5, <1>6, <1>7, <1>8, TableStepOK

\* The transactions of the application keep the invariant.
LEMMA ApplicationOK ==
  ASSUME DeletionInv, ApplicationSteps
  PROVE  DeletionInv'
<1>1. \A r \in fileRows : /\ r.handle \in StorageHandles /\ Stored(r.handle)
                          /\ \A p \in Goroutines : ~Resting(p) => op[p].id # r.handle
  <2>1. \A r \in fileRows : r.handle \in StorageHandles /\ Stored(r.handle) /\ r \in References(r.handle)
    BY ZenonT(60) DEF DeletionInv, TablesOK, FileRecords, References
  <2> QED BY ZenonT(60), <2>1 DEF DeletionInv
<1>2. blobs \subseteq BlobHandles /\ DOMAIN intents = 1..Len(intents)
  BY ZenonT(60), TableFacts
<1>3. ASSUME NEW h \in BlobHandles, StoreBlob(h) PROVE DeletionInv'
  <2>1. /\ blobs' = blobs \cup {h} /\ AddRow(h) /\ UNCHANGED <<uploadVars, intents, txn>>
        /\ \A i \in 1..Len(intents) : intents[i].handle # h
    BY ZenonT(60), <1>2, <1>3 DEF StoreBlob
  <2>2. \A p \in Goroutines : ~Resting(p) => op[p].id # h
    BY ZenonT(60), DeletionAssumption, StageIsBusy DEF DeletionInv
  <2>3. h \in StorageHandles /\ Stored(h)'
    BY ZenonT(60), <2>1 DEF StorageHandles, Stored
  <2>4. NewBlobs
    BY ZenonT(60), <2>1 DEF NewBlobs
  <2> QED BY ZenonT(60), <1>2, <2>1, <2>2, <2>3, <2>4, AddRowOK
<1>4. ASSUME NEW id \in Sessions, FileOfUpload(id) PROVE DeletionInv'
  <2>1. /\ sealed[id] # NULL /\ manifest[id].state = "complete" /\ ~Locked(id) /\ AddRow(id)
        /\ UNCHANGED <<uploadVars, blobs, intents, txn>>
    BY ZenonT(60), <1>4 DEF FileOfUpload
  <2>2. \A p \in Goroutines : ~Resting(p) => op[p].id # id
    BY ZenonT(60), <2>1 DEF Locked
  <2>3. manifest[id] # NULL
    BY ZenonT(60), <2>1 DEF DeletionInv, UploadInv, ToldOK
  <2>4. id \in StorageHandles /\ Stored(id)'
    BY ZenonT(60), <2>1, <2>3 DEF StorageHandles, Stored, uploadVars
  <2>5. NewBlobs
    BY ZenonT(60), <2>1 DEF NewBlobs
  <2> QED BY ZenonT(60), <1>2, <2>1, <2>2, <2>4, <2>5, AddRowOK
<1>5. ASSUME NEW r \in fileRows, CopyFile(r) PROVE DeletionInv'
  <2>1. AddRow(r.handle) /\ UNCHANGED <<uploadVars, blobs, intents, txn>>
    BY ZenonT(60), <1>5 DEF CopyFile
  <2>2. PICK h \in StorageHandles : /\ h = r.handle /\ Stored(h)
                                    /\ \A p \in Goroutines : ~Resting(p) => op[p].id # h
    BY ZenonT(60), <1>1
  <2>3. Stored(h)'
    BY ZenonT(60), <2>1, <2>2 DEF Stored, uploadVars
  <2>4. NewBlobs
    BY ZenonT(60), <2>1 DEF NewBlobs
  <2> QED BY ZenonT(60), <1>2, <2>1, <2>2, <2>3, <2>4, AddRowOK
<1>6. ASSUME NEW r \in fileRows, RemoveFile(r) PROVE DeletionInv'
  BY ZenonT(60), <1>1, <1>6, IntendOK DEF RemoveFile
<1>7. ASSUME NEW h \in StorageHandles, RetireHandle(h) PROVE DeletionInv'
  BY ZenonT(60), <1>7, IntendOK DEF RetireHandle
<1> QED BY ZenonT(60), <1>3, <1>4, <1>5, <1>6, <1>7 DEF ApplicationSteps

-----------------------------------------------------------------------------

\* The invariant is inductive.
LEMMA DeletionStepOK == DeletionInv /\ [DeletionNext]_deletionVars => DeletionInv'
<1> SUFFICES ASSUME DeletionInv, [DeletionNext]_deletionVars PROVE DeletionInv'
  BY ZenonT(60)
<1>1. CASE UNCHANGED deletionVars
  <2>1. SessionStep /\ UNCHANGED <<fileRows, minted, blobs, intents, txn, op>>
    BY ZenonT(60), <1>1 DEF deletionVars, uploadVars, SessionStep
  <2> QED BY ZenonT(60), <2>1, OthersOK DEF Moves
<1>2. CASE \E w \in Deleters : ConsumerSteps(w) \/ RollbackOutcome(w)
  BY ZenonT(60), <1>2, TakeIntentOK, CancelSessionOK, CancelReturnsOK, DeleteBlobOK, CommitOK, RollbackOK DEF ConsumerSteps
<1>3. CASE /\ \/ UploadTick \/ ClientUploads
              \/ \E id \in Sessions : SweepExpired(id)
              \/ \E p \in Goroutines : GoroutineSteps(p) \/ Fail(p)
           /\ UNCHANGED <<phpVars, blobs, txn>>
  BY ZenonT(60), <1>3, SessionsBesideOK DEF phpVars
<1> QED BY ZenonT(60), <1>1, <1>2, <1>3, ApplicationOK, AbandonOK DEF DeletionNext

\* It holds of the empty tables and directories.
LEMMA DeletionInitOK == ClockInit /\ UploadsInit /\ DeletionInit => DeletionInv
<1> SUFFICES ASSUME ClockInit, UploadsInit, DeletionInit PROVE DeletionInv
  BY ZenonT(60)
<1>1. UploadInv
  BY ZenonT(60), UploadInitOK
<1>2. intents = <<>> /\ fileRows = {} /\ minted = 0 /\ blobs = {} /\ \A w \in Deleters : ~Open(w)
  BY ZenonT(60) DEF DeletionInit, Open, NoTxn
<1>3. Len(intents) = 0 /\ intents \in Seq(IntentRows) /\ txn \in [Deleters -> {NoTxn} \cup Txns]
  BY <1>2 DEF DeletionInit
<1>4. TablesOK
  BY ZenonT(60), <1>2, <1>3 DEF TablesOK
<1>5. \A h : References(h) = {}
  BY ZenonT(60), <1>2 DEF References
<1>6. \A r \in fileRows : Stored(r.handle)
  BY ZenonT(60), <1>2
<1>7. \A i \in 1..Len(intents) : intents[i].state = "done" => Gone(intents[i].handle)
  BY <1>3
<1> QED BY ZenonT(60), <1>1, <1>2, <1>4, <1>5, <1>6, <1>7 DEF DeletionInv

\* No retry, lost commit, second consumer, sweep or client deletes bytes that
\* a file row points at; an intent marked done has its bytes gone; and the
\* sessions keep their word beside the deletions: for any sets of sessions,
\* handles, clients and consumers, and any backoff table (processDeletionOnce,
\* deleteTarget).
THEOREM DeletionIsSafe == DeletionSpec => []DeletesOnlyGarbage /\ UploadsDurable
<1>1. DeletionInv => DeletesOnlyGarbage
  <2> SUFFICES ASSUME DeletionInv PROVE DeletesOnlyGarbage
    BY ZenonT(60)
  <2>1. \A r \in fileRows : Stored(r.handle)
    BY ZenonT(60) DEF DeletionInv
  <2>2. ReferencedIsStored
    BY ZenonT(60), <2>1 DEF ReferencedIsStored, Stored
  <2>3. DoneIsGone
    <3>1. DOMAIN intents = 1..Len(intents)
      BY ZenonT(60), TableFacts
    <3>2. \A i \in 1..Len(intents) : intents[i].state = "done" => Gone(intents[i].handle)
      BY ZenonT(60), DoneFacts
    <3>3. \A i \in DOMAIN intents : intents[i].state = "done" => Gone(intents[i].handle)
      BY ZenonT(60), <3>1, <3>2
    <3> QED BY ZenonT(60), <3>3 DEF DoneIsGone, Gone
  <2> QED BY ZenonT(60), <2>2, <2>3 DEF DeletesOnlyGarbage
<1>2. [DeletionNext]_deletionVars => SessionStep
  <2>1. \A w \in Deleters : CancelReturns(w) \/ RollbackOutcome(w) => Forgets(w)
    BY ZenonT(60) DEF CancelReturns, RollbackOutcome, Forgets
  <2>2. \A w \in Deleters : CancelSession(w) => SessionStep
    BY ZenonT(60) DEF CancelSession, SessionStep, uploadVars, Goroutines
  <2>3. \A w \in Deleters : TakeIntent(w) \/ DeleteBlob(w) \/ CommitOutcome(w) => SessionStep
    BY ZenonT(60) DEF TakeIntent, DeleteBlob, CommitOutcome, SessionStep, uploadVars
  <2>4. ApplicationSteps \/ UNCHANGED deletionVars => SessionStep
    BY ZenonT(60) DEF ApplicationSteps, StoreBlob, FileOfUpload, CopyFile, RemoveFile, RetireHandle, SessionStep,
           uploadVars, deletionVars
  <2>5. \A p \in Clients, id \in Sessions : Abandon(p, id) => SessionStep
    BY ZenonT(60) DEF Abandon, SessionStep, Goroutines
  <2>6. \A w \in Deleters : ConsumerSteps(w) \/ RollbackOutcome(w) => SessionStep
    BY ZenonT(60), <2>1, <2>2, <2>3 DEF ConsumerSteps, SessionStep, Goroutines
  <2> QED BY ZenonT(60), <2>4, <2>5, <2>6 DEF DeletionNext, SessionStep
<1>3. DeletionInv => UploadInv
  BY ZenonT(60) DEF DeletionInv
<1>4. UploadInv /\ [DeletionNext]_deletionVars => [RanksGrow]_manifest
  BY ZenonT(60), <1>2, RanksGrowOK
<1> QED BY <1>1, <1>3, <1>4, DeletionInitOK, DeletionStepOK, UploadInvSuffices, PTL
        DEF DeletionSpec, UploadsDurable, NeverResurrected, RanksGrow

=============================================================================
