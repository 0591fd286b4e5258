------------------------------ MODULE Uploads ------------------------------
(***************************************************************************)
(* The resumable uploads of filestorage/uploads.go.  A session is a        *)
(* directory with a manifest and one file per chunk; every operation holds *)
(* the session's flock, loads the manifest, and then makes its changes one *)
(* durable write or unlink at a time.  Fail stops an operation between two *)
(* of them: an I/O error, a cancelled request, or the death of the process *)
(* (which drops its flocks).                                               *)
(*                                                                         *)
(* A chunk's bytes and their SHA-256 are one value of Data; the size of an *)
(* upload is its number of chunks.                                         *)
(***************************************************************************)
EXTENDS Clock, FiniteSets

CONSTANTS
  Sessions,   \* upload ids
  Data,       \* contents a chunk may have
  Clients,    \* requests in flight: goroutines of any process on the volume
  Sweeper,    \* the goroutine that runs SweepExpired
  Deleters,   \* the goroutines that run ProcessDeletion
  Lifetime,   \* the seven days an unfinished upload lives
  MaxChunks,  \* bound: chunks of an upload
  MaxFails    \* bound: operations cut short

VARIABLES
  manifest,   \* session -> manifest.json, or NULL
  files,      \* session -> set of <<chunk, bytes>> in its directory
  op,         \* goroutine -> the operation it is in the middle of
  acked,      \* <<session, chunk, bytes>> a client was told is stored
  sealed,     \* session -> contents Complete answered with, or NULL
  served,     \* <<session, chunk, bytes>> handed out by Read
  fails

uploadVars == <<now, manifest, files, op, acked, sealed, served, fails>>

Goroutines == Clients \cup {Sweeper} \cup Deleters
Size(m) == DOMAIN m.chunks
Idle == [stage |-> "idle"]
Failed == [stage |-> "failed"]
Resting(p) == op[p] \in {Idle, Failed}

Upload(size) ==
  [state |-> "uploading", expires |-> Later(Lifetime), cleaned |-> FALSE,
   chunks |-> [c \in 1..size |-> NULL], digest |-> NULL]
Tombstone ==
  [state |-> "cancelled", expires |-> 0, cleaned |-> FALSE, chunks |-> <<>>, digest |-> NULL]

UploadsInit ==
  /\ manifest = [id \in Sessions |-> NULL]
  /\ files = [id \in Sessions |-> {}]
  /\ op = [p \in Goroutines |-> Idle]
  /\ acked = {} /\ served = {}
  /\ sealed = [id \in Sessions |-> NULL]
  /\ fails = 0

-----------------------------------------------------------------------------
(* lock, load and uploadLive.                                              *)

NoFlock(id) == FALSE
Locked(id) == \E p \in Goroutines : ~Resting(p) /\ op[p].id = id
Enter(p, id) == Resting(p) /\ ~Locked(id)

uploadLive(m) ==
  ~(m.state = "cancelled" \/ (m.state # "complete" /\ m.expires <= now))

Live(p, id) == Enter(p, id) /\ manifest[id] # NULL /\ uploadLive(manifest[id])

\* an operation on session id that is about to take a stage, with the manifest
\* it holds in memory
Step(kind, stage, id, m) == [kind |-> kind, stage |-> stage, id |-> id, m |-> m]
Do(p, operation) == op' = [op EXCEPT ![p] = operation]

-----------------------------------------------------------------------------
(* The operations.  Answers that change nothing (a conflict, an expired or *)
(* missing session, a replayed Create or Complete) take no step.           *)

Create(p, id) ==
  /\ Enter(p, id) /\ manifest[id] = NULL
  /\ \E size \in 1..MaxChunks : Do(p, Step(<<"create">>, "save", id, Upload(size)))
  /\ UNCHANGED <<now, manifest, files, acked, sealed, served, fails>>

\* Put of a chunk already recorded: the same bytes again are a success
PutAgain(p, id, c) ==
  /\ Live(p, id)
  /\ c \in Size(manifest[id]) /\ manifest[id].chunks[c] # NULL
  /\ acked' = acked \cup {<<id, c, manifest[id].chunks[c]>>}
  /\ UNCHANGED <<now, manifest, files, op, sealed, served, fails>>

Missing(m, c) == m.chunks[c] = NULL /\ m.state = "uploading"

Put(p, id, c, d) ==
  /\ Live(p, id)
  /\ c \in Size(manifest[id]) /\ Missing(manifest[id], c)
  /\ Do(p, Step(<<"put", c, d>>, "chunk", id, [manifest[id] EXCEPT !.chunks[c] = d]))
  /\ UNCHANGED <<now, manifest, files, acked, sealed, served, fails>>

\* the bytes first, then the manifest that acknowledges them
PutChunk(p) ==
  /\ op[p].stage = "chunk"
  /\ LET o == op[p]
         c == o.kind[2] IN
     /\ files' = [files EXCEPT ![o.id] = {f \in @ : f[1] # c} \cup {<<c, o.kind[3]>>}]
     /\ Do(p, [o EXCEPT !.stage = "save"])
  /\ UNCHANGED <<now, manifest, acked, sealed, served, fails>>

hashChunks(id) ==
  \A c \in Size(manifest[id]) : /\ manifest[id].chunks[c] # NULL
                                /\ <<c, manifest[id].chunks[c]>> \in files[id]

Complete(p, id) ==
  /\ Live(p, id) /\ manifest[id].state = "uploading"
  /\ hashChunks(id)
  /\ Do(p, Step(<<"complete">>, "save", id,
                [manifest[id] EXCEPT !.state = "complete", !.digest = manifest[id].chunks]))
  /\ UNCHANGED <<now, manifest, files, acked, sealed, served, fails>>

\* Cancel and SweepExpired end in cancelLocked: the tombstone is on disk before
\* the first file goes, and says cleaned only once they are all gone
cancelLocked(p, id, m) ==
  /\ ~(m.state = "cancelled" /\ m.cleaned)
  /\ Do(p, Step(<<"cancel">>, "save", id, [m EXCEPT !.state = "cancelled"]))

Cancel(p, id) ==
  /\ Enter(p, id)
  /\ cancelLocked(p, id, IF manifest[id] = NULL THEN Tombstone ELSE manifest[id])
  /\ UNCHANGED <<now, manifest, files, acked, sealed, served, fails>>

Eligible(m) ==
  \/ m.state = "cancelled" /\ ~m.cleaned
  \/ m.state = "uploading" /\ m.expires <= now

SweepExpired(id) ==
  /\ Enter(Sweeper, id) /\ manifest[id] # NULL /\ Eligible(manifest[id])
  /\ cancelLocked(Sweeper, id, manifest[id])
  /\ UNCHANGED <<now, manifest, files, acked, sealed, served, fails>>

Unlink(p) ==
  /\ op[p].stage = "unlink"
  /\ LET o == op[p] IN
     \/ \E f \in files[o.id] : /\ files' = [files EXCEPT ![o.id] = @ \ {f}]
                               /\ UNCHANGED op
     \/ /\ files[o.id] = {}
        /\ Do(p, Step(o.kind, "save", o.id, [o.m EXCEPT !.cleaned = TRUE]))
        /\ UNCHANGED files
  /\ UNCHANGED <<now, manifest, acked, sealed, served, fails>>

AfterTombstone(m) == IF m.cleaned THEN "done" ELSE "unlink"

\* save, and the answer of the operations that end with it
Save(p) ==
  /\ op[p].stage = "save"
  /\ LET o == op[p] IN
     /\ manifest' = [manifest EXCEPT ![o.id] = o.m]
     /\ IF o.kind[1] = "cancel" /\ AfterTombstone(o.m) = "unlink"
        THEN Do(p, [o EXCEPT !.stage = "unlink"])
        ELSE Do(p, Idle)
     /\ acked' = IF o.kind[1] = "put" THEN acked \cup {<<o.id, o.kind[2], o.kind[3]>>}
                                      ELSE acked
     /\ sealed' = IF o.kind[1] = "complete" THEN [sealed EXCEPT ![o.id] = o.m.digest]
                                            ELSE sealed
  /\ UNCHANGED <<now, files, served, fails>>

\* Read opens the chunk and checks its digest before it hands out the file
Read(p, id, c) ==
  /\ Live(p, id) /\ manifest[id].state = "complete"
  /\ c \in Size(manifest[id])
  /\ <<c, manifest[id].chunks[c]>> \in files[id]
  /\ served' = served \cup {<<id, c, manifest[id].chunks[c]>>}
  /\ UNCHANGED <<now, manifest, files, op, acked, sealed, fails>>

\* the operation ends here with an error; a save may have renamed the manifest
\* before its directory sync failed
Fail(p) ==
  /\ ~Resting(p) /\ fails < MaxFails
  /\ fails' = fails + 1
  /\ Do(p, Failed)
  /\ \/ UNCHANGED manifest
     \/ op[p].stage = "save" /\ manifest' = [manifest EXCEPT ![op[p].id] = op[p].m]
  /\ UNCHANGED <<now, files, acked, sealed, served>>

UploadTick ==
  Advance /\ UNCHANGED <<manifest, files, op, acked, sealed, served, fails>>

ClientUploads ==
  \E p \in Clients, id \in Sessions :
    \/ Create(p, id) \/ Complete(p, id)
    \/ \E c \in 1..MaxChunks :
         PutAgain(p, id, c) \/ Read(p, id, c) \/ \E d \in Data : Put(p, id, c, d)

GoroutineSteps(p) == PutChunk(p) \/ Unlink(p) \/ Save(p)

UploadsNext ==
  \/ UploadTick \/ ClientUploads
  \/ \E id \in Sessions : SweepExpired(id) \/ \E p \in Clients : Cancel(p, id)
  \/ \E p \in Goroutines : GoroutineSteps(p) \/ Fail(p)

UploadsSpec == ClockInit /\ UploadsInit /\ [][UploadsNext]_uploadVars

-----------------------------------------------------------------------------

Manifests ==
  [state : {"uploading", "complete", "cancelled"}, expires : 0..MaxTime, cleaned : BOOLEAN,
   chunks : UNION {[1..n -> Data \cup {NULL}] : n \in 0..MaxChunks},
   digest : {NULL} \cup UNION {[1..n -> Data] : n \in 1..MaxChunks}]

ASSUME UploadsAssumption ==
  /\ NULL \notin Data /\ NULL \notin Manifests
  /\ MaxChunks \in Nat /\ Lifetime \in Nat /\ MaxTime \in Nat

(* The manifest, the directory and the operation in flight keep their      *)
(* types: a tombstone, in particular, is a manifest like any other.        *)
UploadsTypeOK ==
  /\ manifest \in [Sessions -> Manifests \cup {NULL}]
  /\ files \in [Sessions -> SUBSET ((1..MaxChunks) \X Data)]
  /\ \A p \in Goroutines : Resting(p) \/ op[p].stage \in {"chunk", "save", "unlink"}

(* Whatever manifest.json records as complete is in the directory, byte    *)
(* for byte, as long as the session is not cancelled: Put writes the bytes *)
(* before the manifest, and cancelLocked the tombstone before it unlinks.  *)
RecordedIsStored ==
  \A id \in Sessions :
    manifest[id] # NULL /\ manifest[id].state # "cancelled" =>
      \A c \in Size(manifest[id]) :
        manifest[id].chunks[c] # NULL => <<c, manifest[id].chunks[c]>> \in files[id]

(* A chunk a client was told is stored keeps those bytes until the session *)
(* is cancelled, whatever other clients put there meanwhile.               *)
AckedIsKept ==
  \A a \in acked : \/ manifest[a[1]].state = "cancelled"
                   \/ manifest[a[1]].chunks[a[2]] = a[3]

(* Every byte Read hands out is the one whose digest Complete answered     *)
(* with, when Complete answered at all.                                    *)
ServedIsSealed ==
  \A s \in served : sealed[s[1]] # NULL => sealed[s[1]][s[2]] = s[3]

Cleaned(id) == manifest[id] # NULL /\ manifest[id].cleaned

(* A manifest that says cleaned has an empty directory: no put in flight   *)
(* leaves a file behind it, and a crashed cancellation is not counted.     *)
CleanedIsEmpty == \A id \in Sessions : Cleaned(id) => files[id] = {}

Rank(m) ==
  CASE m = NULL -> 0 [] OTHER ->
    CASE m.state = "uploading" -> 1 [] m.state = "complete" -> 2 [] m.state = "cancelled" -> 3

(* "The same id can never resurrect a deleted file" (cancelLocked): a      *)
(* session only moves on, and a cancelled one stays cancelled, even when   *)
(* the cancellation arrived before the Create it meant to stop.            *)
NeverResurrected == [][\A id \in Sessions : Rank(manifest'[id]) >= Rank(manifest[id])]_manifest

(* The sweep gets rid of every upload that expired or whose cancellation   *)
(* was cut short, unless a Complete that had begun in time seals it.       *)
ExpiredIsSwept ==
  \A id \in Sessions :
    manifest[id] # NULL /\ Eligible(manifest[id]) ~> Cleaned(id) \/ Rank(manifest[id]) = 2

\* A session cut short between any two durable writes keeps what it said: the
\* recorded and the acknowledged chunks exist, what was served is what was
\* sealed, a cleaned session is empty, and no state is taken back (uploads.go).
UploadsDurable ==
  /\ [](UploadsTypeOK /\ RecordedIsStored /\ AckedIsKept /\ ServedIsSealed /\ CleanedIsEmpty)
  /\ NeverResurrected
=============================================================================
