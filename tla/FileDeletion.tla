---------------------------- MODULE FileDeletion ----------------------------
(***************************************************************************)
(* Physical deletion (filestorage/deletion.go): the consumers of the       *)
(* file_gorgedeletion outbox.  An intent is committed with the removal of  *)
(* the file row that pointed at the bytes; a consumer locks the first due  *)
(* intent, looks for rows that still point there, deletes the bytes while  *)
(* its transaction stays open, and records the outcome.  The bytes are an  *)
(* upload session (its Cancel is the one of Uploads) or a blob of a        *)
(* storage engine.  The file rows belong to the PHP application: its three *)
(* transactions are modelled from what the code relies on.                 *)
(***************************************************************************)
EXTENDS Uploads, Sequences

CONSTANTS
  BlobHandles,  \* composite handles engine/key minted by Router.Write
  MaxRows,      \* bound: file rows ever inserted
  Backoff       \* seconds until the next attempt, by the attempts already made

ASSUME DeletionAssumption ==
  /\ Sessions \cap BlobHandles = {}
  /\ Deleters \cap Clients = {} /\ Sweeper \notin Deleters
  /\ Backoff \in Seq(Nat) /\ Backoff # <<>>

VARIABLES
  fileRows,   \* set of [id, handle]
  minted,     \* file rows inserted so far
  blobs,      \* composite handles whose bytes a storage engine holds
  intents,    \* file_gorgedeletion, in the order of its ids
  txn         \* consumer -> its open transaction

deletionVars == <<uploadVars, fileRows, minted, blobs, intents, txn>>
phpVars == <<fileRows, minted, intents>>

StorageHandles == Sessions \cup BlobHandles
NoTxn == [stage |-> "none"]

DeletionInit ==
  /\ fileRows = {} /\ minted = 0 /\ blobs = {}
  /\ intents = <<>>
  /\ txn = [w \in Deleters |-> NoTxn]

References(h) == {r \in fileRows : r.handle = h}
Open(w) == txn[w].stage # "none"
\* SELECT ... FOR UPDATE holds the rows of the handle, or the gap where they
\* would be, until the transaction ends
Held(h) == \E w \in Deleters : Open(w) /\ intents[txn[w].intent].handle = h

-----------------------------------------------------------------------------
(* The application (external).                                             *)

AddRow(h) ==
  /\ minted < MaxRows /\ ~Held(h)
  /\ minted' = minted + 1
  /\ fileRows' = fileRows \cup {[id |-> minted', handle |-> h]}

\* a blob written by the router, and the row that records its handle
StoreBlob(h) ==
  /\ h \notin blobs /\ \A i \in DOMAIN intents : intents[i].handle # h
  /\ blobs' = blobs \cup {h}
  /\ AddRow(h)
  /\ UNCHANGED <<uploadVars, intents, txn>>

\* a file row for a session whose Complete was answered
FileOfUpload(id) ==
  /\ sealed[id] # NULL /\ manifest[id].state = "complete" /\ ~Locked(id)
  /\ \A i \in DOMAIN intents : intents[i].handle # id
  /\ References(id) = {} /\ AddRow(id)
  /\ UNCHANGED <<uploadVars, blobs, intents, txn>>

\* a copy locks the source row, so its handle is still referenced
CopyFile(r) ==
  /\ AddRow(r.handle)
  /\ UNCHANGED <<uploadVars, blobs, intents, txn>>

\* the last row goes in one transaction with the intent
RemoveFile(r) ==
  /\ ~Held(r.handle)
  /\ fileRows' = fileRows \ {r}
  /\ intents' = IF References(r.handle) = {r}
                THEN Append(intents, [handle |-> r.handle, state |-> "pending",
                                      attempts |-> 0, next |-> 0])
                ELSE intents
  /\ UNCHANGED <<uploadVars, minted, blobs, txn>>

\* an intent may name a handle that another row uses: "each attempt rechecks
\* references"
RetireHandle(h) ==
  /\ \E r \in fileRows : r.handle = h
  /\ ~Held(h) /\ \A i \in DOMAIN intents : intents[i].handle # h
  /\ intents' = Append(intents, [handle |-> h, state |-> "pending", attempts |-> 0, next |-> 0])
  /\ UNCHANGED <<uploadVars, fileRows, minted, blobs, txn>>

-----------------------------------------------------------------------------
(* The consumers: processDeletionOnce.                                     *)

Due == {i \in DOMAIN intents : intents[i].state = "pending" /\ intents[i].next <= now}
OnlyFresh(i) == i \in Due /\ intents[i].attempts = 0
\* ORDER BY nextAttempt, id LIMIT 1
FirstDue(i) ==
  i \in Due /\ \A j \in Due \ {i} : \/ intents[i].next < intents[j].next
                                    \/ intents[i].next = intents[j].next /\ i < j

Unchecked(h) == FALSE
Used(h) == References(h) # {}

\* a consumer that finds the row locked waits for the other transaction
TakeIntent(w) ==
  /\ txn[w] = NoTxn /\ Resting(w)
  /\ \E i \in DOMAIN intents :
       /\ FirstDue(i)
       /\ \A v \in Deleters : Open(v) => txn[v].intent # i
       /\ txn' = [txn EXCEPT ![w] = [intent |-> i,
                    stage |-> IF Used(intents[i].handle) THEN "cancelled" ELSE "delete"]]
  /\ UNCHANGED <<uploadVars, phpVars, blobs>>

Handle(w) == intents[txn[w].intent].handle
Outcome(w, stage) == txn' = [txn EXCEPT ![w].stage = stage]

\* deleteTarget of an upload session: Uploads.Cancel, run by this goroutine
CancelSession(w) ==
  /\ txn[w].stage = "delete" /\ Handle(w) \in Sessions /\ Resting(w)
  /\ IF Cleaned(Handle(w))
     THEN Outcome(w, "done") /\ ~Locked(Handle(w)) /\ UNCHANGED uploadVars
     ELSE Outcome(w, "cancelling") /\ Cancel(w, Handle(w))
  /\ UNCHANGED <<phpVars, blobs>>

CancelVerdict(w) == IF op[w] = Failed THEN "error" ELSE "done"

CancelReturns(w) ==
  /\ txn[w].stage = "cancelling" /\ Resting(w)
  /\ Outcome(w, CancelVerdict(w))
  /\ op' = [op EXCEPT ![w] = Idle]
  /\ UNCHANGED <<now, manifest, files, acked, sealed, served, fails, phpVars, blobs>>

\* deleteTarget of a blob: a DeleteFile that fails may have removed the bytes
DeleteBlob(w) ==
  /\ txn[w].stage = "delete" /\ Handle(w) \in BlobHandles
  /\ \/ blobs' = blobs \ {Handle(w)} /\ Outcome(w, "done") /\ UNCHANGED fails
     \/ /\ fails < MaxFails /\ fails' = fails + 1
        /\ blobs' \in {blobs, blobs \ {Handle(w)}}
        /\ Outcome(w, "error")
  /\ UNCHANGED <<now, manifest, files, op, acked, sealed, served, phpVars>>

Decided(w) == txn[w].stage \in {"cancelled", "done", "error"}

Settled(w) ==
  LET i == intents[txn[w].intent] IN
  [i EXCEPT !.state = IF txn[w].stage = "error" THEN "pending" ELSE txn[w].stage,
            !.attempts = @ + 1,
            !.next = IF txn[w].stage = "error"
                     THEN Later(Backoff[IF i.attempts < Len(Backoff) THEN i.attempts + 1
                                                                     ELSE Len(Backoff)])
                     ELSE 0]

CommitOutcome(w) ==
  /\ Decided(w)
  /\ intents' = [intents EXCEPT ![txn[w].intent] = Settled(w)]
  /\ txn' = [txn EXCEPT ![w] = NoTxn]
  /\ UNCHANGED <<uploadVars, fileRows, minted, blobs>>

\* a deadlock, a lost connection or the death of the process; a commit whose
\* answer is lost is CommitOutcome
RollbackOutcome(w) ==
  /\ Open(w) /\ Resting(w)
  /\ fails < MaxFails /\ fails' = fails + 1
  /\ txn' = [txn EXCEPT ![w] = NoTxn]
  /\ op' = [op EXCEPT ![w] = Idle]
  /\ UNCHANGED <<now, manifest, files, acked, sealed, served, phpVars, blobs>>

ConsumerSteps(w) ==
  \/ TakeIntent(w) \/ CancelSession(w) \/ CancelReturns(w)
  \/ DeleteBlob(w) \/ CommitOutcome(w)

ApplicationSteps ==
  \/ \E h \in BlobHandles : StoreBlob(h)
  \/ \E id \in Sessions : FileOfUpload(id)
  \/ \E r \in fileRows : CopyFile(r) \/ RemoveFile(r)
  \/ \E h \in StorageHandles : RetireHandle(h)

\* the application cancels the sessions it has no row for
Abandon(p, id) ==
  /\ References(id) = {} /\ Cancel(p, id)
  /\ UNCHANGED <<phpVars, blobs, txn>>

DeletionNext ==
  \/ ApplicationSteps
  \/ \E p \in Clients, id \in Sessions : Abandon(p, id)
  \/ /\ \/ UploadTick \/ ClientUploads
        \/ \E id \in Sessions : SweepExpired(id)
        \/ \E p \in Goroutines : GoroutineSteps(p) \/ Fail(p)
     /\ UNCHANGED <<phpVars, blobs, txn>>
  \/ \E w \in Deleters : ConsumerSteps(w) \/ RollbackOutcome(w)

DeletionSpec == ClockInit /\ UploadsInit /\ DeletionInit /\ [][DeletionNext]_deletionVars

-----------------------------------------------------------------------------

(* A file row always points at bytes that are there: a consumer rechecks   *)
(* references while it holds them, and no retry, lost commit or second     *)
(* consumer deletes what a surviving row needs (processDeletionOnce).      *)
ReferencedIsStored ==
  \A r \in fileRows :
    \/ r.handle \in blobs
    \/ r.handle \in Sessions /\ manifest[r.handle].state = "complete"

(* An intent is marked done only when its bytes are gone, to the last      *)
(* chunk file of an upload session.                                        *)
DoneIsGone ==
  \A i \in DOMAIN intents :
    intents[i].state = "done" =>
      \/ intents[i].handle \in BlobHandles \ blobs
      \/ /\ intents[i].handle \in Sessions
         /\ Cleaned(intents[i].handle) /\ files[intents[i].handle] = {}

(* Every intent is eventually settled: the lock of one consumer, a backend *)
(* that fails for a while and lost commits only delay it.                  *)
IntentsSettle ==
  \A i \in 1..MaxRows :
    i \in DOMAIN intents ~> i \in DOMAIN intents /\ intents[i].state # "pending"

\* Bytes a file row points at are never deleted, and those of a finished intent
\* are gone (deletion.go).
DeletesOnlyGarbage == ReferencedIsStored /\ DoneIsGone

\* The file service cleans up at last: expired sessions are swept and deletion
\* intents settle.
FilesSettle == ExpiredIsSwept /\ IntentsSettle
=============================================================================
