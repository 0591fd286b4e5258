--------------------------- MODULE StorageRouter ---------------------------
(***************************************************************************)
(* One Router.Write (filestorage/router.go) through the engines that take  *)
(* a file of its size, with the rewindReader between them and the request  *)
(* body, and what each engine keeps: localdisk.go removes a file it could  *)
(* not finish, mysqlblob.go inserts one row or nothing (but may lose the   *)
(* answer), s3.go puts one object of the declared length.                  *)
(*                                                                         *)
(* The body is a sequence of distinct bytes, so that a skipped, repeated   *)
(* or reordered byte shows.                                                *)
(***************************************************************************)
EXTENDS Naturals, Sequences, FiniteSets

CONSTANTS
  Engines,     \* engines in the order of their priority: <<[kind, writable, limit]>>
  MaxBody      \* bound: bytes of the body

NoLimit == MaxBody + 1

ASSUME EnginesAssumption ==
  /\ MaxBody \in Nat
  /\ Engines \in Seq([kind: {"disk", "blob", "s3"}, writable: BOOLEAN, limit: 0..NoLimit])

VARIABLES
  body,        \* the request body
  position,    \* bytes of it already read from the source
  buf,         \* rewindReader.buf
  off,         \* rewindReader.off
  spent,       \* rewindReader.spent
  candidates,  \* engines still to be tried, the current one among them
  received,    \* bytes the current engine has read
  kept,        \* <<engine, bytes>> left in storage
  answer       \* running, stored (by the current engine), failed or ErrNoEngine

writeVars == <<body, position, buf, off, spent, candidates, received, kept, answer>>

HasSizeLimit(e) == Engines[e].limit # NoLimit

\* an engine the caller names, unless the file is over its limit
WriteTo(size) == {e \in 1..Len(Engines) : ~(HasSizeLimit(e) /\ size > Engines[e].limit)}

\* Write's choice of candidates
Candidates(size) == {e \in WriteTo(size) : Engines[e].writable}

\* the largest limit of any engine
rewindBudget ==
  LET limits == {Engines[e].limit : e \in {e \in 1..Len(Engines) : HasSizeLimit(e)}} IN
  IF limits = {} THEN 0 ELSE CHOOSE l \in limits : \A k \in limits : k <= l

WriteInit ==
  /\ \E n \in 0..MaxBody : body = [i \in 1..n |-> i]
  /\ position = 0 /\ buf = <<>> /\ off = 0 /\ spent = FALSE
  /\ candidates \in {Candidates(Len(body))} \cup {{e} : e \in WriteTo(Len(body))}
  /\ received = <<>> /\ kept = {}
  /\ answer = IF candidates = {} THEN "ErrNoEngine" ELSE "running"

Running == answer = "running"
\* the candidates are tried in the order of their priority
Engine == CHOOSE e \in candidates : \A f \in candidates : e <= f

-----------------------------------------------------------------------------
(* rewindReader.Read of up to n bytes, on behalf of the current engine.    *)

Replay(n) ==
  /\ off < Len(buf)
  /\ LET m == IF off + n > Len(buf) THEN Len(buf) ELSE off + n IN
     /\ received' = received \o SubSeq(buf, off + 1, m)
     /\ off' = m
  /\ UNCHANGED <<position, buf, spent>>

OverBudget(n) == spent \/ Len(buf) + n > rewindBudget

FromSource(n) ==
  /\ off = Len(buf) /\ position + n <= Len(body)
  /\ received' = received \o SubSeq(body, position + 1, position + n)
  /\ position' = position + n
  /\ IF OverBudget(n)
     THEN spent' = TRUE /\ buf' = <<>> /\ off' = 0
     ELSE /\ buf' = buf \o SubSeq(body, position + 1, position + n)
          /\ off' = Len(buf')
          /\ UNCHANGED spent

\* the blob engine reads at most one byte more than its limit
EngineReads(n) ==
  /\ Running
  /\ Engines[Engine].kind = "blob" => Len(received) <= Engines[Engine].limit
  /\ Replay(n) \/ FromSource(n)
  /\ UNCHANGED <<body, candidates, kept, answer>>

AtEOF == off = Len(buf) /\ position = Len(body)

-----------------------------------------------------------------------------
(* The engine's WriteFile returns.                                         *)

Stores == kept' = kept \cup {<<Engine, received>>}

EngineStores ==
  /\ Running /\ AtEOF
  /\ Engines[Engine].kind = "blob" => Len(received) <= Engines[Engine].limit
  /\ Engines[Engine].kind = "s3" => Len(received) = Len(body)
  /\ Stores
  /\ answer' = "stored"
  /\ UNCHANGED <<body, position, buf, off, spent, candidates, received>>

\* Rewind, then the next candidate, unless there is none or the bytes are gone
NoRewind == off
RewindTo == 0

EngineFails ==
  /\ Running
  /\ \/ UNCHANGED kept
     \/ Engines[Engine].kind \in {"blob", "s3"} /\ AtEOF /\ Stores
  /\ IF candidates = {Engine} \/ spent
     THEN answer' = "failed" /\ UNCHANGED <<candidates, off, received>>
     ELSE /\ candidates' = candidates \ {Engine} /\ off' = RewindTo /\ received' = <<>>
          /\ UNCHANGED answer
  /\ UNCHANGED <<body, position, buf, spent>>

WriteNext ==
  \/ \E n \in 1..MaxBody : EngineReads(n)
  \/ EngineStores \/ EngineFails
WriteSpec == WriteInit /\ [][WriteNext]_writeVars

-----------------------------------------------------------------------------

(* The engine Write answers with holds the whole file, in order, whatever  *)
(* the engines before it consumed before they failed; so does anything a   *)
(* failed engine left behind: storage never holds a truncated file.        *)
WrittenWhole ==
  /\ answer = "stored" => <<Engine, body>> \in kept
  /\ \A k \in kept : k[2] = body

(* The recording that makes a retry possible never holds more than the     *)
(* largest size limit: a streamed file is not buffered (rewindReader.Read).*)
RecordingBounded == Len(buf) <= rewindBudget

(* A write gives up while candidates remain only when a streaming engine   *)
(* read past that limit: a blob insert that fails always falls through.    *)
BlobFallsThrough ==
  answer = "failed" /\ candidates # {Engine} => ~HasSizeLimit(Engine)

\* A write falls through the engines without losing a byte, without recording
\* more than its budget, and without giving up early (Router.Write).
WriteFallsThrough == WrittenWhole /\ RecordingBounded /\ BlobFallsThrough
=============================================================================
