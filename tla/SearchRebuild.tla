--------------------------- MODULE SearchRebuild ---------------------------
(***************************************************************************)
(* One rebuild job of an index generation (projection/rebuild.go): it      *)
(* captures the range of known heads, re-addresses each head to the new    *)
(* generation page by page under a lease, then keeps repairing heads that  *)
(* have no delivery row there.  LIMIT 32 is a page of one head here.       *)
(***************************************************************************)
EXTENDS SearchProjection

CONSTANTS
  Generation,   \* the target being rebuilt
  Runners,      \* replicas running RunRebuilds
  MaxSteps      \* bound: leases of the job

VARIABLES
  job,        \* search_projection_rebuild, or NULL before it is created
  runner,     \* the step a replica is in
  captured    \* history: head revisions when the job was created

rebuildVars == <<job, runner, captured>>

RebuildInit == job = NULL /\ captured = [p \in PHIDs |-> 0]
               /\ runner = [x \in Runners |-> Free]

\* SELECT COALESCE(MAX(phid),'') FROM search_projection_head
UpperPHID ==
  LET known == {p \in PHIDs : head[p] # NULL} \cup {0}
  IN CHOOSE p \in known : \A q \in known : q <= p

CreateRebuild ==
  /\ job = NULL
  /\ job' = [upper |-> UpperPHID, cursor |-> 0, status |-> "scanning",
             owner |-> NULL, epoch |-> 0, expires |-> 0, next |-> 0]
  /\ captured' = [p \in PHIDs |-> HeadRev(p)]
  /\ UNCHANGED <<searchVars, runner>>

-----------------------------------------------------------------------------
(* StepRebuild.                                                            *)

StepClaim(x) ==
  /\ runner[x].stage = "idle" /\ job # NULL
  /\ job.expires <= now /\ job.next <= now /\ job.epoch < MaxSteps
  /\ job' = [job EXCEPT !.owner = x, !.epoch = @ + 1, !.expires = Later(LeaseTTL)]
  /\ runner' = [runner EXCEPT ![x] =
       [stage |-> "read", epoch |-> job.epoch + 1, status |-> job.status,
        cursor |-> job.cursor, entry |-> NULL]]
  /\ UNCHANGED <<searchVars, captured>>

Scanned(x) == {p \in PHIDs : head[p] # NULL /\ p > runner[x].cursor /\ p <= job.upper}

Undelivered ==
  {p \in PHIDs : head[p] # NULL /\ Row(Generation, p, head[p].rev) = NULL}

PageOf(x) == IF runner[x].status = "scanning" THEN Scanned(x) ELSE Undelivered

StepRead(x) ==
  /\ runner[x].stage = "read"
  /\ runner' = [runner EXCEPT ![x] =
       IF PageOf(x) = {}
       THEN [@ EXCEPT !.stage = "commit"]
       ELSE [@ EXCEPT !.stage = "accept",
              !.entry = head[CHOOSE p \in PageOf(x) : \A q \in PageOf(x) : p <= q]]]
  /\ UNCHANGED <<searchVars, job, captured>>

StepAccept(x) ==
  /\ runner[x].stage = "accept"
  /\ Accepts(ReAddressed(runner[x].entry), {Generation})
  /\ runner' = [runner EXCEPT ![x].stage = "commit"]
  /\ UNCHANGED <<now, outbox, relay, worker, wire, backend, job, captured>>

OwnsJob(x) == job.owner = x /\ job.epoch = runner[x].epoch

FenceJob(x) == OwnsJob(x) /\ job.expires > now

\* the cursor after a complete page; an empty page ends the scan
NextCursor(x) ==
  IF runner[x].status = "scanning" /\ runner[x].entry # NULL
  THEN runner[x].entry.phid ELSE runner[x].cursor

NextStatus(x) ==
  IF runner[x].status = "scanning" /\ runner[x].entry = NULL
  THEN "awaiting-delivery" ELSE runner[x].status

StepCommit(x) ==
  /\ runner[x].stage = "commit" /\ FenceJob(x)
  /\ job' = [job EXCEPT !.cursor = NextCursor(x), !.status = NextStatus(x),
                        !.owner = NULL, !.expires = 0, !.next = Later(1)]
  /\ runner' = [runner EXCEPT ![x] = Free]
  /\ UNCHANGED <<searchVars, captured>>

\* an error in any stage, or a lost lease: the deferred release
StepFails(x) ==
  /\ runner[x].stage # "idle"
  /\ runner[x].stage = "accept" => \/ Accepts(ReAddressed(runner[x].entry), {Generation})
                                   \/ UNCHANGED controlVars
  /\ runner[x].stage # "accept" => UNCHANGED controlVars
  /\ job' = IF OwnsJob(x)
            THEN [job EXCEPT !.owner = NULL, !.expires = 0, !.next = Later(LeaseTTL)]
            ELSE job
  /\ runner' = [runner EXCEPT ![x] = Free]
  /\ UNCHANGED <<now, outbox, relay, worker, wire, backend, captured>>

StepCrash(x) ==
  /\ runner[x].stage # "idle"
  /\ runner' = [runner EXCEPT ![x] = Free]
  /\ UNCHANGED <<searchVars, job, captured>>

RebuildSteps ==
  \/ CreateRebuild
  \/ \E x \in Runners :
       \/ StepClaim(x) \/ StepRead(x) \/ StepAccept(x)
       \/ StepCommit(x) \/ StepFails(x) \/ StepCrash(x)

-----------------------------------------------------------------------------
(* CheckRebuild's answer, read from one snapshot.                          *)
InnerJoin ==
  /\ job # NULL /\ job.status = "awaiting-delivery"
  /\ \A p \in PHIDs : (head[p] # NULL /\ Row(Generation, p, head[p].rev) # NULL) =>
       Row(Generation, p, head[p].rev).status = "applied"

TransportCaughtUp ==
  /\ job # NULL /\ job.status = "awaiting-delivery"
  /\ \A p \in PHIDs : head[p] # NULL =>
       /\ Row(Generation, p, head[p].rev) # NULL
       /\ Row(Generation, p, head[p].rev).status = "applied"

SearchTypeOK ==
  /\ \A t \in Targets, p \in PHIDs, r \in Revs :
       Row(t, p, r) # NULL =>
         Row(t, p, r).status \in {"pending", "running", "applied", "superseded"}
  /\ \A p \in PHIDs : backend[Generation][p].rev \in 0..MaxRev
  /\ job # NULL => job.status \in {"scanning", "awaiting-delivery"}

\* When a check reports the transport caught up, the new generation holds
\* every known object at exactly its head revision and content, also when
\* snapshots were accepted by replicas that did not yet know the generation.
CaughtUpIsIndexed ==
  TransportCaughtUp =>
    \A p \in PHIDs : head[p] # NULL =>
      backend[Generation][p] = [rev |-> head[p].rev, content |-> head[p].content]

\* The cursor never passes an object whose captured head was not re-addressed:
\* a crash, an expired lease or a lost answer replays the page, never skips it.
CursorReAddressed ==
  job # NULL =>
    \A p \in PHIDs :
      (captured[p] > 0 /\ (p <= job.cursor \/ job.status = "awaiting-delivery")) =>
        \E e \in Published :
          e.phid = p /\ e.rev >= captured[p] /\ inbox[ReAddressed(e)] # NULL

\* A runner whose lease expired cannot take the job back: the cursor only
\* grows and a finished scan stays finished (the fence of StepRebuild's
\* last update).
RebuildForward ==
  [][job # NULL => /\ job'.cursor >= job.cursor
                   /\ job.status = "awaiting-delivery" => job'.status = job.status]_job

\* A rebuild beside live traffic misses nothing: its cursor passes only heads
\* that were re-addressed, never goes back, and a generation reported as caught
\* up holds every head (rebuild.go).
RebuildComplete == [](SearchTypeOK /\ CaughtUpIsIndexed /\ CursorReAddressed) /\ RebuildForward
=============================================================================
