# TLA+ specification of the Gorge services

Gorge is a set of Go services beside a Phorge (PHP) installation: a task queue
and its workers, a scheduler, an outbox relay, a webhook dispatcher, a mailer,
a search projection, file storage, cleanup, integrations, notifications and
several smaller helpers.  This directory holds TLA+ models of these services,
the TLC configurations that check them on small instances, and machine-checked
proofs about the task queue and both of its stores, the scheduler, cleanup, mail
delivery, the integrations service, file storage, the search scan and engine,
and the Conduit limiter.

Paths below are relative to `src/go/internal/`.

## 1. Parts and modules

| Part | Modules | Hard behaviour |
|---|---|---|
| task queue (`taskqueue/`) | `TaskQueue`, `TaskQueueProofs`, `LeaseTokens` | repeated and late requests, leases that expire, unfenced legacy routes |
| its MySQL and Redis stores | `MySQLStore`, `StoreProofs`, `RedisStore`, `RedisProofs` | transactions that read before either writes; indexes beside hashes |
| scheduler (`taskqueue/scheduler*.go`) | `Scheduler`, `PollerProofs` | plans that are stale when applied; ownership moves between PHP and Go |
| worker (`worker/`) | `Worker` | lost replies, late requests, drain racing reports |
| outbox relay (`worker/outbox/`) | `OutboxRelay` | two relays, lost replies, poisoned events |
| webhook dispatcher (`webhook/`) | `WebhookDispatcher` | one-second versions, crashes between claim and record |
| mail (`mailer/`, two worker handlers) | `MailDelivery`, `MailProofs`, `EffectLedger` | crash after submission, provider failover, late outcomes |
| integrations (`integrations/`) | `EffectStore`, `EffectLedger`, `Inbox`, `FactProjection`, `IntegrationProofs` | unknown outcome of an external call, relays that outlive their lease |
| search (`search/`) | `SearchProjection`, `SearchRebuild`, `SourceScan`, `SearchEngine`, `ServingProofs` | epoch fencing, revisions out of order, rebuild beside live traffic, host recovery |
| file storage (`filestorage/`) | `Uploads`, `FileDeletion`, `StorageProofs`, `StorageRouter`, `PollerProofs`, `Fetcher`, `ServingProofs` | crash between bytes and record, deletion racing a new reference, partly consumed streams |
| cleanup (`maintenance/cleanup/`) | `Cleanup`, `PollerProofs` | lease takeover in the middle of a batch, policy changes |
| notifications (`notification/`) | `NotificationHub`, `PeerMesh` | replay racing fan-out, slow connections, relays that come back |
| image transforms (`imagetransform/`) | `ImageCache` | single flight, expiry, budgets |
| Gitea bridge (`gitea/`) | `GiteaBridge` | repeated deliveries, unanswered edits, reference-counted locks |
| Conduit gateway (`conduit/`) | `RateLimiter`, `ServingProofs` | eviction of buckets |
| database libraries (`dbproxy/`, `dbapi/`) | `DbProxy`, `DbCluster` | retries of writes, savepoints; routing and schema comparison |
| diff engine (`diff/`) | `Diffs` | edge cases of pure algorithms |
| listeners (`platform/httpx/`) | `Listeners` | failure or signal during start |

`Clock` holds the clock the modules with absolute times share.  The hazards of
this code are in `PROJECT.json` with the line at which each one bites, and with
the properties that would catch it going wrong.

## 2. Modelling conventions

A transaction that locks its rows first is one step; anything outside a
transaction (an external call, a file write, a callback) is a step of its own,
and the process may stop between two steps.  A commit or a call may succeed
while its caller sees an error.  Identities are members of small sets; a
payload is whatever distinguishes two of them.  PHP, providers, DNS, search
engines and object stores are external actions, as wide as the Go code has to
live with.

## 3. Modules

### TaskQueue — the contract

Each operation is one atomic step on `active`, `archive`, `counter` and
`inbox`.  A row keeps what the operations test: class, owner, expiry and
failure count.  `origin` and `acked` are history: what created a task, and
which finalizations were acknowledged.  Duplicates and late requests need no
channel: any request may be taken in any state with any lease token that could
have been issued.

`LegacyRoutes` selects which of the unfenced routes of `http.go` are in use.
`Lease` reads the clock up to `MaxLag` seconds before it commits, because the
Go code computes `now` before its transaction.

### MySQLStore, RedisStore — the implementations

`MySQLStore` splits `Lease` into its statements (select fresh, update, select
and update overdue, fetch, commit) and `archiveTask` into read and commit, with
the row locks InnoDB takes and what a transaction still sees of its snapshot.
`archiveTask` reads its row without a lock, so the record of a legacy completion
may carry the lease columns of an earlier moment; the contract therefore keeps
them only for finalizations, where they are the receipt.  The other operations
lock their row first and are one step.  `ImplementsTaskQueue` is the
specification of `TaskQueue`, required of every commit.

`RedisStore` adds the index sets and counters, one step per script.  Both
modules extend `TaskQueue` and share its variables, so the refinement mapping
is the identity on them.  `LateYields` says whether a legacy yield may name a
task that has left the queue; only the run `redis_ghost` lets it.

### LeaseTokens

Asks whether owner and expiry really identify one lease.  A history of
resolved tokens is kept beside the queue.

### Worker

Slots of processes that execute one task each: start, heartbeat, handler,
report, refresh and quarantine (`consumer.go`), against the queue.  A call to
the queue may be lost before or after it was served; `late` holds requests that
still arrive after their caller gave up.  What a handler does is a choice among
success, retry, yield and permanent failure.

### OutboxRelay

The batch of a relay, the offer to `EnqueueEvent` and the mark of the answer.
Events the queue refuses (`bad`) stay pending with a backoff.

### Scheduler

`ScheduleCandidates`, `Plan`, `ApplySchedule` and `ScheduleFailed` of several
schedulers, beside PHP's edits, deletions and its own scheduling while it owns
the triggers.  A snapshot carries what `lockSchedule` compares.  `order`
stands for `lastEvaluatedEpoch`, and `Oldest` is the batch its `ORDER BY ...
LIMIT` selects.

### WebhookDispatcher

Slots of several dispatcher processes: fetch, hook lookup, per-hook lock and
breaker, claim, POST, record, with crashes at every point.  Times are whole
seconds, as in the `dateModified` column.

### EffectLedger — what a ledger of external effects promises

An effect is performed at most once; "accepted" means performed, "refused"
means not performed and never to be; what is in doubt is "unknown", is never
tried again and leaves that state only on evidence.  `MailDelivery` and
`EffectStore` are both shown to implement it, through the refinement mappings
`MailLedger` and `EffectsLedger` that rename the states of their rows.

### MailDelivery

The ledger rows and attempt audit of `DeliveryService`, the failover of
`Dispatcher` over adapters, the slots of the submit handler, `Recover`,
cancellation, and the projection of results back to PHP.  Requests crash
anywhere; a provider may accept a message after its caller gave up (`orphans`).

### EffectStore, Inbox, FactProjection

`Store.Effect` (claim, provider call, finish) and `Store.Resolve`; inbound
messages that are accepted, leased to relays, handed to PHP, resolved and
purged; pages of facts read from PHP while the cursor row is locked.  An
operator who resolves an effect has evidence from the provider: that is the
meaning of the evidence field the code insists on (`Verified`).

### SearchProjection, SearchRebuild, SourceScan, SearchEngine

Relay, acceptance, delivery and the versioned write; `SearchRebuild` extends
it with one rebuild job so that live traffic and rebuild interleave.
`SourceScan` is the sharded scan of the source; its pages are those that
`ValidatePage` accepts, of at most `PageRows` rows, from a source that leaves
out no row it passes (`HonestPage`).  `SearchEngine` is the older path: several
hosts with a health table, a write that must reach all backends.

### Uploads, FileDeletion, StorageRouter, Fetcher

`Uploads` makes each durable write or unlink of an operation a step under the
session's lock; `FileDeletion` extends it with the intents, the file rows of
PHP and blobs, since deleting a file may cancel an upload.  `StorageRouter` is
one write that falls through the engines, which are numbered in the order in
which they are tried; its body is a sequence of distinct bytes.  `Fetcher` follows redirects and dials addresses; DNS may change its
answer at any time.

### Cleanup

One control row per collector with owner, policy, lease and command.  Times
count down, so the module needs no clock.  `ownerEpoch` and `fence` only grow
and are compared for equality: a Boolean says whether a lease's are current.

### NotificationHub, PeerMesh

Connections with a read loop, a bounded write queue and a replay; the history
with its three limits; idle instances.  `PeerMesh` relays between servers with
bounded queues and restarts and contains the worker's handler that posts.

### ImageCache, GiteaBridge, RateLimiter, Listeners, DbProxy, DbCluster

In-process concurrency.  `RateLimiter` compares each bucket with one that is
never forgotten; `DbProxy` compares the database's work with what the nested
calls mean.  `DbCluster` takes a cluster file, builds the partition map, and
routes, probes and compares.

### Diffs

The two algorithms as operators, applied to all pairs of short texts.

## 4. Runs

`PROJECT.json` lists every run with its properties.  Several runs check more
than one component: the initial state picks a *subject*, and only the subject
moves, so the state spaces add up instead of multiplying.  The property of a
component is usually a conjunction (`UploadsDurable`, `ProjectionFaithful`);
each part is a definition of its own with a comment that states it, so that a
failing run can be narrowed to the part by naming it in the `.cfg`.  For every
property `PROJECT.json` names a mutant, a plausible bug in a mapped definition
under which it fails.
In `queue` the contract is a subject beside the Redis store; there the sets and
counters of the store follow the tables (`Reindexed`), and only the Redis subject
tests the scripts that keep them.

| Run | Subjects | Shows |
|---|---|---|
| `queue` | contract, Redis store | one table per task, one task per event and follow-up, acknowledged follow-ups exist, final records, leases held until they expire; the Redis scripts implement the queue, their indexes and counters agree |
| `mysql` | MySQL store | the interleaved statements implement the queue; a lease call returns what it leased |
| `worker` | worker | processed means recorded, one holder at a time, quarantines stay in their process, a cancelled worker comes to its end |
| `pollers` | webhooks, scheduler, cleanup | no overlapping deliveries, no repeat of a success, failures within the breaker; no double and no stale firing; rows are deleted only under a current policy, lease and fence |
| `services` | mail, effects, inbound mail, facts, hub, mesh, transactions, connection router, cluster, limiter, image cache, both diffs | both ledgers implement `EffectLedger`; receipts reach PHP; late relays are harmless; no gap in a replay; nested rollbacks; exact buckets and cache budgets; diffs that rebuild both texts and are minimal |
| `stores` | relay, delivery, rebuild, scan, engines, uploads, deletion, storage write, fetch | applied revisions are stored and never go back; "caught up" means indexed; shards cover their ranges; recorded chunks exist; referenced bytes are not deleted; a written file is whole |
| `progress` | relay, scheduler, cleanup, mail | good events are delivered, due triggers fire, garbage is collected, mail is settled, in the end |
| `live` | uploads, deletion, hub, image cache, Gitea bridge, listeners | expired uploads are swept, intents settle, dead connections leave, every request is answered, all listeners stop together |

Four runs end in a counterexample.  Each one checks what a comment or document
says of the code, and `PROJECT.json` quotes that line under `findings`:
`lease_tokens` (a repeated resolve can be accepted after an awaken),
`redis_ghost` (a late yield revives part of an archived task in Redis),
`worker_quarantine` (an interrupted execution can quarantine a later one of its
own process) and `webhook_retry` (a stale candidate repeats a failed request at
once).
`lease_tokens` runs `LeaseTokens` itself; the other three share the modules of
`queue`, `worker` and `pollers`.

Two further disagreements shaped the properties without a run of their own:

* `PublishedOnce` is checked for two servers.  With three, each of the two
  receivers relays the message to the other before its fingerprint is on that
  copy, so both publish it twice; the comment at `notification/admin.go:71-73`
  says the fingerprint "stops a peer mesh from delivering it twice".
* `SetOwner` (`maintenance/cleanup/store.go:167`) overwrites the state
  `policy_changing`, after which an import is accepted while PHP still writes;
  `docs/modules/maintenance.md:52-53` says Go refuses it.  `DeletedUnderPolicy`
  is stated so that it holds all the same: what is deleted is covered by the
  policy its lease was given.

### Bounds

Ids, the clock and counters are capped by `MaxTasks`, `MaxTime`, `MaxFailures`
and their like, in the guards of the actions that raise them; that is why the
models may stop and deadlock is not checked.  Two or three tasks are enough for
a parent with its children or two tasks in competition, two owners for a
takeover, and a clock that passes the longest lease once for an expiry followed
by another lease.  Durations are one to three ticks instead of minutes: the
properties depend on their order only.  Symmetry is used in safety runs only.

* `mysql` has two transactions open at a time (`MaxOpen`), what a race needs.
* `pollers`: either one good and one malformed request over the whole time or
  three good ones in the first two seconds (`WebhookBound`): the breaker needs
  the three.
* `stores`: the relay and delivery subjects move one object, the rebuild two;
  a deletion races one client with files of one chunk (`OneChunk`).
* `services`: texts of up to four (unified) and five (prose) characters over a
  small alphabet with newline and layout characters.  `MaxCells = 9` makes both
  the LCS table and the fallback beyond it happen.  Two mail attempts are what
  a retry after a refusal needs; the hub has one message, because a gap needs
  one publication between the steps of one replay; the cache holds fewer keys
  than are asked for.  The cluster files include several masters, disabled
  replicas and partitions nobody serves.

### Fairness

* `FairWorkerSpec`: weak fairness of the steps of a cancelled process.  Its
  contexts are cancelled and its attempts counted, so each step ends.
* `progress`, `WeakFairness`: loops that tick for as long as the process runs
  (relay, scheduler, `Recover`, projection) and backoffs that end.
* `progress`, `StrongFairness`: an offer, a mark, a plan, a batch or a
  projection that is tried again and again succeeds once, which is what an
  unreliable but not dead network and database provide.  One formula covers
  several subjects: the others' disjuncts are disabled, so it asks of the
  moving one what its own disjunct alone would.
* `live`: weak fairness of the goroutines (`GoroutineSteps`, `ConsumerSteps`,
  `Serves`, `AppendStep`, `RunAll`, `Serve`, the hub's steps) and of the sweep's
  ticker.  Clients, providers and signals are under no fairness.

Webhook liveness is not claimed: its guards compare clock values, and a bounded
clock stops them.

## 5. Proofs

Eight modules prove the following for every value of the constants that satisfies
the named assumptions.  The last column is the definition a run checks on its
small instance.

| Module | Theorem | States |
|---|---|---|
| `TaskQueueProofs` | `TypeCorrect`, `ExactlyOneTable`, `FollowupsOnce`, `EventOnce`, `AckedFinalization`, together `NothingIsLostOrDoubled` | `NothingLostOrDoubled` |
| | `ArchiveFinal`, `LeaseExclusive`, together `NothingIsTakenBack` | `NothingTakenBack` |
| `StoreProofs` | `MySQLImplementsQueue` | `MySQLKeepsContract` |
| | `MySQLKeepsPromises` | both promises of the queue, of the MySQL store |
| `RedisProofs` | `RedisImplementsQueue` (without late yields) | `RedisKeepsContract` |
| | `RedisKeepsPromises` (without late yields) | both promises of the queue, of the Redis store |
| `PollerProofs` | `SchedulerFiresOnceAsPlanned` | `FiresOnceAsPlanned` |
| | `CollectsUnderLeaseAlways` | `CollectsUnderLease` |
| | `WritesFallThrough` | `WriteFallsThrough` |
| `MailProofs` | `MailRecordsAlwaysAgree` | `MailRecordsAgree` |
| | `MailStoreImplementsLedger` | `MailImplementsLedger` |
| `IntegrationProofs` | `EffectStoreImplementsLedger` | `EffectsImplementLedger` |
| | `ToldTheTruth`, `ResolutionOnce`, together `AnswersAlwaysHold` | `AnswersHold` |
| | `MailHandedOverOnce` | `HandedOverOnce` |
| | `CursorCoversAlways` | `CursorCovers` |
| `ServingProofs` | `EngineIsHonest` | `EngineHonest` |
| | `LimiterIsExact` | `BucketsExact` |
| | `OnlyCheckedDialled` | `DialsChecked`, and that fetches stay within the slots |
| | `ScanIsComplete` | `ScanComplete` |
| `StorageProofs` | `UploadsKeepTheirWord` | `UploadsDurable` |
| | `DeletionIsSafe` | `DeletesOnlyGarbage`, and `UploadsDurable` beside deletions |

### Assumptions

Each is an `ASSUME` of the module that declares the constants, and TLC evaluates
it on the runs.  Most say that a constant is a number or that `NULL` is not one
of the values it stands beside.  These say more:

* `EngineAssumption`: hosts are numbered from 1, as the slots of the `hosts`
  slice, and there is one at least.
* `RefilledBeforeEviction`: a bucket refills within the time after which an idle
  one is forgotten; section 6 says when the code meets it.
* `StoreAssumption`: some wait exists, because a legacy failure that is
  permanent is the contract's failure with an arbitrary wait.  A batch is at
  most `BatchLimit`, which is what `Lease` clamps its limit to.
* `RedisAssumption`: a lease call reads its clock at most `AwakenWindow` before
  its script runs.  The window is an hour (`redis_store.go`); a script that ran
  later could find a task that was awoken after the time it was given.  The
  scale of a score exceeds every id, so that priority decides before id.
* `MailAssumption`: the backoff of every attempt is a number.
* `EnginesAssumption`: a size limit is at most `NoLimit`, one more than the
  longest body, which stands for an engine without a limit.
* `FetchAssumption`: finitely many fetches are in flight.
* `DeletionAssumption`: an upload session's handle is no blob handle (the engine
  is part of a handle), the goroutines of clients, sweep and consumers are
  different ones, and `Backoff`, which stands for the delay
  `processDeletionOnce` computes from the attempts, has an entry.

### Task queue

The inductive invariant is `IInv`: types, one table, that `origin`
covers exactly the ids handed out, `ChildrenOnce`, and that inbox receipts and
event origins name each other.  That a finalization may insert its children
rests on its parent still being active: `ChildrenOnce` says that a parent with
children is archived as a success, `OneTable` that it is then no longer active,
and `OriginCovers` that the children's ids are new.  `AckedFollowups` needs
`AInv` on top: a successfully archived task has all its children, and every
acknowledged lease has its receipt in the archive.

### MySQL store

The refinement needs `StoreInv`, what a transaction may still rely on between
two of its statements.  `CallOK` says it for one transaction: the rows it has updated (`got`) are locked
by it, still in the table and still free at the time it read; what it has only
selected may be stale, but was not locked at the snapshot, and updated and
selected rows together stay within the limit; the row an archive has read keeps
its class.  `LocksDisjoint` says that no two transactions hold one row.  Every other
transaction's step then leaves the facts alone (`AtomicStep`, `OwnStep`,
`ReadStep`), because it writes rows it has locked, and the commit maps to one
step of `TaskQueue` (`LeaseCommitOK`, `ArchiveCommitOK`, `OperationOK`).  That
the `ORDER BY ... LIMIT` returns no more rows than its limit rests on `Before`
being a strict order of the rows (`BeforeOrders`, `FirstIsLimit`).
`MySQLKeepsPromises` then carries the contract's theorems over.

### Redis store

A script decides by the sorted sets what may be leased, while the contract
decides by the rows.  `RedisInv` relates the two: every task is in exactly one
of the two lease sets (`Placed`).  In the leased set it stands under the expiry
its hash has (`Waiting`); in the unleased set its hash has no lease, or the
lease of a yield that an awaken moved back by the whole window (`Ready`), so
that a lease call whose clock lags still finds it expired.  `Counted` says what
the two counters count.  The queue's own `IInv` is part of the invariant: it
gives the rows their types and keeps a finalization's children apart from the
tasks already counted.  Each script then is a step of the contract that
keeps both (`StepAllowed`), and `RedisKeepsPromises` carries the contract's
theorems over.  With late yields neither theorem holds: that is the finding of
`redis_ghost`.

### Scheduler

`SchedInv` has `CyclesOK` (what a scheduler holds was a candidate when it was
read, and the plan for a due trigger moves it forward), `VersionsOK` (no version
is scheduled before it exists) and `FiredOK`: an occurrence that has fired did
so once, and lies behind the version or the epoch its trigger waits for.  It is needed because a plan is applied long after
it was read: `lockSchedule` compares version, epoch and next, and only `FiredOK`
shows that an unchanged `next` means the occurrence has not fired.

### Cleanup

`GcInv`: a lease is out only while the service owns the collector (`ControlOK`),
and a lane works under a definite policy with a cutoff at least as old
(`LeaseOK`).  A batch deletes by the cutoff of its lease, computed long before;
time ages rows and cutoffs together, and whatever changes the policy or the
owner outdates the leases already given, so a lease that still passes the fence
was given under the policy in force.

### Uploads and file deletion

An upload's operation loads the manifest, changes it in memory and saves it
later.  `UploadInv` says why this loses nothing: at most one operation works on
a session (`OneHolder`, the flock), so the manifest an operation carries is the
one on disk with its own change (`Busy`, by kind of operation); a recorded chunk
is in the directory and a cleaned session has none (`SessionOK`); and what
clients were told is what the manifest says (`ToldOK`).  What an operation is
about to save therefore fits the directory, keeps what was told and takes no
state back (`Savable`), whether its save succeeds or fails before or after the
rename.

`DeletionInv` adds the tables.  A consumer counts references once, and deletes
later, in the same transaction.  The invariant says that the count stays true:
a handle with an open deletion (`TxnOK`) or with an operation under way on its
session has no file row, and gets none: the `FOR UPDATE` that counts them keeps
an insert for the same handle waiting.  Every row's bytes are stored, and the
bytes of a finished intent are gone.  What is gone stays gone (`GoneStays`),
because a cleaned manifest is never written again (`CleanedStays`).
`DeletionIsSafe` states `UploadsDurable` again, since a deletion cancels
sessions on its own; every step of the composition is one that `UploadInv`
survives (`SessionStep`).

### Storage write

`WriteInv` has two cases.  While the recording lives it is the prefix read from
the source, no longer than the rewind budget, and the engine has received what
was replayed of it (`Recorded`).  Once it is given up, the engine has received
everything that was read, and the body is longer than the budget (`Streamed`).
The budget covers the limit of every engine that has one (`BudgetCovers`), and
no engine with a limit below the size is a candidate, so an engine with a limit
never sees a recording given up: the next engine always gets the whole body.

### Mail delivery

`MailInv` speaks of one mail at a time.  `RowOK` relates the state of its row to
what the providers did: a message that was taken, or that a call nobody waits
for may still have taken, has a row that is submitting, unknown or accepted, and
there is at most one such call.  `OneSender` says that at most one request is
under way on a mail, and `RequestOK` what its reply proves.  `AuditOK` says that
every attempt but the last ended in a retry.  `ResultOK` is what keeps late
answers harmless: what PHP holds, what a request returns and what the projector
carries is an earlier revision of the row, or says what the row says now.

Each action writes one mail (`MailStep`), and its new row goes on from the old
one: the revision grows with every state, and a final state is kept (`Onward`).
`MailFrame` derives from that alone that everything said of the other mails,
requests and results stays true, so the proof of an action is about its own mail
and request.  For the refinement each action moves a mail in one of four ways
(`Moved`), and each way is a step of `EffectLedger` or a stutter
(`MovedIsStep`), because by the invariant a row goes back to waiting, or to a
refusal, only when nothing was taken and nothing can be any more.

### Effects and inbound mail

The inductive invariant of the effects is `EInv`.  `EffectTypeOK` bounds the
performances and the calls nobody waits for by one; `OneCaller` says that at
most one request works on an effect at a time; `RowsAgree` relates the state of
a row to whether the effect happened or can still happen; `CallsAgree` does the
same for the outcome a request is about to record; `ToldSettled` says that a
final outcome somebody was told is the state of the row.
It is needed because `Finish` answers with its own outcome even when an
operator resolved the row first: only the invariant shows that the two cannot
disagree.  The refinement then follows action by action: each step leaves an
effect alone or moves it along one of the edges of the ledger (`EffectMoves`),
and each edge is a step of `EffectLedger` (`MoveIsStep`).

`InboxInv` relates a relay that may have outlived its lease to what PHP has
recorded: what a relay is about to finish as done has its receipt (`EventsOK`),
at most one of them executes a message (`OneExecutes`), and nothing ran before
the receipt was marked (`MarkedFirst`).  Only with these are `DoneHasReceipt` and
`CommandsOnce` inductive.

### Source scan and facts

`ScanInv`: a replica that still owns its shard by name *and* epoch holds a page
that continues the shard's cursor (`StepsOK`), and everything up to the cursor
was accepted or reported absent (`ShardsOK`).  A replica that lost the shard may
hold any page; the epoch test keeps it from moving the cursor.
`ControlWithLast` says that the job is marked complete with its last shard.
`FactInv`: the cursor and every change lie at or before the source's position
(`BehindClock`), so that a change after a page was read comes behind it; the page
held under the cursor's row lock has every object that changed up to its last
position (`PageOK`); and only one projector holds a page.

### Search engine, limiter and fetcher

`EngineInv`: exactly the hosts that are down have a recovery entry
(`DownHasRecovery`), a probe belongs to a request in flight (`ProbeHasRequest`),
a request past a backend without an error has stored its document there
(`RequestOK`), and a task that succeeded has done so too (`TaskDone`).
`LimiterInv` is `BucketsExact` with the types it needs: a bucket that is
forgotten was full, so the one created in its place is the same.
`FetchInv`: the addresses a fetch carries are all accepted ones of its last
lookup, since a redirect forgets them before it looks its new host up.

### Only model-checked

The worker, the outbox relay, webhooks, hub and mesh, the search projection and
rebuild, the Gitea bridge, the listeners, the image cache and the database
libraries; and all liveness.  Liveness under fairness and `ENABLED` are beyond
the proof system.  So is induction over data: what the recursive operators of
the diffs and of `DbCluster` compute, and that the sums of bytes in the image
cache and in the hub's history follow their entries, is checked on all small
inputs only.

## 6. Not modelled

* Payloads, signing, MIME, SQL text, HTTP framing, authentication, capacity
  reports and logging are data without influence on the control modelled here.
* Syntax highlighting (`render/`) and pixel processing (`imagetransform/`:
  composition, memes, the floating-point geometry of `planner.go`) map one
  input to one output and lie outside what TLC can enumerate.
* Query building and ranking of the search engines; their answer is external.
* `dbapi`: setup, migration and charset reports, keys and indexes of a table,
  nodes that deny access, and the concurrent readiness ping.  References in one
  cluster file are assumed to have distinct keys.
* `dbproxy`: `SetReadOnly` by hand and `Close`.  No service uses this library
  at present.
* `conduit/ratelimit.go` forgets a bucket after ten minutes without a request.
  `BucketsExact` assumes that a bucket refills within that time (burst at most
  600 times the rate), as it does with the default configuration.
* `gitea/conduit.go` looks for its marker by containment; distinct deliveries
  are assumed to have markers that do not contain each other.
* Redis keeps priority and id in one floating-point score; the model keeps the
  exact pair.  The id `RedisStore.Enqueue` loses when its pipeline fails after
  `INCR` is a gap nobody sees.  The hashes read back after the lease script
  are part of the reply only.
* Configuration loading, wire types (`contracts/`) and the `main` functions,
  except for the timers they start.
* PHP appears only as the external actions the Go code has to live with.
