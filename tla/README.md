# A TLA+ development for qx-py

qx-py is a family of Python packages for backend services: requests pass a
middleware stack and a mediator pipeline into a unit of work, the unit of work
writes a transactional outbox, a relay moves the outbox to a NATS JetStream
stream, workers consume the stream, and sagas, event-sourced aggregates and
projections live beside them. This directory models the parts of it that are
concurrent or have to survive failures, checks them with TLC on small instances,
and proves every safety property of the runs with TLAPS for every size.

Contents: [1 The system](#1-the-system) ·
[2 Modules and how they correspond to the code](#2-modules-and-the-code) ·
[3 Runs](#3-runs) · [4 Bounds](#4-bounds) · [5 Fairness](#5-fairness) ·
[6 Proofs](#6-proofs) · [7 Where code and documentation disagree](#7-where-code-and-documentation-disagree) ·
[8 Not modelled](#8-not-modelled) · [9 Plan](#9-plan)

To check a run: `tlc -config <run>.cfg <module>`; to check the proofs of a component:
`tlapm <module>Proofs.tla` (section 6 lists the eight modules). `PROJECT.json` lists
runs, the source lines of every definition, the hazards and the theorems, and
for every checked property a mutation of the model that breaks it.

## 1 The system

```
 HTTP/gRPC stack -> mediator pipeline -> handler -> repository -> unit of work
   | tokens, buckets,   | idempotency      ^              | pooled       | one transaction
   | regions, probes    | (Redis)          |              | sessions     v
   v                    v             container      tenant schemas   rows + qx_outbox_events
 answer, metrics      Result         (services)                               |
                             leader lock (Redis) ---- outbox relays  <--------+
                                                        | publish_raw         |
                                                        v                     v
                                                 JetStream stream      region replicators
                                                        | durable consumer    | other region's stream
                                                        v
                                dead letters <---- worker runtime --> integration handlers
                                                                        |            |
                                           timeout lock --- saga manager        event store
                                                                                      | qx_aggregate_events
                                                                                 projection runners --> read models
```

| Component | State it keeps | Operations | What is hard | What makes it correct |
|---|---|---|---|---|
| Outbox recorder, relay (`qx-events/outbox_relay`, `qx-db/outbox`) | rows with `published_at`, `attempts`; the batch of a relay; the leader key | `record`, `run`, `_drain_loop`, `_process_one_batch`, `stop` | publish is not transactional; several relays; a lock with a TTL | no row is claimed twice at once, duplicates only from lost commits and acks, every row is eventually published or given up |
| Worker runtime, dead letters (`qx-worker`, `qx dlq`) | tasks in flight, stop flag; `qx_dead_letters`; the consumer's view of a message | `run`, `_process`, `stop`, `persist`, replay | ack may be lost, late or raise; stop while a fetch is pending | what is acked is settled, nothing good is abandoned without a fault |
| Mediator, pipeline, unit of work (`qx-cqrs`, `qx-db/uow`) | registrations; tracked aggregates, open transaction, active unit of work | `register_*`, `send`, `publish`, behaviors, `track`, `commit`, `rollback` | retries inside a transaction, nested commands, a COMMIT whose answer is lost | the outbox is atomic with the write, every event is accounted for, each command has its own unit of work |
| Repository, tenancy, pagination (`qx-db`) | rows with versions; `search_path` of pooled connections | `get`, `add`, `save`, deletes, `list`; schema sessions, provisioning | stale entities, connections shared by tenants, rows that change between pages | no save is lost, a schema session works on its own tables, walks are complete |
| Idempotency (`qx-cache`, `IdempotencyBehavior`) | a Redis hash with TTL per key | `begin`, `complete` | expiry under a running handler, partial `complete`, a claim whose reply is lost | one run per key within the TTL, replays are the original response |
| Event store (`qx-eventstore`) | event rows, snapshots, pending events of an instance | `append`, `load`, `_save_snapshot`, `record_event` | two clients at one version; commits between the two SELECTs of `load`; snapshots that lose fields | an append-only log with optimistic concurrency; instances and snapshots are replays |
| Projections (`qx-projections`, `qx projections`) | checkpoints, read models | `run_once`, `rebuild`, status, reset | read model and checkpoint in different transactions, several replicas, one failing projection, one cursor for many streams | nothing below a checkpoint is missing, events arrive |
| Sagas (`qx-saga`) | one row per instance with version | `handle`, `tick_timeouts`, compensation with retries, `create`, `save` | two deliveries, deliveries against timeouts, lock TTL | no saved state is lost, a finished saga stays finished, timeouts exclude each other |
| Distributed lock (`qx-cache`) | one key with a token and a TTL | `acquire`, `release` | expiry under a holder | only its token releases it |
| Region replicator (`qx-regions`) | cursor over published rows | `run`, `_process_one_batch`, `stop` | rows published out of order, two processes, crash before the checkpoint | rows are not skipped, resends are bounded, rows arrive |
| DI container (`qx-di`) | providers, singletons, scopes, overrides, a lock | `register`, `resolve`, `resolve_sync`, `scope`, `override`, `aclose` | a lock held across awaits, caches filled without it, closing under use | one instance per singleton and scope, everything is disposed, resolutions end |
| Edge: HTTP, gRPC, auth, rate limit, regions, health (`qx-http`, `qx-grpc`, `qx-auth`) | request contexts; buckets and deny list in Redis | middleware and interceptors, `validate`, `revoke`, `take`, probes | order of layers, exceptions that pass them, clocks of several hosts, keys that expire | a request sees only its own principal, buckets are bounded, answers and metrics agree |
| Order service (`examples/order-service`) | orders, saga, summary | place, confirm, cancel, read | all of the above at once | orders take only legal paths, are decided, and the summary follows |

The hazards that follow from the column "what is hard" are listed, line by line,
in `PROJECT.json`.

## 2 Modules and the code

Every action is one atomic piece of a coroutine between two awaits whose order
matters, or one statement of a database, Redis or JetStream; the PostgreSQL,
Redis and JetStream behaviour the code relies on is modelled from how it is used
and marked external in `PROJECT.json`. Faults are actions bounded by `MaxFaults`.
A definition called *Mutant of X* is not part of the model: it is the plausible
bug used to see that a property can fail.

**OutboxDelivery** (abstract) — what a transactional outbox promises: an accepted
row is put on the stream any number of times while it is pending and is settled at
most once, after it really was on the stream.
**OutboxRelay** — relays as processes `loop → drain → batch`. `Record` is
`DefaultOutboxRecorder.record` in a transaction that commits; `Claim` the SELECT
with its WHERE, ORDER BY, LIMIT and SKIP LOCKED; `PublishOk/Fail/AckLost` one
iteration of the publish loop; `Commit` the two UPDATEs and the COMMIT;
`DatabaseError` and `Crash` lose the transaction but not the publishes;
`ExpireLive` is the leader key's TTL ending under a live leader (the code never
renews it). `unrecorded` is a history variable counting publishes the table never
learnt of. It uses **DistributedLockOps** (SET NX and compare-and-delete,
shared with the saga manager) and is shown to implement OutboxDelivery.

**WorkerRuntime** — worker processes `loop → fetching → … → draining → stopped`
and one task per delivery, identified by message and `num_delivered`, that goes
through `_process` await by await: `Decode`, `HandlerReturns/Permanent/Raises`,
`Classify` (last attempt?), `Persist`/`PersistFails` with the notification that
follows, `Ack`, `Nak`. `Subscribe` creates the durable consumer, whose server side
(`Deliver`, `AckWait`, `ServerAck`, `ServerNak`) is external. `Replay` is
`qx dlq replay`. Message kinds are the ways `_process` can treat a payload.

**Mediator** — registration calls of a startup (by class, by decorator with
inherited stamps, by generic type) and the decisions of the behaviors in front of the
transaction: validation, policies, and what Logging, Tracing and Metrics observe.
**CommandPipeline** (extends it) — commands on their way through the chain: `Load`
with `Track`, `Save` with the version check and PostgreSQL's row lock, `Retry`, `Drain`,
`HandleEvent` (a handler of a domain event may record events or send a nested command),
`SqlCommit`, `CommitFails` (the answer of COMMIT may be lost), `Rollback`. `active` is
the context variable of `get_current_uow`; `log` is the history of committed writes
with the version each was computed from. `child` is the nested command a handler is
waiting for; a handler sends one at a time.

**Tenancy** — plain and schema sessions over pooled connections: `SET search_path`
lasts beyond a transaction only if that commits, which is all that matters here.
**Repository** (extends it) — `get`, `add`, `save`, `soft_delete`, `hard_delete` in
such sessions, and clients that walk a listing by cursor or by page number while rows
change. A row remembers the saves it contains, so a lost one is visible.

**Idempotency** — the requests that carry one key: the Lua script of `begin()` is
one step with four outcomes, `Unavailable` an error of that call, after which the script may
have run all the same; `StartHandler` is a step of its own, so a request may die with a claim
and nothing run; `complete()` is `HSet` followed by `SetTtl`, and the key may expire at any
time it has a TTL. `claimed`, `ran` and `succeeded` are histories.

**EventLog** (abstract) — append-only streams, extended only by a writer that has
seen all of the stream. **EventStore** — callers with a transaction at READ
COMMITTED: the two SELECTs of `load()` are two actions, `append()` inserts rows
that become visible at `CommitTx`, waits for an uncommitted row with the same
sequence and fails on a committed one; snapshots are upserted without comparing
versions. Instances are built as the code does, by `FromEvents` or by `Restored` from a
snapshot, and `Replay`. State is per field: the value of a field is the sequence of the events
whose `apply_` method wrote it (`Applies`; none for an event without such a method).
`Serialized` keeps of an instance only the dataclass fields of its class without leading
underscore (`Kept`), `Restored` gives the others their defaults. The history `restored` of an
instance says that it came from a snapshot. Implements EventLog, where `seen` is the version of
a loaded instance less its uncommitted rows.

**ProjectionRunner** — runners that execute `run_once()` or `rebuild()` step by
step (checkpoint read, SELECT with cursor and LIMIT, apply row by row, checkpoint
upsert, commit); the read model is written at once, the checkpoint at the commit.
`Poison` marks rows a handler always rejects. `CliReset` and `Lag` are
`qx projections rebuild` and `status`. `spoiled` remembers that a rebuild overlapped
or died; `overtaken` is the history of rows that were committed at or below a cursor of the
projection (`Reached`), or that LIMIT cut from a row of another aggregate with the same number
(`CutTies`).

**SagaManager** — one saga instance; deliveries go `Skip` (no handler in the table
`SagaMeta` builds) or `Load`, `Create`, `Handle`, `Compensate`, `Save`, `Commit`,
tickers `Tick`, `AcquireLock`, `RunTimeout`, …, `ReleaseLock`, `Commit`. A saga handler
is its outcome (keeps running, completed, `mark_failed()`, raises); the saga state is
the set of events that contributed to it, so losing one is visible. `old` stands for
`updated_at` before the timeout's threshold.

**RegionReplicator** — replicators of one target over OutboxDelivery's outbox (so it
rests on what the relay is proved to implement): load the checkpoint, fetch a batch by
(occurred_at, id), forward row by row, stop at the first failure, save the checkpoint.
`late` is the history of rows that became published behind a reader: behind the saved
checkpoint, or behind the cursor or the fetched batch of a process that may still save it.

**Container** — asyncio tasks with a stack of resolution frames; the running task
keeps the event loop until it awaits a held lock or an async factory. `Produce`,
`Wait`, `Acquire`, `NextDep`, `CallFactory`, `FactoryRaises`, `Store`, `Raise` are the pieces of
`_resolve`/`_produce`/`_call_factory`. A frame that is left by an exception is at `raise` (a
`ResolutionError`, which a parameter with a default absorbs) or at `fail` (any other, and
what `SyncSuspends` does by closing the coroutine: it leaves every frame); `Register`, `Scan`, `OverrideEnter/Exit`,
`CloseBegin/Step/End` happen between awaits.

**Auth** — pure definitions: decoding and claims of a token, revocation, permission
matching, policies, the bucket's Lua script, the error classes with their HTTP and gRPC
codes. **Edge** (extends it) — a request enters one layer per step of either the
documented middleware order, the one `add_middleware` builds after `setup_qx_app`, or
the interceptor chain; answers, headers and metrics are produced on the way back. Buckets are
counted in parts of a token (`Unit`), so that a refill may be slow, and `BucketTtl` is the
lifetime `take()` computes, with its lower bounds on the refill and on the result. `setBack`
is the history of takes with a clock `Behind` the bucket's, `forgotten` that of takes that
found the key expired before the bucket would have filled (`Forgotten`).

**OrderService** — the composition: commands, saga, timeout and projection loop of the
example over the abstractions the other modules justify (EventLog, OutboxDelivery, one
saga row per order, one checkpoint for all orders). `LoadTimedOut` lists the sagas a tick
serves one after the other. A pass of the projection reads the rows of all orders in
sequence order, ties in any order; `projected` is the history of rows that finished passes have
read, and an order is `Overtaken` when the checkpoint is past a row that is not among them.

**MC*** modules give names to the model values and to structured constants.
**OutboxRelayProofs**, **CommandPipelineProofs**, **SagaManagerProofs**,
**RegionReplicatorProofs**, **EdgeProofs**, **ConsumerProofs** (worker runtime, projections),
**StoreProofs** (repository, idempotency) and **ApplicationProofs** (order service, container,
event store) hold the theorems.

## 3 Runs

| Run | Checks | Shows |
|---|---|---|
| `relay` | DisjointBatches, DuplicatesAccounted, ImplementsDelivery, EventuallyPublished | Two relays behind a leader lock, three rows (two of the same instant), batches of two, any two faults. Batches stay disjoint although two relays may both believe to lead; each duplicate on the stream is a publish that was rolled back or whose ack was lost; every row is published or given up. |
| `worker` | FateAccounted, ExclusiveUnlessDisturbed, EventuallySettled | Two task slots, two handlers, two messages of any kind (replays included), two deliveries each, a fault anywhere. What is acked was handled, dropped for a documented reason, or dead-lettered (or the loss was logged); a well-formed message is abandoned or run twice at once only after a fault; every message is settled. |
| `pipeline` | WritesChain, OutboxIsAtomic, UowIsOwn, EventsAccounted, Answered | Three commands, one nested in an event handler of another, two attempts each, three faults, three startups. Saves form one chain; outbox rows exist exactly for committed writes, and metrics count as success only what is written; code finds its own unit of work; the only events left behind are those section 7 names; commands wait for ever only when a nested one waits for its parent's row. |
| `repository` | PathContained, WalkComplete, LostOnlyByReuse | Two sessions, plain or of a tenant, over two connections; a walking client. The exceptions in the properties are exactly those the code has (section 7). |
| `idempotency` | AtMostOneRun, AnswersJustified, ClaimEnds | Three requests, two bodies, expiry, Redis errors with or without the script having run, crashes before and after the handler. A body is refused because another one claimed the key, whether or not that one ever ran. The exceptions (a stored null; an expiry under a running request) are those the code has. |
| `eventstore` | InstanceIsReplay, SnapshotFaithful, ImplementsLog | Two callers, two aggregates, appends of one or two events of which one kind writes both fields and the other has no `apply_` method, snapshots every two versions that keep one of the fields, a rollback. In the fields that snapshots keep, instances and snapshots are replays of a prefix of the stream, also through snapshots of instances that were themselves restored; an append is based on all of the stream: the unique index protects the snapshot too. |
| `projection` | NoSkip, EventuallyApplied | Two runners, two projections of which one rejects an event, a crash, a rebuild and a reset by the command, one stream. Overlapping runners re-apply rows but leave no hole below a checkpoint, no row is overtaken within its stream, and the reported lag covers what is missing, unless a rebuild was disturbed; what precedes the rejected event is applied. |
| `saga` | TimeoutsExclusive, TerminalIsFinal, NoLostUpdate, TimeoutServed | Deliveries of an event the class handles, one its base handles and one nobody handles, against two tickers with a lock, a crash or an expiry under its holder, two compensation attempts. |
| `region` | SkippedOnlyIfLate, ResendsAccounted, EventuallyForwarded | Two replicators of one target, three rows (two of one instant), batches of two, one failure or crash, stop() on one. |
| `container` | InstancesShared, DisposedUnlessLate, ResolveEnds | Two tasks, singletons with an async factory, any factory raising or being cancelled, a scoped and an unregistered transient class, root and child container, one registration (any lifetime, class or bare value), override, scan or closing at any time. |
| `edge` | BucketBound, PrincipalIsOwn, AnswersObservable | Two concurrent requests of eight kinds (HTTP and gRPC, four tokens, four tenants, a probe), two middleware orders, revocation, expiry, skewed clocks, a bucket whose key expires before it is refilled, one failure of Redis or the region table. |
| `orders` | StreamIsLegal, AnswersBacked, SummaryFollows, PlacedIsDecided | Two orders with a client, the saga, its timeouts and the projection loop, two failures or crashes. A summary follows its order through repeated and interleaved passes, but for an order whose events the other order's have overtaken. |

Deadlock is checked in `relay`, `worker`, `pipeline`, `idempotency`, `eventstore`,
`projection` and `saga`; models whose processes end have an explicit idle step
(`Finished`, `Quiet`) that is enabled only when everybody is done. It is switched off
where the system may come to rest in many ways, and where rest is the question a
liveness property asks it: `container` (tasks that wait for each other's locks are what
ResolveEnds is about), `repository`, `edge`, `region` and `orders`, which end when the bound
on requests, transactions or rows is used up.

## 4 Bounds

Every bound is a constant. They are chosen so that each of the listed hazards
happens. For the safety properties the theorems of section 6 cover every larger instance
(TimeoutsExclusive: with a lock); for liveness these sizes are what is
known:

* `relay`: a batch of two out of three rows needs LIMIT and ORDER BY, and a second
  batch; two faults allow an expiry of the leader key followed by a crash of either
  relay, or a crash in the repeated batch. `MaxAttempts = 2` reaches the give-up. The
  shard clause is inactive here; theorem ShardsPartition covers it.
* `worker`: `Concurrency = 2` with two messages lets two deliveries of one message,
  or of two, overlap, and lets a fetch be sized for one slot; `MaxDeliver = 2` has a
  first and a last attempt. Tasks of one process and of two interleave alike, since
  tasks share nothing but the consumer, so the instance has one process with two slots.
* `pipeline`: two commands on one row and a nested one on the same or another row; three
  faults allow two failed attempts and a lost COMMIT answer. The startups are: the usual
  one, one that scans a module twice and leaves a command unhandled, one that ends in a
  duplicate registration.
* `repository`: three transactions let an entity outlive the rollback of one and meet
  the save of another; two rows and pages of one give a walk a second page. Sessions and
  connections are interchangeable (symmetry; all properties are safety properties).
* `idempotency`: three requests cover claim, collision and replay or mismatch; two
  bodies.
* `eventstore`: version 4 with `SnapshotEvery = 2` has two snapshots to confuse, an
  append of two events jumps over a multiple from an odd version, and the second snapshot
  may be taken of an instance the first one restored; one field that snapshots keep and one
  they lose are told apart. The second aggregate needs one version to be confused with the
  first, and has no snapshot. Callers are symmetric.
* `projection`: two rows, two projections, and one each of the disturbances, any two of
  which can overlap. The rejected row is the last one, so that a good one precedes it. The run
  has one stream, where nothing may be overtaken: with a second one the liveness property is
  beyond five minutes. NoSkip alone was checked with two streams as well (two runners, two
  projections, batches of one, three events, one disturbance of each kind; 7.8 million
  states), and its theorem covers any number.
* `saga`: one ageing of the row; two tickers and two deliveries give every pair of
  processes.
* `region`: three rows in batches of two need a second batch behind a checkpoint; two
  rows of one instant need the id in the cursor.
* `container`: two resolutions are enough for every pair of tasks at every pair of
  awaits; the graph has depth three and an optional parameter that refers to itself. The first
  set of registrations has everything in the root; in the second two containers need a
  singleton of each other, and the scoped class is unknown.
* `edge`: capacity of one token of three parts and a refill of one part per tick: three
  arrivals and two ticks exhaust, refill and overdraw a bucket. The refill is below
  `SlowRefill`, so the key lives two ticks, one less than the refill takes; tokens expire
  at 1 with a leeway of 1.
* `orders`: two orders are what one checkpoint confuses. Two requests of the client place
  both, or place one and confirm, cancel or read it; the saga confirms each order and the
  timeout cancels it again, so a stream reaches its greatest length without the client. Two
  faults lose a confirmation and the transaction that follows.

## 5 Fairness

Safety needs none. The liveness properties assume weak fairness of the steps of
coroutines that the event loop schedules and whose awaits return, and:

* relay: a crashed or stopped pod is started again (`deploy/k8s` runs it as a
  Deployment, which restarts its pods), Redis expires the key of a dead leader. A
  publish may fail each time it is tried, which is why EventuallyPublished allows giving up.
* worker: ack_wait expires, and a fetch that is repeated while messages are ready
  returns one eventually (strong fairness of `FetchReturns`, since a fetch may time
  out between two chances).
* pipeline: every database call returns, possibly with an error.
* idempotency, saga: Redis expires a key that has a TTL.
* projection: the polling loop calls `run_once()` for ever; the upsert of a checkpoint
  that has to wait for a row lock again and again gets it (strong fairness: PostgreSQL
  queues waiters).
* container: tasks that are ready run, factories and disposers end.
* orders: the polling loop and the worker keep running, time passes; so does the task that calls
  `tick_timeouts` every minute, as its docstring asks of the application (the example itself
  starts none, section 7). A tick serves all the sagas it has listed before the next one lists again.

No fault is fair, and no handler is assumed to succeed.

## 6 Proofs

TLC checks small instances; these theorems hold for every set of rows, relays, messages,
commands, requests, replicators, orders and so on, for every number of faults, and for every
value of the other constants. Every safety property of every run is one of them. They rest on
nothing but the `ASSUME` of each module (types of the constants, distinct special values,
positive batch sizes and attempts, and what is named below), which TLC evaluates on every run,
and on the hypotheses that the table gives in parentheses. For each model there is an inductive invariant,
which TLC checked on the run's instance before it was proved, one lemma per action (or group of
actions alike) that the action preserves it, and the theorems that follow.

| Module | Theorem | States |
|---|---|---|
| OutboxRelayProofs | TypeCorrect, BatchesDisjoint, NoOtherDuplicates, Refinement, ShardsPartition | TypeOK, DisjointBatches, DuplicatesAccounted, ImplementsDelivery; each row belongs to one shard |
| CommandPipelineProofs | NoLostUpdate, CommitIsAtomic, EventsAreAccounted, UowStaysOwn | WritesChain, OutboxIsAtomic, EventsAccounted, UowIsOwn |
| SagaManagerProofs | FinalStays, NothingLost, TickersExclude | TerminalIsFinal, NoLostUpdate, TimeoutsExclusive (with a lock factory) |
| RegionReplicatorProofs | NothingSkipped, ResendsBounded | SkippedOnlyIfLate, ResendsAccounted |
| EdgeProofs | BucketsBounded, PrincipalStaysOwn, AnswersAreObservable | BucketBound, PrincipalIsOwn, AnswersObservable |
| ConsumerProofs: WorkerRuntime | FateIsAccounted, TasksExclude | FateAccounted, ExclusiveUnlessDisturbed |
| ConsumerProofs: ProjectionRunner | ProjectionsSkipNothing | NoSkip |
| StoreProofs: Repository, Tenancy | PathStaysContained, SavesAreNotLost, WalksAreComplete | PathContained, LostOnlyByReuse, WalkComplete |
| StoreProofs: Idempotency | RunsOnce, AnswersAreJustified | AtMostOneRun, AnswersJustified |
| ApplicationProofs: OrderService | StreamsStayLegal, AnswersAreBacked | StreamIsLegal, AnswersBacked |
| ApplicationProofs: Container | InstancesAreShared, StoredIsDisposed | InstancesShared, DisposedUnlessLate |
| ApplicationProofs: EventStore | StoreIsALog, InstancesAreReplays, SnapshotsAreFaithful | ImplementsLog, InstanceIsReplay, SnapshotFaithful |

**OutboxRelay.** DisjointBatches is not inductive alone: `Commit` marks
rows, so one has to know that a claimed row is still pending and that a relay outside its
transaction has no batch. The inductive invariant is
`TypeOK ∧ BatchShape ∧ ClaimedPending ∧ DisjointBatches ∧ DuplicatesAccounted`:
`BatchShape` (waiting, published and failed rows of a batch are disjoint, and empty
outside a transaction) and `ClaimedPending` carry the argument that SKIP LOCKED alone,
whoever holds the leader key, separates the relays. The refinement maps the stream
to the rows with at least one copy; `Commit` is `Settle`, a first publish is
`Deliver`, everything else stutters. `ShardsPartition` is arithmetic: with a relay on
every shard each row belongs to exactly one shard.

**WorkerRuntime.** `IInv = Types ∧ Counted ∧ Reasons ∧ Rows ∧ Current ∧ Held ∧
FateAccounted`. What a task will do with its message has to be justified before it does it:
`Reasons` says why a task that is about to ack, or to write a dead letter, may do so,
`Counted` ties the consumer's delivery count to the state of the message. `Current` and
`Held` tie tasks to the consumer: while nothing went wrong, the only living task of a
message is the one of its last delivery, and the consumer has just that one outstanding; so
there is no second task, and ack_wait cannot end without a fault. `Rows` (a dead letter
belongs to a message that was published) is needed because `qx dlq replay` publishes again
what a row says.

**CommandPipeline.** `IInv = Types ∧ Good ∧ Locks ∧ Fates ∧ Nested ∧ Owned ∧ Chained`.
`Locks`: a transaction that has written a row holds its lock, and the row is as it found
it, so a commit continues the chain (`Chained`: the version column is what the last
committed write left). `Good` follows the tracked, pending and drained instances through retries
(`Collecting` before the drain, `Collected` after it), `Fates` ties the committed write to the
outbox rows and the result. `Nested` and `Owned` determine the context variable from where the
commands of a task are; the argument needs that a handler awaits one nested command at a
time. `PipelineAssumption` lets a command be nested one level deep.

**Repository and Tenancy.** PathContained follows from `PathInv`: a connection belongs to one
session (`Exclusive`), within a transaction its path is the connection's own or the tenant's of
the session (`PathSource`), and in the first transaction of a schema session it is that tenant's
(`FirstPath`). LostOnlyByReuse is a property of steps, and rests on `RowInv`: one transaction at a
time has written an id, which lives in one table (`OneWrite`, `OneHome`, `Fresh`); what it has
written continues the committed row (`WritesContinue`); and an entity in memory is older than the
row or has its content, unless it outlived a rollback (`EntitiesKnown`), so a version comparison
that succeeds compares contents. For WalkComplete, `WalkInv` says of a walk by cursor that the
rows so far are in ascending order, end at the cursor and include every row up to it that stayed
(`ByCursor`), whatever was committed meanwhile; of a walk by page numbers, that its rows are the
beginning of the listing if nothing changed (`ByNumber`), where the last page is an inequality
about `(total + size - 1) div size`. ORDER BY is the ascending enumeration of a finite set of ids,
which `OrderExists` shows to exist. `RepositoryAssumption` has finitely many ids and pages of at
least one row, as `OffsetPagination` requires.

**Idempotency.** `IInv = Types ∧ Progress ∧ KeyOwned ∧ KeyStays ∧ OneStarts ∧
AnswersJustified`. `KeyOwned` is the idea: unless the key expired under a running request,
every request past its claim has the body the key was claimed for, some request with that body
claimed it, though it may have died before its handler or never have heard of its claim, and a
stored response is the result of a run with that body. `OneStarts` is AtMostOneRun with the
requests that were told to run the handler in place of those that have called it.

**ProjectionRunner.** `ProjectionInv`: whatever a projection's cursor or checkpoint has passed is
in its read model or was overtaken. For the committed checkpoint this is `CheckpointCovered`, for
those written and not committed, and for what a runner has read, `WorkCovered`; inside a batch
(`CoveredByBatch`), the rows of the batch that are still to be applied are the exception. A
cursor stands at the number of a row of the log or at 0 (`CheckpointArrived`, `CursorsArrived`),
so a row committed at or below one has another aggregate's row at or above it, since in its own stream it
is the last (`OvertakenByOthers`). The lag covers what is missing of a stream because these rows
have different numbers between the checkpoint and the greatest one. During a rebuild the read model is behind its
committed checkpoint; that no other run of the projection is open then, unless the projection is
`spoiled`, is `Alone`. Nothing is assumed of the number of streams. `ProjectionAssumption` has a
list of registered projections that is not empty; a runner without any does nothing.

**SagaManager.** For the row: `RowTypes ∧ OneWriter ∧ TxFollows ∧ TxShape ∧ CopyBehind`.
PostgreSQL lets one transaction hold the row (`OneWriter`); what it has written builds on the
committed row, which is running (`TxFollows`); and, the heart of it, a loaded copy is never
ahead of the row and equals it when the versions agree (`CopyBehind`), so the version
comparison of `save()` compares states. The lock plays no part: with or without it
the version check suffices. `TickersExclude` has an invariant of its own, `HolderInside`:
until a key expires under its holder, a ticker inside the timeout handler holds it.

**RegionReplicator.** Everything published up to the checkpoint, and up to the cursor of every
open transaction, has arrived or is late (`SettledUpTo`); a fetched batch has no hole
(`BatchComplete`); what was forwarded has arrived (`ForwardedArrived`). The checkpoint moves to
the last row forwarded, so the three give its new `SettledUpTo`. For ResendsAccounted the
invariant `Accounted` carries, for each row, how often it was sent plus the number of
replicators that may still send it: sending moves a replicator from the second to the first, and
only a fault or a checkpoint that went back adds to the sum. It needs finitely many replicators
(`ReplicatorAssumption`).

**Edge.** `IInv = Types ∧ BucketsCovered ∧ Listed ∧ AllSound`. In parts of a token, a bucket that
was used satisfies `granted + count ≤ Full · (1 + forgotten) + Refill · (last + Skew · setBack)`:
taking moves a token from `count` to `granted`, refilling is paid for by `last`, a clock that goes
back by at most `Skew` by `setBack`. An expired key comes back full, which is paid for by the
time since the last take, or counted in `forgotten` when that is too short. How often that
is follows from the key's lifetime: `take()` sets `BucketTtl = max(int(2 · capacity /
max(refill, 0.001)), 60)`, and a key was untouched that long before it is found expired, so
`BucketTtl · (1 + forgotten) ≤ expires` is part of `BucketsCovered`. The assumption on the constants
is that they are natural numbers, the refill possibly 0 or slower than the lifetime allows for. `AllSound` relates a request to the
layers it has entered: it has its own context exactly behind the layer that opens it, and an
answer given before the route comes from inside the context or is a 429; `Listed` is the
revocation list. The stacks are arbitrary sequences of layers that contain
RequestContext, as every application built by `setup_qx_app` has.

**OrderService.** `Streams` are the legal histories. A command that has loaded one may extend
what it has seen, holds the next position from its INSERT to its COMMIT, and one command at a
time does (`Good`, `OneCommit`); the read model shows only what an order had reported
(`ViewPart`).

**Container.** `ContainerInv`: frames of a task produce different keys and only the top one is
outside its factory (`StackShape`); a frame that produces a singleton holds the lock of its owner,
and finds the cache empty as it left it unless an override, a registration or a closing changed
it (`LockKept`), so what was served of a singleton is what the cache has (`SingleServed`). A scope
has no lock, and the count of its instances is carried by an injection from the instances to the
tasks that built them: a task that built one builds no other before the scope closes, because it
finds the cache filled (`ScopesServed`). `ClosingDone` follows `aclose()` through the list of
disposers. `ContainerAssumption` has finitely many tasks.

**EventStore.** `StoreInv`: the rows of a stream are numbered without gap or repetition
(`StreamsDense`); what a transaction has inserted continues the stream up to the version of its
instance, and a caller that has inserted nothing is not ahead of the stream (`TxContinues`);
one transaction at a time has rows for an aggregate, because a second one waits for the unique
index (`OneAppender`); a snapshot is not ahead of its stream (`SnapshotBehind`). The refinement
maps the commit of a transaction with rows to the `Extend` of EventLog: a dense stream that ends
where the writer has read to has been seen as a whole. On top of it `ReplayInv` says that instances
and snapshots are the replay of the events up to their version; commits of others add rows behind
that version only: in all fields for an instance built from events, in the `Known` ones for one
built from a snapshot. It is an argument field by field, since an `apply_` method writes its
fields from the event and the field itself; what snapshots lose never reaches what they keep.
That replaying a tail onto the state of a prefix is replaying the whole
(`ReplayConcat`) is a fact about a recursive function. The library's induction theorems cannot be
used (an operator as parameter), but a minimal counterexample can: the set of lengths for which
a claim fails has a least element (`LeastNatural`, from the well-foundedness of `<` on the naturals), which
the recursion equation contradicts. `OrderExists` and the counting in NoSkip are proved the same way.

Proof attempts corrected the models in five places. A row could become published between a
replicator's SELECT and its checkpoint without being counted as late; two nested commands of one
parent could run at once, which one `await` excludes; rows of equal sequence of two orders were
read in a fixed order; BucketBound was false for clocks that differ by more than
`Capacity / Refill`, an instance outside the run's bounds: a key that expires forgets a
clock that was ahead (section 7), which `Forgotten` now counts; and after a rollback `Unsaved` took
the entity in memory for the one written without comparing ids.

Only model-checked, and why: the liveness properties (EventuallyPublished, EventuallySettled,
Answered, ClaimEnds, EventuallyApplied, TimeoutServed, ResolveEnds, EventuallyForwarded,
SummaryFollows, PlacedIsDecided): fairness and ENABLED are outside the prover. No safety property
of a run is left to TLC alone; what TLC adds for them is that the models are not vacuous: each has
a mutant that breaks it.

## 7 Where code and documentation disagree

What the models showed while they were written. A property that would state the
documentation's sentence has a counterexample; the properties that are checked state what
does hold, and their exceptions are these.

* *Outbox relay.* The 60 s leader key is never renewed while draining, so two relays may
  be active (`outbox_relay/__init__.py:105-112`). DisjointBatches and the theorems show
  that this costs nothing but the name of leader.
* *Worker.* Undecodable messages, and those with a malformed tenant header, run out of
  deliveries without a dead letter (`runtime/__init__.py:225,237`; the store's docstring
  promises one for every exhausted message).
* *Unit of work.* After a retry the event of the failed attempt is published and that of the
  successful one is lost: `track()` tests membership and entities compare by id, so the
  second instance is not tracked (`uow/__init__.py:83`); retries share the unit of work
  of the failed attempt (`pipeline/__init__.py:394`, documented otherwise at :37).
  Events recorded by an event handler after the drain stay in the buffer (`:122`). An
  event handler that sends a command for the row its own transaction has written waits
  for ever (Answered's exception).
* *Repository.* `save()` bumps `entity.version` before the commit
  (`repository/__init__.py:165`): an entity used again after a rollback overwrites what
  another transaction saved meanwhile, which `Entity`'s docstring ("reject stale
  writes") excludes. `soft_delete` leaves the version alone.
* *Tenancy.* `open_schema_session` resets `search_path` in a transaction that `close()`
  rolls back (`tenancy/session.py:48`): after a commit on it the connection goes back to the
  pool with the tenant's path, against "so pooled connections are left clean". Schema
  sessions set their own path and are safe in their first transaction (PathContained);
  plain sessions, and a schema session after its own first commit, use what they find.
* *Idempotency.* A stored null is taken for a fresh claim (`pipeline/__init__.py:565`); a
  failed handler leaves the key in progress until its TTL ends (`:571`); `complete()`
  after an expiry recreates the hash without a fingerprint (`idempotency/__init__.py:165`).
  When the reply of `begin()` is lost after the script ran (`:112`), or the process dies before
  the handler, the claim stays: until the TTL ends other bodies are refused and the retry of the
  same request is told "in progress", though nothing ran and nothing runs. AnswersJustified
  therefore speaks of claims where one would like to say runs.
* *Event store.* The pending events are drained before the INSERT (`store.py:83`): an
  instance kept after a conflict would report success for a second `append()` that writes
  nothing. The model discards it, as the callers in the repository do. The lookup of
  apply methods uses the lower-cased class name (`apply_moneydeposited`), the docstring's
  example is `apply_money_deposited`, which would never be called.
  Snapshots are lossy (`store.py:216-245`): fields with a leading underscore are dropped, and
  so is every field a subclass adds without being decorated with `@dataclass` itself (`Order` of
  the example is such a class: its snapshot has an id and a version). After a restore they start from
  their defaults and know only the events behind the snapshot, so InstanceIsReplay excepts them;
  an `apply_` method that computes a kept field from a lost one would spread the loss, which the
  model leaves out (a field is computed from the event and the field). A state that is not
  JSON (the `UUID` that `asdict` yields for an id) makes the `append()` that takes the snapshot fail.
  `_from_events` makes the instance without running `__init__`, so an `apply_` method that reads a
  field with a `default_factory` finds none; the model starts from defaults.
* *Projections.* The per-aggregate `sequence` serves as the cursor over all aggregates, so an
  event of an aggregate that is behind is skipped for ever, and the lag is reported as 0
  (`runner.py:98`, where `:28` has it process "all events since the last checkpoint"). NoSkip and
  EventuallyApplied except such `overtaken` rows; NoSkip says which rows can be among them. A projection that always
  raises rolls back the checkpoints of the others in its transaction (`:118`), which
  re-apply the same batch for ever and never get past it. A rebuild that overlaps a run, or
  dies between `reset()` and its commit, leaves rows missing behind the checkpoint
  (`:81`; NoSkip's exception); `rebuild()` replays one batch (`:83`).
* *Sagas.* The manager ignores the Result of `save()` and of `create()`: of two concurrent
  deliveries the second is acked and its effect lost (`manager.py:166`, `:144`), where
  `store.py:68` says "the manager should reload and retry". Compensation runs before the
  version check (`:156`); the timed-out instance is loaded before the lock is taken
  (`:184`); `mark_failed()` in a timeout handler is persisted as compensated without
  `compensate()` (`:200`).
* *Region replicator.* A row marked published after a reader has passed its time is never
  replicated (`replicator.py:104`), and two processes, or a crash before the checkpoint, send
  rows again (`:29` says "without re-sending").
* *Container.* The singleton lock is held while dependencies are resolved and is not
  reentrant (`container.py:350`): a singleton that needs an uncached one of the same
  container hangs. `Scope._lock` is never taken (`:365`). A singleton stored while
  `aclose()` awaits a disposer is dropped without its own (`:534`). A parameter's default
  hides a `ResolutionError` only (`:442`): a factory that fails, or a scope that has been closed,
  fails the whole resolution.
* *Edge.* What a middleware raises passes the exception handlers: a 500 without correlation
  header (`middleware/__init__.py:224`, against "the chosen id goes back in the response
  header"); a principal stored outside a request context goes into the one empty context all
  requests share (`context/__init__.py:92`); a revocation entry expires with the token, which
  is accepted for the leeway beyond it (`revocation/__init__.py:42`); a bucket refills one
  interval twice when clocks differ (`rate_limit/__init__.py:61`), and a key whose TTL ends
  forgets a clock that was ahead, so that with clocks further apart than `capacity / refill` it
  is full again too early (`:97` calls the TTL "a safe default"). The TTL is computed with a refill of at
  least 0.001 per second (`:98`): for one below 0.0005 (five tokens a day, say) the key expires before
  the bucket is full and a full bucket is granted, which `:95-97` means to exclude. BucketBound says
  how often: once per lifetime of the key at most.
* *Order service.* The conflict `append` reports is dropped by the handlers, so a client
  may be told of success for an event that is not in the stream (AnswersBacked says what
  such a success is worth). `OrderConfirmed` and `OrderCancelled` are domain events and never
  reach the saga: it stays running, and its timeout cancels confirmed orders too. Nothing in the example calls `tick_timeouts`
  (`saga/manager.py:100`); relay and worker are named in `main.py:13-16` as processes of their own,
  the ticker is not: the timeout exists, and PlacedIsDecided holds, only where a deployment adds it. The summary has
  one checkpoint for all orders: an order placed after another one was confirmed and projected
  never appears in it (`runner.py:98`; SummaryFollows excepts `Overtaken` orders). With two
  application processes a slower projection pass can set the summary back for good
  (`order_summary.py:58`); SummaryFollows is checked for one.

## 8 Not modelled

* Wire formats, envelopes, logging, tracing back ends, SQL generation, mapping and
  migrations carry no state the properties speak of. Signatures and key sets are
  cryptography; OIDC discovery, feature flags and connection management are I/O.
* In OrderService a tick saves each saga in a transaction of its own, where the code commits all of a
  tick at once (`manager.py:107`); a lost transaction then recurs for one saga instead of all.
* Row-level security (`tenancy/rls.py`) is a setting per transaction (`SET LOCAL`), which
  PostgreSQL itself drops at the end; database-per-tenant routing is a dictionary of engines.
* Search (`qx-search`): the index is the state of an external engine. Reading it showed two
  things a model would be about: a document is written without a version, so a redelivered
  event may overwrite a newer one, and an error of transport in `bulk_index` drops the counts
  of the chunks before it.
* Worker health: an age read by a probe. The branch for a full worker
  (`runtime/__init__.py:163`) does not mark activity, so a busy worker is reported as stalled.
* `qx dlq list` prints eight characters of an id, `replay` needs all of it: formatting.
* `DistributedLock.renew` has no caller; the fan-out of notifications only logs.
* Scaffolding, doctor, devtools, test doubles, the other examples and deployment files.

## 9 Plan

Done: OutboxRelay with its abstract specification and proofs, WorkerRuntime,
CommandPipeline with Mediator, Repository with Tenancy, Idempotency, EventStore with
EventLog, ProjectionRunner, SagaManager with proofs, RegionReplicator over
OutboxDelivery, Container, Edge with Auth, OrderService as the composition.

Proved: every safety property of the runs (section 6).

Beyond that: a model of `qx-search`'s indexing, where a redelivered event may overwrite a newer
document (section 8). Should the event table get a global position, `overtaken` leaves NoSkip,
EventuallyApplied and SummaryFollows.
