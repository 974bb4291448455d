# eventd: a verification project

eventd is the event, log and metric store of Peios. The kernel (KMES) writes
events into one ring per CPU and overwrites the oldest when a ring is full;
programs send logs and metrics to datagram sockets. eventd stores all three,
answers queries about them, streams what is new, deletes what is old, and keeps
indexes and rollups. This directory holds TLA+ models of the parts on which its
promises rest, TLC configurations that check them on small instances, and TLAPS
proofs, for every instance, of the main safety properties of the event path, of
the handoff queue, of the descriptor cache, of the query service with its
configuration, and of the events that the daemon reports about itself.

Files are named without the directory they are in, which is `eventd/src` or
`eventd-core/src` under `src/`. `PROJECT.json` lists every part with its
status, and maps each modelling definition to the lines it stands for.

## The system and its modules

### Events

An event travels as follows. A *drain thread* reads its CPU's ring. Its
*reconciler*, which knows the receipts found at startup, says whether the event
is new and which sequences before it are missing. The drain reserves a slot in
the *handoff queue* of the shard its *stripe router* names, copies the event,
looks at the ring's tail again to see whether the event was overwritten
meanwhile, and publishes it or drops the slot. The *shard writer* collects a
batch and commits rows, reported gaps and receipts in one transaction. What it
cannot commit it remembers as lost, and records that loss before it stores
anything else. The *supervisor* opens the shards, starts the threads, declares
readiness when every drain has pushed a barrier through its shards, and stops
everything in order.

| Module | Models |
| --- | --- |
| `IngestState`, `ChannelOps` | shared state, messages, the KMES rings (external), a queue as a sequence of claimed slots |
| `DrainThread`, `Routing` | `kmes.rs`: `drain`, `replacement_ring`, `commit_recovery_markers`; `reconcile.rs` at the level of sets; `routing.rs` |
| `ShardWriter` | `writer.rs`: `run`, `commit_batch`, `handle_control`, `WriterExit`; `shard.rs`: `commit`, `commit_gaps`, `delete_events`, `replace_corrupt` |
| `Supervisor` | `pipeline.rs`: `run` and `supervise`, and a crash |
| `EventIngest` | the composition, its fairness, its properties and the invariants the proofs need |
| `EventLedger` | what the event path promises: one ledger, each sequence entered once |
| `HandoffQueue` | `queue.rs`, one step per access to an atomic, a slot's cell or the wait lock |
| `BoundedChannel` | what the queue promises its users |

An event is its key `<<cpu, sequence>>`; headers and payloads are left out,
because nothing checked here depends on them. A ring position is the sequence of
the event that starts there, so "the tail is past `read_position`" reads "the
event is no longer in the ring". A shard is three sets of keys: `rows`, `lost`
(keys named by `eventd.events.lost` rows) and `receipts`. `retired`,
`quarantined` and `dropped` are history variables that the properties mention
and no action reads.

A drain's program counter (`dpc`) and a writer's (`wpc`) have one label for each
point after which another thread or the kernel can be seen to act. In particular a
drain reads the tail and the write position (`DrainScan`) before it decodes a
header (`DrainRead`), and the kernel may overwrite the event in between: the header
then shows any sequence at all, and what is decoded from it goes no further than
the second look at the tail. `event_at` is taken to decode the header once. A
header that cannot be decoded, names another CPU or seems to regress ends the
thread, also when it was overwritten (`DrainFault`, one of the faults). A SQLite
transaction is one step with the outcomes the code tells apart: committed,
refused for want of space, corrupt, and any other error. The checkpoint that
follows a commit can fail on its own, so an error may come with the transaction
committed.

`HandoffQueue` reads the atomics as sequentially consistent; where the code
relies on more than acquire and release it has fences, and the model's order is
the one they enforce. Weak memory as such is not modelled (the repository has
Loom tests for it). Positions do not wrap: 2^64 reservations are out of reach.

### Logs, metrics and retention

Two threads receive datagrams, collect batches and commit them to their stores;
a *retention coordinator* measures the stores and asks the threads and the shard
writers to delete; a query may compute *rollups* and offer them to the metric
thread.

| Module | Models |
| --- | --- |
| `StoreState` | the sockets with their wakers, commands and replies, live settings (`datagram.rs`) |
| `LogIngest` | `log_ingest.rs`, `log_store.rs`: the receive loop, batches, the origin catalogue, maintenance, the final drain |
| `MetricStore`, `MetricIngest` | `metric_store.rs`, `metric_ingest.rs`: series and their cache, samples, rollups and the test that validates one, health samples, retention |
| `Retention` | `retention.rs`: passes over events, logs and metrics, requests and awaited replies, hold-off, live limits |
| `StoreSystem` | the composition, with a rollup query (`execute_rollup_window_query`) and the stop |

A record is its identity, key, type and time, and whether it can be used; a
datagram is a sequence of records. A receive loop has one label for each socket
call, commit and command. `lfate` and `mfate` are history: what became of the
records that left.

### Queries, configuration, indexes

A listener accepts connections under limits per process and per user. A handler
checks access through caches that a watch on the registry keeps current, captures
a cursor, reads the stores, and for a stream waits on a *commit signal* and
reads on. The *policy thread* counts which fields queries use and tells the shard
writers which indexes to keep. The *configuration watch* applies changes to live
settings.

| Module | Models |
| --- | --- |
| `DescriptorCache` | `query/security.rs`: resolution of an identifier through candidate keys, generations, the watch thread; the registry (external) |
| `Authorization` | the verdict caches of queries (`executor.rs`) and of the metric thread (`write_security.rs`) |
| `QueryStores`, `Listings` | the stores a stream reads: identifiers, types, deletion, `commit_signal.rs`; sets as sequences |
| `QueryServer` | `query/mod.rs`: listener, slots, handler; `executor.rs`: cursor, initial result, watch |
| `Configuration` | `config.rs`: values, validation, reload; the watch thread |
| `IndexPolicy` | `indexing.rs`: tracker, policy, broadcast; `writer.rs`: convergence, deferral and shedding |
| `ServiceSystem` | the composition and the stop, the properties and the invariants the proofs need |

### Sequential parts

These are operators and small step-by-step machines, checked on every input of a
bounded set against a definition written from what the result should be.

| Module | Models |
| --- | --- |
| `Reconcile` | `reconcile.rs`, `receipt.rs`: interval arithmetic of receipts and gaps |
| `Values` | `query/value.rs`: comparison across numeric types, grouping keys |
| `Predicates` | predicates, flattening (`field.rs`), payload index keys (`payload_index.rs`), the constraints that narrow a scan |
| `TimeRanges` | time narrowing and cross filters |
| `RecordQuery` | scans in both orders, trimming, pages, groups |
| `MetricQuery` | transforms, windows, percentiles, sinks |
| `Quarantine` | `quarantine.rs`: suffix, moves, rollback; `shard.rs`: `open_recovering`; failures, deaths and restarts at any step |
| `SyntheticReport` | reporters and senders of `pipeline.rs`; `handle_synthetic` and `WriterExit` of `writer.rs`; `commit_synthetic` of `shard.rs` |
| `SmallParts` | all of the above as one specification: the initial state chooses the part |

Of SQLite, `Quarantine` assumes that an open which reports corruption may delete,
keep or make sidecars, that any other failing open leaves the files as they are,
that making a database deletes a WAL left beside it, and that no database but the
original is corrupt. `SyntheticReport` has a slot in a queue from its reservation
on and publication as a step of its own, as `HandoffQueue` does; waiting for room
is left to that module. A writer ends there by failing only, and the report that a
recovery from corruption itself makes is not counted. `denied` and `lost` are
history: which shards stored an event and answered with an error, and which events
were in a shard when it was replaced.

Integers have 5 bits and floats 3 of precision there, so that both ends of each
type and the places where conversion loses information are met by few values.

`MC*` modules are the instances. Definitions whose comment begins "Mutation" or
"A mutation of" are plausible mistakes in the definition that follows them; they
are used only to see that a property notices them.

## Runs

| Run | Checks | Shows |
| --- | --- | --- |
| `ingest` | `Inductive`, `Accounted`, `ExactlyOnce`, `NoRegression`, `ReadyMeansRecovered`, `LedgerSpec`, `LossFirst` | with the kernel lapping the drain, and drops, ring replacement, crash and restart, refused and corrupt transactions, a lost writer and retention, nothing is lost silently or recorded twice |
| `progress` | `StartupResolves`, `StopCompletes`, `SurvivorRecorded` | startup and shutdown end although a writer is lost, and what survives in a ring is recorded |
| `queue_safety` | `ExclusiveSlots`, `BytesAddUp`, `ChannelSpec` | the queue implements `BoundedChannel` in every interleaving |
| `queue_progress` | `NoLostWakeup` | nobody sleeps through the change it waits for |
| `parts` | `ReconcileExact`, `OrderExact`, `RecordsExact`, `MetricExact`, `QuarantineWhole`, `NothingDestroyed`, `FateTrue`, `WaitersAnswered` | the sequential parts compute and keep what they should |
| `stores` | `RecordsAccounted`, `CachesCoherent`, `RollupExact`, `OldestBootFirst` | every accepted record ends with one fate, what threads remember agrees with the tables |
| `stores_progress` | `BatchCommits`, `StopCompletes`, `StoresBounded` | batches commit under endless noise, the stop ends, stores return under their limits |
| `service` | `SlotsExact`, `StreamsExact`, `CacheCurrent`, `CacheSpec`, `VerdictsCurrent`, `ConfigCurrent`, `StopFlushed` | slots balance on every path, streams skip and repeat nothing, caches and configuration are current; the composition uses the descriptor cache only as `CacheSpec` says |
| `service_progress` | `QueriesServed`, `StopCompletes`, `PolicyResponds`, `IndexesConverge` | queries end, streams catch up, thresholds and INDEX commands take effect, shards converge |

Three runs each show one disagreement between the code and what its comments or
its manual say; each is a finding in `PROJECT.json` with the lines it quotes.

- `reserved`: an event of a reserved type gets no receipt, so a restart can report
  it lost. `Accounted` and `ReadyMeansRecovered` except `ReservedTypes`.
- `stream_reuse`: identifiers are reused after the newest row is deleted, and a
  stream whose cursor has passed the old row does not deliver the new one.
  `StreamsExact` excepts rows stored under a reused identifier.
- `payload_index`: a payload that repeats a key, first with a value and then with
  a map, is flattened without the map but indexed with it, and an index then
  leaves out a row that matches. In `parts` the same property holds, as a conjunct
  of `RecordsExact`, over payloads without such a key.

### Bounds

Each is a constant, named in the `.cfg`. A behaviour begins by choosing a
scenario (`FaultBudgets`, `Loads`, `Scenes`, `Kinds`), so that one run covers
several kinds of misfortune without multiplying them.

Events: in `ingest`, one CPU and two shards, three events exceed the two places of
the ring, so that unread events are overwritten, and with barriers and gap reports
exceed the two slots of a queue, so that drains block. `MaxBatch` is 2 or 1: a
batch can be closed by its size, by an empty queue or by a control message.
`StripeLength` 1 sends consecutive events to different shards, which is what makes
receipts at restart full of holes. In `progress` one CPU has two events and a ring of one, so that the
drain is lapped; with the barriers of two drains and the commands of retention its
queue of one slot is full at times; and either the writer is lost or the ring is
replaced. Two starts are the fewest in which a restart meets what an earlier
run left. The queue has two slots, and some load has one item more, so that
positions lap, and some has bytes for less than the producers ask.

Stores: one datagram fills a socket, one or two records a batch, one row exceeds a
store's limit, one series fills the cache, one rollup request its channel; two
shards hold rows of three boots whose times overlap. The size limit of events is
lifted and imposed again within a pass, and in one scenario the store is within the
limit before all boots are gone.

Service: two query slots, one per user, one stream slot and two granules of memory
for three connections; two shards and the log store; an identifier with two
candidate keys, so that a walk can be torn; settings contents that are absent,
valid, out of order and ill-typed.

Parts: up to three receipt ranges below five in every order; two shards of up to
two events with few distinct times, so that all ties occur; up to two file faults
and two restarts in a quarantine, which is what each way to lose a WAL needs at
most; two writers, two reports and two store faults, so that both shards can fail an
event, or one shard deny it and then be replaced.

### Fairness

Every progress run assumes weak fairness of each thread's own steps, since the
operating system schedules runnable threads, and that time passes where the code
waits with a timeout. Nothing is assumed of the kernel's events, of clients,
producers, signals or faults. `HandoffQueue` also assumes that
`compare_exchange_weak` does not fail spuriously forever.

Deadlock is not checked where the system may come to rest: a process that has
ended, a queue closed and drained, a service with nothing asked of it, a
sequential computation that is done. There whatever stops too early violates one
of the progress properties.

## Proofs

| Module | Proves |
| --- | --- |
| `EventIngestProofs` | lemmas on the operators of the event path, its types, what a drain's verdict rests on |
| `EventIngestSafety` | nothing lost silently, nothing recorded twice, the ledger |
| `EventIngestRecovery` | no regression, readiness is true |
| `HandoffQueueProofs` | the ring stands at one turn, slots are exclusive, the queue is a bounded channel, bytes add up |
| `SumLemmas` | sums over finite sets |
| `AuthorizationProofs` | the descriptor cache is current, rights are not outlived |
| `ServiceProofs` | slots balance, the last policy run saves everything, the configuration in force is current |
| `SyntheticProofs` | an event about the daemon is stored once or counted as lost, no one is left waiting |

### The event path

For every value of the constants allowed by `ConstantsAssumption`,
`RoutingAssumption` and `ShardSeqAssumption` (any number of CPUs, shards, slots,
events and faults) these are proved:

- `TypeCorrect`: types.
- `InductiveHolds`: `Inductive` is an invariant.
- `NoSilentLoss`, `RecordedOnce`, `RecordsHonest`, `NeverTorn`: the invariants
  `Accounted`, `ExactlyOnce`, `HonestRecord` (receipts say exactly what rows said)
  and `NoTornEvent` (an event overwritten during its copy reaches no writer).
- `LossesFirst`, `ReceiptsStay`: the action properties `LossFirst` and
  `ReceiptsKept`.
- `ImplementsLedger`: the event path implements `EventLedger`, with `stored`,
  `reported` and `receipted` the unions over the shards.
- `NeverRegresses`, `ReadyIsTrue`: the invariants `NoRegression` and
  `ReadyMeansRecovered`.

None of these is inductive alone. A sequence reaches a record along one path:
observed, claimed, published, batched, committed or noted as lost. `Inductive`
says stage by stage what holds there. While a drain handles an event, the
reconciler's verdict on it still stands, since only that drain moves `next`
(`VerdictStands`). It holds exactly one slot, of the shard its router names
(`SlotsHeld`), so that publishing touches that slot and no other. A message
carries keys of one CPU, its stores and gaps disjoint (`MessagesProper`). Every
claim in a queue, a batch or a lost-batch list is behind its drain and not
covered by the receipts of the start (`ClaimsAreNew`); this is what makes a new
claim differ from all others. A process that is down holds nothing.

`NoRegression` is about events still in the ring; a header that was overwritten
before it was decoded may show anything. `VerdictStands` accordingly speaks of a
header that was in the ring when it was decoded, or else says that the tail has
passed the event, which the second look will see.

`Reading` adds, for `NoRegression`, that a drain's read position is never behind
its reconciler, and that the newest sequence it has passed outlives every ring
replacement, so that the scan of a new ring cannot resume before it. `Recovery`
adds, for `ReadyMeansRecovered`, that until a drain has recovered none of its
keys is queued behind one of its markers: an acknowledged marker then says that
its shard holds nothing of that drain that is not on record.

The step lemmas do not go action by action for every conjunct. `Touched` and
`Flow` describe the few ways in which a queue, and the keys held for a shard, can
change; each action is shown to be one of these, and each conjunct to survive
them.

### The handoff queue

For any finite set of producers, at least two slots, any positive charges and any
loads whose capacity admits each single item (`QueueAssumption`):

- `QueueInvHolds`, `SlotsNeverShared`: `QueueInv` and `ExclusiveSlots` are
  invariants.
- `ImplementsChannel`: the queue implements `BoundedChannel`, with the channel the
  places from the oldest unread position to `enqueue`, each reserved, published or
  cancelled as its slot's sequence and cell say.
- `BytesNeverLeak`: `BytesAddUp` is an invariant.

`QueueInv` says that the slots stand at one turn of the ring (`OneTurn`): from the
oldest position not given back to `enqueue` each is settled or owned by the one
producer that stands there, and the rest of the turn is free. Positions of one turn
have different slots, which is all that `ExclusiveSlots` needs. A claim succeeds
only for a position whose slot was seen free, and that stays true until `enqueue`
moves (`ClaimRight`), although other producers and the consumer may lap in between.
`WrittenRight` and `ConsumerRight` say what the cell holds while a thread has it.
The byte count then is a sum over producers and a sum over positions; each step
changes one term of one of them, or moves a term from one to the other.

### The descriptor cache

`AuthorizationProofs` proves `StaysCurrent`, that `CacheSpec` implies
`[]CacheCurrent`, for any registry keys, identifiers, candidate lists and readers
(`CandidatesAssumption`). Whether an insertion keeps `CacheCurrent` depends on
what the reader's walk has seen. The invariant therefore adds that a walk of the
present generation, with the watch standing and nothing pending, has seen the
registry as it is (`WalksFresh`), and that no walk is of a later generation (`Dated`),
so that raising the generation makes every walk a stale one.

### The query service

For any connections, users, stores, types, plans and limits
(`PublisherAssumption`, `ConnsAssumption`, `FieldsAssumption`,
`ContentsAssumption`, `ScenesAssumption`; the set of connections is finite):

- `UsesTheCache`: the service implements `CacheSpec`, so that `StaysCurrent`
  holds of the cache inside it.
- `RightsNotOutlived`: `VerdictsCurrent`. A verdict is filed under a generation
  read before the walk that led to it. `VerdictInv` says that an answer in hand
  whose generation is the present one is what the registry says (`AnswersTrue`),
  and the same of filed verdicts (`FiledTrue`); the cache's own invariant is what
  makes an answer true when it is given.
- `NoSlotLeaks`: `SlotsExact`. A handler holds its slots only between the steps that
  take and give them (`Placed`), and the counters are sums over the handlers, of
  which each step changes one term.
- `NothingCountedUnsaved`: `StopFlushed`. The policy thread is told to stop only
  when the listener has stopped (`LastRun`), a stopped listener has no handlers left
  (`SlotsExact`), and only handlers count.
- `ConfigurationCurrent`: `ConfigCurrent`. What a reload retains or adjusts is
  decided by the values it reads, not by those in force, so that a second reload
  of the same registry changes nothing (`ReloadSettles`). `UpToDate` carries this
  through the watch thread: while its watch stands and no notification is
  pending, what is in force is settled, or is about to be replaced by the reload
  just computed. The thresholds are read as a pair, and a pair out of order is
  not taken (`ReadInOrder`), so they cannot cross however they are written.

### Events about the daemon

For any number of shards, reports and faults (`CountsAssumption`):

- `OneRecordEach`: `FateTrue`.
- `NoneLeftWaiting`: `WaitersAnswered`.

Both follow from `SyntheticInv`. An event is in the hands of one sender at a time
and has no fate while it is (`OffersOwn`); a queue has one slot for each sender
that holds a permit in it, and for each that waits on it unless its writer has
ended, and a writer is gone only when its queue is empty (`MailWaitedFor`); until
its sender has a yes the event is in no shard, or in one that denied it
(`RowsTrue`), and only shards that it has been offered to have denied it
(`DeniedTried`), so that the shard that says yes has not; and a reported event has
its fate, is being offered, or is in the worker's channel (`ReportsKept`). Copies
are counted as places, pairs of a shard and a row, so that a commit adds one place
to one event and a replaced shard only takes places away.

### Only model-checked

- Liveness (`StartupResolves`, `StopCompletes`, `SurvivorRecorded`, `NoLostWakeup`,
  `BatchCommits`, `StoresBounded`, `QueriesServed`, `PolicyResponds`,
  `IndexesConverge`) and deadlock freedom, which are outside the prover's reach.
- `ReconcileExact`, `OrderExact`, `RecordsExact`, `MetricExact`: they compare what
  recursive definitions and folds over sequences compute with a reference
  definition, which takes an induction over data that the prover does not have.
- `StreamsExact` and `RollupExact`, for the same reason: what a stream owes and what
  a rollup should be are computed over the rows and samples of a store.
- `RecordsAccounted`, `CachesCoherent`, `OldestBootFirst`, `QuarantineWhole`,
  `NothingDestroyed`: within reach, not proved.

## Deviations met while modelling

Besides the three findings, these executions of the models surprised us. They are
consequences of the code as written, and the runs avoid them as said.

- `kmes.rs:87`: the generation is read after the ring is attached, and again after
  a replacement is mapped. A ring replaced in between is never followed.
  `SurvivorRecorded` excepts such a ring (`base`).
- `kmes.rs:120`: a drain that cannot read its ring before it has recovered ends
  without a report while other drains keep the startup channel open, and startup
  waits. An event overwritten just before it is decoded can have the same effect, or
  end a drain later. The `progress` run has no ring faults.
- `queue.rs:303`: bytes given back by a reservation that found no slot wake nobody.
  In eventd the byte bound is many items wide and a later pop wakes the sleeper;
  `NoLostWakeup` is checked with producers that wait.
- `writer.rs:514`: a writer that holds one desired index set and finds
  another in its queue puts the first back at the tail, and then the second finds
  the first: the two can change places for ever. `IndexesConverge` asks for
  convergence once at most one set is on its way.
- `retention.rs:246`, `338`: whenever there is a size limit for events, a pass
  deletes the first boot of its inventory, the oldest but the current one, without
  having compared the size of the store with the limit; it does so only afterwards
  (line 354). The manual (`3--event-storage/6--retention.md:52-54`) says that size
  retention runs when the total exceeds the limit. `OldestBootFirst` says what the
  code does: the first boot goes whatever the size, the others and the rows of the
  current boot only when the store is over the limit.
- `retention.rs:384`: a boot is left when the limit is lifted meanwhile. If it is
  imposed again before the comparison at line 354, the pass goes on with the next,
  newer boot, and with the current one. `OldestBootFirst` excepts a pass in which a
  boot was left (`rpast.lifted`).
- `metric_store.rs:383`: deleting samples deletes the stored rollups of their series,
  but not one that a query has computed and the metric thread has yet to store. It
  passes the reader's test later if the newest sample of its window and the one
  before it are still there. `RollupExact` speaks until something is deleted.
- `shard.rs:370`: a synthetic event whose row is durable is reported refused when
  the checkpoint after it fails, for want of space or otherwise, and is then stored
  again by the next shard, or logged as lost although it is stored. `FateTrue`
  counts copies in the shards that did not deny it.
- `writer.rs:600`: an event counted as stored is lost when its shard is later
  replaced for corruption; it is then in the quarantined database. `FateTrue`
  excepts it (`lost`).
- `quarantine.rs:59`: the database is renamed before its WAL. When the process dies
  in between, or the rename of the WAL fails and that of the database cannot be
  taken back, the next start finds no database, makes a new one, and SQLite deletes
  the WAL (`WalOrphaned`).
- `quarantine.rs:108`: a WAL that could not be copied is lost when the open that
  follows deletes it (`WalUncopied`). And a WAL that is in its copy alone, because
  the process died after the failed open or putting it back failed, is overwritten
  when a later start finds another WAL to copy (`WalOverwritten`).
  `NothingDestroyed` excepts these three cases for the WAL, and nothing for the
  database or for earlier quarantines. `QuarantineWhole` speaks of the move of a
  first start.
- `query/executor.rs:2289`: a NaN is hashed by its bits, although `value.rs:141`
  makes all NaNs equal, so that NaNs of different bits form groups of their own. The
  comment at line 2268 says of the key that "every pair of language-equal values
  shares" it, and `executor/tests.rs:1669` that "Every NaN is one value, so they are
  one group". `OrderExact` says which equal values share a key; the scenes of
  `RecordsExact` have NaNs of one bit pattern.

## Not modelled

- The query language (`query_language.rs`, `executor/time.rs`): sequential text
  processing whose results are the queries the models start from. Text built
  character by character is out of TLC's reach at useful sizes.
- SQL text, schema validation and SQLite itself: a transaction is atomic.
- Wire formats, projections, `eventd-client` and `evctl`: conversions and I/O.
- `health.rs` and `diagnostics.rs`: counters and messages.
- Process plumbing (`main.rs`, `directory.rs`, `boot_id.rs`, `writer_lock.rs`) and
  the protection of socket paths: straight-line I/O.
- The kernel's access check, and its ring and token interfaces beyond what the
  code relies on.
- Opening and recreating the metadata database of the index policy; label matching
  of metric queries; the timed wait of the queue.
- The writer's three roles (events, indexes, synthetic events) are checked in
  three models, not in one: their interleavings only meet at the queue, and a
  product of the three is beyond the checker.
