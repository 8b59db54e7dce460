# Omnipair indexer: TLA+ models, checks and proofs

This directory is a formal model of the parts of the Omnipair indexer in which
order, concurrency and failure decide whether the data is right: how a confirmed
transaction reaches the pipeline, how the pipeline and its daemon loop handle it,
what the processors are handed, what they leave in the database, how a swap reaches
the clients of the gRPC stream, and what the clients of the REST API read. The
models are written from the source (line ranges in `PROJECT.json`, `map`), checked
with TLC on small instances, and every safety invariant they check is also
proved with TLAPS for every value of the constants.

Run from this directory:

    tlc -workers 2 -config MCPipeline.cfg MCPipeline     # model checking
    tlapm PipelineProofs.tla                             # proofs

## 1. Inventory

| Component | State it keeps | Operations | Hard behaviour | Model |
|---|---|---|---|---|
| Atlas websocket datasource (`helius-atlas-ws-datasource`) | reconnection attempts, iteration tokens, clock and transaction tasks, position in the stream | connect, subscribe, receive, `try_send`, cancel, reconnect, give up | tasks of an old iteration outlive it; watchdog; bounded channel; two cancellation tokens | `AtlasDatasource` |
| Transaction crawler (`rpc-transaction-crawler-datasource`; built, not attached today) | paging cursor, retry counters, two internal channels | list, fetch, filter, send | new signatures between pages, retries, three tasks that fail separately; a start that is searched while the history grows | `TransactionCrawler`, `CrawlerStart` |
| Pipeline run (`crates/core/src/pipeline.rs`, `run`) | channel, counters, cancellation token | `select!` over token, Ctrl-C, channel; process; count | any ready branch may win; the future may be dropped at any await | `Pipeline` |
| Pipeline dispatch (`process`, pipes, filters, schemas) | the calls still to make | filter, walk, decode, match, flatten | failing processors, undecodable instructions inside a tree, greedy matching | `UpdateDispatch`, `TransactionPipe` |
| Nested instructions (`instruction.rs`, `transformers.rs`) | level pointers, path stack | list, nest | raw pointers into growing vectors, missing stack heights | `NestedInstructions` |
| Daemon loop, signals (`main.rs`, `pipeline.rs`, `signals.rs`) | retry delay, orphaned tasks | start, restart, back off, signal | signals at any moment, tasks that survive a dropped run | `IndexerDaemon` |
| Instruction processor and tables (`processors.rs`, `database.rs`, migration 001) | event tables, latest positions, pools | one or two statements per event, webhook | redelivery, late delivery, failure between statements | `EventStore` |
| Swap notification stream (migration 002, `volumeEnricher.ts`, `db_listener.rs`) | rows' volumes, dedup buffer, LISTEN sessions | insert, notify, enrich, buffer, flush, broadcast | concurrent enrichments, time-out racing the answer, lost link, restarts | `SwapStream` |
| Volume backfill (`backfillVolume.ts`) | counters, the batch in hand | count, fetch, fill or skip | third writer of the same rows; rows that are never filled | `VolumeBackfill` |
| gRPC server (`grpc_server.rs`) | one broadcast receiver and lag counter per client | subscribe, deliver, skip, cut off, drain | slow clients on a bounded ring; shutdown with open streams | `StreamClients` |
| API caches (`pairSimulation.ts`, `cache.ts`, `PairStateService.ts`) | two caches, table of requests in flight | ask, simulate, cache | single flight, failing simulations, two lifetimes on top of each other | `PairStateCache` |
| REST listings (`dataController.ts`) | none; a client's walk has an offset | count, select, complete, answer | tables written between two statements and two pages | `PagedReads` |
| Program subscription, account backfill (`rpc-program-subscribe-datasource`, `datasources.rs`; not attached today) | reconnection attempts, position in the stream; slot and accounts in hand | connect, subscribe, receive, `try_send`; two requests and a bulk of `try_send`s | a full channel; two requests between which the chain moves | `AccountSources` |
| Log metrics (`log-metrics`) | histograms | record, show, clear | other tasks record between show and clear | `LogMetrics` |
| Decoders and their macros (`omnipair_decoder`, `proc-macros`, `macros`) | none | discriminator, Borsh, first type that fits | short, broken, foreign or surplus data | `InstructionDecoding` |
| EMA backfill (`fillEmaPrices.ts`) | pairs in hand, rows read, rows written | list pairs, read rows, write a batch in a transaction | fourth writer, whose updates carry no volume of their own; batches that fail | `EmaBackfill` |
| Price maths (`emaCalculator.ts`, `rateCalculator.ts`) | none | pure functions | widths, rounding | not modelled |
| Prometheus exporter, configuration | none of their own | - | - | not modelled, but for the start block |

How they interact. The datasource task puts transactions into the pipeline's bounded
channel; the pipeline's loop takes one at a time, lists and nests its instructions, and
hands them to the pipes; the indexer's one pipe calls the processor for each instruction,
and that writes to PostgreSQL. `Pipeline::run` is a future that the daemon loop owns: it
ends it by dropping it, while the datasource tasks, being spawned, go on. Everything
behind the database is driven by NOTIFY: a trigger on `swaps` wakes the enricher (which
updates the row, which notifies again) and the gRPC listener (which holds the plain row
back for a while and broadcasts the enriched one to the clients' streams). The two backfill
scripts, for volumes and for EMA prices, are run by hand and write the same rows. The REST API reads the tables the indexer writes,
and the chain.

What makes each correct:

* datasource: a live subscription has no hole; a dead one is replaced; at most one
  iteration is in charge; cancellation reaches every task; giving up is reported;
* crawler: it starts within the block it was told to; every signature is listed once, decided once, and delivered at most once;
* pipeline: every update once, in order; it ends when it should and not
  with work left over; every processing time is reported;
* account sources: no update passes off an old state as a new one;
* dispatch: each pipe is handed what it admits and decodes, once, in execution order; a
  schema finds what it describes and nothing else;
* daemon: always comes back; delays follow the errors;
* tables: what is stored of a transaction is a prefix of it; a finished transaction is
  all there; latest means latest; nothing is announced before it is stored;
* nesting: no dangling pointer; the tree is the call tree;
* stream: clients end up with what the table holds, never step back from an enriched
  row to a plain one, and miss no swap the listener was told of, if it is alone in its transaction;
* backfill: ends, and leaves nothing it counted, unless it cannot price it;
* EMA backfill: takes no volume back from a client, and leaves no row of a pair it reports as processed;
* gRPC clients: a bounded hole at most, and no waiting in silence, or the end of the stream;
* caches: one simulation at a time, answers no older than the lifetimes say, everybody
  answered;
* listings: no row that stays where it is is passed over.

## 2. Modules

`MC*.tla`/`.cfg` give the constants of the module they extend small values. A
definition commented "Faulty variant" is not part of any specification: it is a
plausible bug in the definition below it, kept to show that a property notices it
(`PROJECT.json`, `mutants`).

**`AtlasDatasource`.** `phase` is the control point of `consume`; `handle[s]`, `clock[s]`
and `tx[s]` are the supervisor, clock and transaction task of iteration `s`, `iterCancel[s]` its
token and `mainCancel` the pipeline's. `Connect` is the successful part of an
iteration's start, `ConnectFails` the failing one (both client constructors count the
same way). `StopIteration`/`EndIteration` are the outer `select!`, `Supervise` the end of the
joined tasks. Transactions are numbers in the order the chain confirms them; delivery
on one websocket is in order, so a subscription is the interval from `since` to `cursor`.
`TxSend`/`TxSendFails` are the two outcomes of `try_send`, `TxSkip` the `continue`s.
A reconnection takes the chain's present position: what was confirmed in between is
not fetched by anybody, which is why `NoSilentGap` speaks of one subscription.
Time is abstracted: the five-second watchdog and the slot gap may fire at any moment.

**`TransactionCrawler`.** `lister`, `fetcher` and `worker` are the control points of
`signature_fetcher`, `transaction_fetcher` and `task_processor`. Signatures are numbered
in the order of confirmation; the node answers a page newest first, so a page is the
interval from `PageTop` to `PageLow`, cut at `until`. `EndSweep` is the empty page that
moves the cursor. `fetching` is what `buffer_unordered` has in flight, with the failed attempts of each;
`hold` is the transaction `for_each` is sending, during which nothing polls the stream. `blocking` chooses between
`send` and `try_send` on the pipeline's channel. **`OnceOnlyDelivery`** is what a crawler promises: a
confirmed transaction is given to the pipeline or given up, one of the two and once, in any order.
Only the token ends a task (`CancelEndsTasks`); a pipeline that is dropped without it leaves the
three running and giving everything up. Until `Consume` the tasks do not exist (`lister = "new"`).

**`CrawlerStart`** extends it with what comes before: the start block from argument or environment, the
slot that stands for it, and `find_signature_at_slot`, which reads the history page by page while the chain goes on
confirming. Its result becomes the crawler's `floor`. Without a start block, or if the search fails, there is no floor and the
whole history is crawled (although the log line then says "starting from most recent").
The floor itself is not listed, as `until` is exclusive; section 3 says what follows for the start block's own transactions.

**`Pipeline`.** The channel branch is taken apart at every await, because the future can be dropped at each: `Receive`, `CountReceived`,
`Process`, `RecordNanoseconds`, `RecordMilliseconds`, `CountResult`, `CountProcessed`; `OnTheWay` are the control points between them. `process` itself is abstract:
it succeeds or, for the updates in `Failing`, returns an error; `UpdateDispatch` is what is inside.
`Send` and `SourceReturns`
are what any datasource can do through the interface it is given. `Drop` ends the
future and leaves the token alone. **`InOrderProcessing`** is the abstract
specification it implements.

**`LogMetrics`** adds the two histograms of the loop, each with its sample recorded at an await of its own after `process`. `ShowMetrics` and `ClearMetrics` are the two halves of a flush, which is awaited in a
branch of the same `select!`; the steps of the loop are therefore closed meanwhile, those of other tasks are not.

**`AccountSources`** puts two real datasources in the place of `Send` and `SourceReturns`: the program subscription, whose two
attempt limits differ by one, and the account backfill, which reads the slot first and the accounts second. A state
of an account is known by the slot it was read at; `claims` records which slot each update names. The node is taken to be one node:
behind a load balancer its answers need not be ordered in time.

**`NestedInstructions`.** Node `m` is the m-th instruction listed; `level` are the builder's raw
pointers, each with the generation of the buffer it points into. A push may move a
buffer (its generation goes up), except the top-level one, which is
preallocated. `heights` distinguishes the heights of a real call sequence, an old
transaction without heights (`None`, read as 1), and arbitrary lists (the conversion is public).

**`UpdateDispatch`** extends it to the whole of `Pipeline::process`. `Arrive` takes a list
of instructions that `NestedInstructions` has finished, or an account, a deletion or a block. `at` is the position
that the loop over the update's pipes has reached (`NextPipe`), `pending` the nodes the pipe there still has to be called with.
`RunInstruction` is `InstructionPipe::run`, which puts the nodes below in front of that stack; `RunWhole` is one call of
a pipe of another kind; `ProcessorFails` is any `?`. The five lists of pipes are those the builder's functions
fill (`AccountPipes`, ...). `HandedOverInOrder` compares the calls with what is due according to the flat list of instructions.

**`TransactionPipe`** is what a transaction pipe gives its processor. `ParsedBelow`, `Unnest`, `Match` are
`parse_instructions`, `unnest_parsed_instructions` and `match_nodes`, as recursive functions on the nodes of the
tree and on how far a call of `match_nodes` has come (`Positions`); `ParseInstructions`, `UnnestParsed` and `MatchNodes` are one call of
each, given the results of the calls it makes. They change nothing, so the module adds no action. Schemas are numbered
lists of nodes, and a node's inner nodes are an earlier list. The properties, evaluated after every call of such a
pipe, compare them with references (`Callers`, `CalledBy`, `Fits`) that look at the flat list of heights only.

**`InstructionDecoding`** is what it decodes with: `Deserializes` is the code that `CarbonDeserialize` generates, `DecodeWith` the
first type that fits (`try_decode_instructions!`, `decode_account`), `ParseInstruction` the first decoder of a collection. Data are
sequences of words; a field can be missing or invalid, and words may be left over. The references
use `Understands`, which says what a well-formed instruction is, not how it is found.

**`IndexerDaemon`** extends `Pipeline` for the run at hand and adds the loop around it. A new
run (`Start`) has a new channel, token and tasks. The datasource tasks of a dropped
run become `orphans`; an orphan ends only by giving up on connecting. After the first
run tokio has replaced the default signal disposition, so a signal that arrives while nobody
listens has no effect; before it (`SignalAtStart`) it kills the process.

**`EventStore`.** A transaction is a sequence of events (`Chain`), each with a small program of
statements named after the `upsert_*` function that runs them; `at` is the next
statement. The data of a row is the event that wrote it. Four kinds of statement are told apart by
their conflict target: rows that are always new (`InsertRow`), one row per signature,
one row per pair and signer, one pool per pair. Every statement may fail
(`StatementFails`, which ends the delivery as `?` does), and the run may be dropped between
any two (`Dropped`). A statement that was under way when a run is dropped has taken
effect before the drop or not at all; a commit that arrives after the next run has started is not
modelled. Deliveries are of any transaction at any time: repeated, late, never.

**`SwapStream`.** `Notify` is the trigger: the notifications of a commit go, in order, to the
sessions that listen then. The swaps of a transaction are inserted in its order (`Earlier`), since one that fails ends its handling. The enricher's jobs are a set, because its handler is
asynchronous and several are under way; `Enrich` updates every row of the
transaction. The listener's buffer is keyed by transaction and ordered by age, so that a tick flushes a
prefix of it. Losing the link loses the notifications until it is re-established, but
not the buffer; restarting the server loses both.

**`VolumeBackfill`** extends it with the script as one more writer: `CountRows`, `Fetch`, then
`Skip` or `Fill` per row of the batch, `ScriptFails` at any point. A row of the batch may have been
enriched before its turn, and is overwritten then. The order of the rows is not
part of the state, so a batch is any rows without a volume.

**`EmaBackfill`** extends that with the EMA script, so that it composes all four writers: `ListPairs`, `StartGroup` (`PAIR_BATCH_SIZE` pairs at
once, the next group when all of them have settled), and for each pair of the group `SelectRows` and one `WriteBatch` per
`BATCH_SIZE` rows, or `PairFails`. A transaction is one action, as it keeps the rows it has updated locked until it
commits; the order of its rows is the script's, by time, which the model does not know, so the
notifications of a batch come in any order. The prices are left out: a row has one or not. No row's price can fail to be computed
(`calculateEmaFromPoolData` throws nothing), so the script's `catch` around a single row has no counterpart. Its `UPDATE`s
go through the same `Notify`, with the volume the row has. `chosen` are the rows in the script's memory, `selected` all
it has read, a history variable.

**`StreamClients`.** Broadcast messages are numbered; the ring keeps the newest `Capacity`.
`Deliver` and `Overtaken` are the two results of `recv`: a message, or `Lagged(skipped)`, which moves the
receiver to the oldest message there is. `lag` is `lag_count`, `last` a history variable. After `Signal` the listener goes on feeding the
open streams, and `Stop` waits for them. Whether a new stream can still open on a connection that is open is up to tonic and hyper, so the model lets
it; that the server stops is therefore no property.

**`PairStateCache`.** One pair; `handler[h]` is a request, `run` the simulations in flight with the
request that started each, `inFlight` the table of them, `simCache` and `pairCache` the caches. An entry of the table that names no
run is a settled promise (`Settled`): `CallGetters` lets any closure it starts throw before its first await, which leaves such an entry. Node
runs one callback at a time, so what lies between two awaits is one action. Time is kept as
ages of what is stored; a value's age counts from the moment the chain was read for it, which is not
the moment it was cached. Each phase of a request is assumed to come back within `MaxWait`.

**`PagedReads`.** A listing is described by what it sorts by and whether an upsert moves its rows;
`Count`, `Select`, `Answer` are the handler, `Insert` and `Upsert` the indexer, and the client goes on while
`hasNext`. `Orders` are the orders PostgreSQL may return, ties included. The condition `visible = TRUE` on pools (`dataController.ts:801`) is left out, since nothing in the repository
hides a pool.

## 3. Runs

| Run | Bounds | States | Shows |
|---|---|---|---|
| `atlas` | 2 iterations alive, 3 transactions (one unusable), channel of 1, 2 attempts | 110,436 | 2 invariants, 4 liveness properties |
| `atlas_stall` | 2 iterations, 2 transactions | - | counterexample to `SubscriptionRestored` |
| `crawler` | 3 signatures in 2 slots, pages of 2, 2 requests, channels of 1, 1 retry; a search of at most 2 pages of 1 | 230,598 | 2 invariants, 2 liveness properties, refinement of `OnceOnlyDelivery` |
| `pipeline` | subscription and backfill, channel of 2, 4 updates, 1 failing, 1 new slot, 3 accounts, 2 attempts | 352,410 | 2 invariants, 1 liveness property, refinement of `InOrderProcessing` |
| `nested` | lists of up to 6 instructions, depth 4; up to 4 with 3 kinds of data, up to 2 with 7, through 10 pipes | 173,766 | 7 invariants |
| `daemon` | 1 datasource, 3 updates, delay up to 6 s, 2 orphans | 9,056 | 1 invariant, 1 liveness property |
| `event_store` | 3 transactions (4 or 5 events, every kind), 2 keys, 4 deliveries | 106,887 | 3 invariants |
| `event_store_rows` | the same, 3 deliveries | - | counterexample to `OneRowPerSwap` |
| `swap_stream` | 2 swaps of one transaction (in 2 pairs), 1 of another; a volume backfill over 2 rows, batches of 1, limit 0 or 1; an EMA backfill over 2 rows, groups of 1 pair, transactions of 1 row | 480,109 | 4 invariants, 2 liveness properties |
| `stream_clients` | 2 clients, ring of 2, threshold 3, 7 messages | 8,917 | 1 action property, 1 liveness property |
| `pair_cache` | 2 requests, 2 getters, lifetimes 2 and 1, wait 1 | 204,941 | 2 invariants, 1 liveness property |
| `paged_reads` | every listing, 4 rows, 1 upsert, limits 1, 2 and 3 | 229,699 | 2 invariants |

Each module's type invariant is proved; that of `UpdateDispatch` is `DispatchTypes`, in its proof. Some of them are also conjuncts of an invariant of their runs: `ReadTypeOK` of `NothingSlipsPast`, the
`TypeOK` of `PairStateCache`, `EventStore` and `SwapStream` of `OneSimulationPerGetter`, `PrefixPersisted` and `NeverBackToPlain`,
`DaemonTypeOK` of `BackoffMatches`, `EmaTypeOK` of `ReportsAreTrue`.

Why the bounds are enough. Two iteration slots are the current iteration and one that
lingers; a lingering task is only influenced by its own token and the channel, so a
third adds no new kind of interaction. A channel of one is full as soon as anything waits, and three
transactions are enough for one to be dropped, one to be skipped and one to
follow. Two attempts tell "failed once" from "gave up". In `TransactionCrawler` three signatures
are two pages, or a page, an arrival in the middle of the sweep, and a second sweep; two of them share a slot and the start block lies after it, so that the search ends
on the first page or a later one, at the history's end or for want of pages. In `AccountSources` one new slot can
fall before, between and after the requests of the backfill and the events of the subscription, and four updates overfill the channel of two. In
`EventStore` four deliveries
allow each transaction once and one repeated, or one transaction cut short and repeated between two
others. In `SwapStream` all the races are between rows of one transaction and the timer; the third
row shows independence. With the script running, at most `MaxScripted` swaps are in the table and the
listener keeps its session, so that the races of the script are with the enricher
and the tick; two rows are the two of one transaction or one known and one unknown. The EMA script is cut in the same
way, and runs without the other script (`Alone`); groups of one pair and transactions
of one row let everything else come between any two of its steps, and two rows are two of a pair or of two pairs and one transaction. In
`StreamClients` seven messages overtake a client twice between two deliveries. In `NestedInstructions` depth 4 and length 6 let a
list go to the bottom, come back up and go down again; four instructions, a swap, an event or nothing decodable each, are every small tree with an
undecodable node at its root, in its middle and at its leaves, and the pipes' schemas have gaps,
inner nodes and both; the other ways in which data cannot be decoded come in lists of up to two. In `PagedReads` four rows at one, two or three per page
give a first, a middle and a last page, partly filled. The modules with proofs do not
depend on their bounds for what is proved.

Bounds that cut behaviour, all named constants: `MaxTx`, `MaxSig`, `MaxUpdates`, `MaxDeliveries`,
`MaxLen`, `MaxPiped`, `MaxOdd`, `MaxSent`, `MaxSlot`, `MaxScripted`, `Alone`, `MaxRows`, `MaxWrites`, `MaxOrphans` (counted up to it), and the
single `GrpcRestarts`. `MaxAttempts`, `MaxRetries`, `MaxPages`, `PageLimit`, `BatchLimit`, `Capacity`, `MaxLag`, `MaxDelay` and `MaxDepth` are
parameters of the code, made small.

Deadlock checking is off where the system may stop: `consume` returns, a run
ends, a chain is exhausted, a list is complete, a server has stopped, a walk is over.

### Fairness

* `AtlasDatasource`: every ready task runs, a pending connect or subscribe request is
  answered one way or the other, a timer fires (tokio and TCP time-outs). Nothing obliges a live stream to
  close, the clock to stop or the chain to publish. `GrantingSpec` adds, for the counterexample
  only, that a subscription asked for again and again is granted.
* `TransactionCrawler`: a node that is asked again and again answers in the end, a fetch ends one way
  or the other, a task that can take a step takes one; the pipeline reads its channel while it holds it
  and ends when it is cancelled. `WorkerCancelled` is strongly fair: `select!` polls its branches in a random order, so a
  cancelled token that is looked at again and again is seen. Nothing obliges the chain to confirm.
* `Pipeline`, `IndexerDaemon`: the loop's task is scheduled, and database and HTTP calls return
  (the pool has time-outs). Datasources need not send or return; signals need not come.
* `AccountSources`, `LogMetrics`: the same. A flush returns, and the steps of the loop are strongly fair because `select!` polls
  its ready branches in a random order, so that the flush's ticks cannot keep an update or the token waiting for ever.
* `SwapStream`: only the listener's timer, which ticks in the same `select!` as its receiver. No
  property relies on the enricher answering.
* `VolumeBackfill`: the script goes on once it has started; each of its awaits returns or fails.
* `EmaBackfill`: the same for the others; nobody waits for this script, and nothing is assumed of it.
* `StreamClients`: the stream of a client in `Readers` is polled again and again. Nobody else is obliged to read, and nobody to leave.
  Broadcasts may go on: `ReadersKeepUp` asks for the delivery of each message or a newer one, not of the newest.
* `PairStateCache`: every read of the chain comes back, one way or the other.

### What the violated runs show

1. `atlas_stall` (`lib.rs:393`): a transaction task whose subscribe call fails returns without
   cancelling the iteration. As the clock task stays healthy, `consume` waits for ever and the
   indexer receives nothing. Every other loss of the stream ends in the same stall:
   `WatchdogReconnects` holds only for the loss of the clock.
2. `event_store_rows` (`database.rs:74`): the conflict target of `swaps` contains the time of the
   insert, so a duplicate is a second row, against `database.rs:45`.

### Other behaviour the models made plain

* The EMA script's price of a row that still waits for its volume is announced as an `UPDATE` without one
  (`fillEmaPrices.ts:81`, against `002_add_swaps_notify_trigger.sql:6` and `db_listener.rs:88`, which take an `UPDATE` for the enriched row). The listener
  then gives up the row's place in the buffer and broadcasts it plain, so a client may see the plain row early and several times.
  `PlainComesFirst` therefore holds without this script only (`PlainOnceAndFirst`); with it `NeverBackToPlain` is what remains.
* Under `ProcessPending`, Ctrl-C cancels the very token whose branch leaves the loop, so pending
  updates may be left in the channel (`pipeline.rs:388`, against its lines 101-107). `RunProgresses`
  therefore lets a run end with updates unhandled.
* The enricher and the backfill update by `tx_sig` (`volumeEnricher.ts:272`, `backfillVolume.ts:246`):
  a swap may carry the volume computed from another swap of its transaction.
  `StreamAgreesWithTable` says only that clients see what the table says.
* A failed price is written as a volume of 0, which is not NULL: no later pass corrects it.
  Rows of unknown pools are fetched, skipped and counted again in every batch; the script therefore
  ends (`BackfillEnds`), but may stop short of rows it could fill, which is why
  `FillsWhatItCounts` (in `ReportsAreTrue`) demands that every pair is known. With `--limit`, batches are not cut to it.
* An output type that accepts null turns a mismatch of a schema into data (`schema.rs:126`), so
  `NoFalseMatch` excludes such pipes. `match_nodes` is greedy: after an `Any` the first instruction of the type
  decides although a later one may fit, so `NoFalseMiss` is stated for schemas in which that cannot matter (`Definite`).
* Decoders never look at the program an instruction calls: an instruction of another program in the same
  transaction whose discriminator and fields happen to fit is handed to the processor (`instructions/mod.rs:82`).
* The processing times of updates are recorded under other names than the ones `log-metrics` collects in
  `updates_processing_times`, so the list behind its summary stays empty; the histograms themselves are shown.
* A full channel costs the backfill the account it was about to send; the error is logged and the account not sent again (`datasources.rs:273`).
* The crawl is meant to run "from START_BLOCK to current" (`datasources.rs:215`, also 176 and 220). The signature handed over as `until` is the newest
  one at or before the start slot, and `until` is exclusive: the transactions of START_BLOCK up to that signature, which may be all of them, are not crawled.
  `StartsWithinBlock` therefore speaks of later and earlier blocks only.
* A closure of `simulatePairGetter` that threw before its first await (`pairSimulation.ts:112`) would run its `finally` before its entry is set (147): the rejection
  would stay in `inFlightRequests`, and answer every later request for that figure, until the API is restarted. Anchor's builder throws nothing there today.
* A second `INSERT` of a transaction takes the first one's place in the listener's buffer (`db_listener.rs:86`), and a transaction delivered late puts an older position in the place of a newer
  one (`database.rs:346`). The models do both; no property excludes them.
* An inserted row between COUNT and SELECT can end a walk one row early: `MissedAreLate` says that this is the only way.

## 4. Proofs

Eight modules hold the proofs: `AtlasDatasourceProofs`, `PipelineProofs` (runs, daemon, account sources, metrics),
`NestedInstructionsProofs`, `CrawlerProofs` (crawler and its start), `StreamClientsProofs`, `EventStoreProofs`, `SwapStreamProofs`
(stream and both backfill scripts) and `RestApiProofs` (pair state and listings). The theorems hold for every value of
the constants that satisfies the named assumptions of the modules: positive capacities, page sizes and attempt
limits; a depth of at least two; what is unusable or failing is among what exists; finitely many datasources and
swaps (`SwapsAssumption`), each with a transaction and a pair; positive group and
batch sizes (`SizesAssumption`); listings that the API has (`ListingsAssumption`); slots that do not fall from
one signature to the next (`SlotAssumption`); well-formed decoders with no type that could be taken for a failure (`CollectionAssumption`), schemas whose inner
nodes are earlier lists (`SchemasAssumption`) and whose names are unique (`NamesAssumption`). Of the bounds, `MaxScripted` and `Alone` may
have any value, so what is proved of the EMA script holds beside the other script and for any number of swaps and, as long as the volume backfill does not run, of sessions. `TasksAssumption`, which makes the datasources of a run the two account sources, is
used for `SourcesRefineRun` only. What each argument rests on:

* `AtlasDatasource`: `TypeOK`, `SingleActiveIteration`, `NoSilentGap`. None of them is inductive
  alone: the type of `attempts` needs that the budget is not used up before `consume` gives up
  (`BudgetLeft`), and `NoSilentGap` needs that a cursor lies between the start of its subscription and
  the chain's position (`CursorInRange`). `SingleActiveIteration` is inductive since the only step that clears a token
  starts from a control point at which every live supervisor's token is set.
* `Pipeline`: `TypeOK`, `CountersBalance`, `NothingLost`, `ClosedMeansDrained` and the refinement
  `RefinesInOrder`. `NothingLost` is inductive together with what `current` is at each control point (`FlightOK`). The counters disagree between
  the awaits: `CountersAt` says which of them already know the update on its way, control point by control point, and `CountersBalance`, all that is left of a dropped run, follows from it (`BalanceFollows`); `ClosedMeansDrained` follows since only an empty queue lets
  `Closed` happen; the refinement needs `NothingLost` to know that the update handled is the next.
* `IndexerDaemon`: `DaemonOK` (types; the delay is never zero and never above its limit), `BackoffMatches`, and that every run the daemon starts has the invariant of a run (`RunInvariance`, hence
  `RunsAreFaithful`): each step of the daemon is a step of the run, leaves it alone, or puts a fresh one in its place.
  `BackoffMatches` compares the delay with the recursive function `TwoTo`. That there is a function with that recurrence is shown by an
  argument from the least number up to which there is none, as no induction theorem can be instantiated.
* `AccountSources`: its behaviours are behaviours of `Pipeline` (`SourcesRefineRun`: each step of a source is a `Send`, a `SourceReturns` or
  a stutter), so all that is proved of runs holds of them. `TagsNeverAhead` needs that the three positions in the chain never pass its
  head and that the slot precedes the accounts once both are there (`ClaimInv`).
* `LogMetrics`: `SamplesAreShown` needs which histogram already has the time of the last update at each control point (`SamplesAt`), that showing and
  clearing move no sample in or out (`FlushKeeps`), and that between the two the loop is at its `select!` or its future was dropped (`MetricsInv`).
* `NestedInstructions`: `TypeOK`, `PointersLive`, `TreeMatchesHeights`, `NothingDropped`, `PathsArePlaces`. The
  invariant says what the pointers mean: `level[l]` is the last kept node of height `l` since
  anything as shallow (`LevelsAreNearest`), they are non-null on a prefix of the levels (`PrefixClosed`), and a pointer's generation
  is that of its vector. The subtle step is a push that moves a vector: any older pointer into that
  vector is at the level of the new node and is overwritten, deeper ones were cleared, and the moved nodes keep
  their own inner vectors. For the heights of a real call sequence the previous node's pointer is always there (`Spine`), so
  nothing is dropped. The paths are computed from a stack of counters and the tree from pointers; `StackCounts` is what joins
  them: the stack holds the path of the node each open level points to, and one less than its number of children in the
  counter below.
* `UpdateDispatch`: `HandedOverInOrder`, and again `PointersLive` and `PathsArePlaces`. The nodes a pipe has still to be called with are
  those whose parent it has been called with (`WalkInv`), and the walk therefore goes to node `v + 1` after node `v`. That putting the children of `v` in
  front keeps the stack ascending needs that everything below a node comes before what is beside it (`Nested`), which follows from
  `TreeMatchesHeights`. `HandedInv` says that the calls made are exactly the due ones up to there. Two lemmas carry
  the data: the enumeration `InOrder` of a finite set is complete and ascending (by counting: the rank of a member is an injection
  into as many numbers as there are members), and `DecodeWith` finds something exactly if the data are what
  `Understands` says (`DecodesWhatItUnderstands`).
* `TransactionPipe`: `UnnestedAsExecuted`, `NoFalseMatch`, `NoFalseMiss`, for any transaction, collection and schemas. The code's
  functions are recursive, and no induction theorem can be instantiated, so `Recursion` shows once, from a least
  counterexample, that a function exists whose value at a place follows from those at places of smaller rank; the ranks are the
  distance from the end of the list (the tree), the number of a list (schemas), and for `match_nodes` the list, then what is left of it and of the
  instructions (`MatchEnds`, which is also why it ends). `TransactionsAreLeveled` carries the shape of the tree to the pipes,
  where the callers of a node by height become its ancestors (`CallersStep`). Then `ParsedIsTop`: what is parsed below a node are the decodable
  instructions with no decodable caller in between, in order; `UnnestedRight` says what each part of the flat list holds. For matching,
  `FitsFrom` is what is still demanded of a map at a position: it changes by what an `Any`, a skip or a match changes
  (`FitsAfterAny`, `FitsAfterSkip`, `FitsAfterMatch`). A map found at a position has the names from there on and fits from there on (`OnlyTrue`; this needs that
  names are unique, `NamesAssumption`, as `merge_hashmaps` overwrites), and where a map fits something is found (`NoneMissed`; this needs that the
  flag `any` says that the node before is an `Any`, and `Definite` for the greedy match).
* `TransactionCrawler`: `TypeOK`, `ListedExactlyOnce` and the refinement `RefinesDelivery`. The cursor's invariant
  (`CursorInv`) says what has been listed at each control point: everything up to `until`, and from the cursor, or from the
  place reached in the page in hand, up to `recent`; nothing else. The refinement needs that a transaction is at one place only
  (`PlaceInv`: the signature channel, a request in flight, the hand of the fetcher, the transaction channel, the worker, given, gone), which
  rests on its having been listed at most once.
* `CrawlerStart`: `StartsWithinBlock`. The pages read so far lie above the start slot (`Passed`), the result is at or before it and everything the
  search could see above the result is after it (`Landed`); and the crawler's floor is the result. `StartRefinesCrawler` shows that a
  searched start is one of the starts the crawler allows, so its theorems hold of any start.
* `StreamClients`: `TypeOK`, `GapsAreBounded`. The invariant (`GapInv`) is that what lies between the last message delivered and the
  one read next is exactly `lag`, and at most `MaxLag` while the client is connected.
* `EventStore`: `TypeOK`, `PrefixPersisted`, `SettledIsComplete`, `LatestIsNewest`, for any chain. `PrefixPersisted` needs that
  what the delivery at work has passed is stored (`Walked`), that what a stored statement wrote is never taken away (`Kept`) and,
  for the type of `rows`, that a delivery adds one row per event at most (`Counted`). `SettledIsComplete` needs the same of the tables
  for the delivery at work (`PassedIsPresent`): a redelivery moves a row keyed by signature back to an earlier event, but its transaction is not
  settled meanwhile. `LatestIsNewest` is false in the middle of a delivery; the invariant (`NewestShown`) says that the only
  events newer than the position shown are those the delivery at work has yet to show.
* `SwapStream`, `VolumeBackfill`, `EmaBackfill`: `NeverBackToPlain`, `StreamAgreesWithTable`, `NoSwapVanishes`, `ReportsAreTrue`. One invariant,
  `StreamInv`, relates table, queue, buffer and broadcasts, and is kept by all four writers. It rests on the INSERT being the first thing the
  listener hears of a row (`InsertFirst`) and on a waiting row not having been broadcast (`WaitingUntold`). `StreamAgreesWithTable` is false while
  anything is queued; the invariant (`Agreement`) is that either the last the queue says of a row is what the table holds, or the queue is silent and the clients
  know it. That nothing plain follows a volume needs that what is known of a row without one is plain throughout (`OnlyPlain`) and that in the
  queue, too, nothing plain comes after a volume (`PlainAhead`). That the plain row comes once needs an `UPDATE` that always has a volume (`PlainInv`), which all
  writers but the EMA script keep. Of the two parts of `ReportsAreTrue`, `FillsWhatItCounts` needs a set of rows, as many as the script has counted as processed, that have
  their volume and are not in the batch (`Progress`): the counter alone does not say which rows those are, and other writers fill rows too;
  `PricedAndTold` needs that every row read of a pair that has not failed is in memory or priced (`Accounted`), and that a priced row
  was broadcast, is announced in the queue, or something was missed (`Announced`).
* `PairStateCache`: `OneSimulationPerGetter`, `AnswersAreRecent`. The simulations in flight are exactly those the table names, but for the entries of closures that threw at once (`OneRun`).
  The age of an answer is bounded only through the ages of all it is made of: a result is no older than its run (`FiguresAge`), a request's account and
  figures are as old as the waits behind it (`RequestsAge`), and the pair's entry may exceed its own age by `Lead` (`PairAge`); that a run starts
  no earlier than `SimTtl` after the last success (`RunsFollowCache`) bounds the cached figures in use.
* `PagedReads`: `NothingSlipsPast`, `MissedAreLate`, for any listing, limit and table. The core (`NonePassed`) is that of a row that
  stays and was not seen at least `offset` others sort before it, and `offset + limit` while a page without it is held: inserts and upserts
  only add to those. The rest is the order itself (keys are distinct where they are times or ids, `KeysApart`) and the sum of `total`
  and `late` (`Counted`).

Proved and not in any run: `CountersBalance`, `NothingLost`, `ClosedMeansDrained`,
`NothingDropped`, and the `TypeOK`s that are no part of a checked invariant.

Only model-checked: all liveness, which is out of the prover's reach. `NoFalseMiss` is proved for the schemas it is
stated for; for others the code does miss matches (section 3).

## 5. Plan

Done: the path from the chain to the tables, the stream, the gRPC clients, the caches and the
listings, the account datasources and the metrics, each with its runs; proofs of every invariant a run checks. What is left,
in order of importance:

1. The handlers of single figures in the REST API, where they share `SimpleCache` with the pair's state.
2. Pure operators checked against a reference: `taylorExp` and `computeEma`
   (`emaCalculator.ts`), the fee conversion of `upsert_swap_event` with its widths.

## 6. Not modelled, and why

The macros' parsing of their input, the schema macro and the test fixtures run at compile time or in tests. Account subscriptions of the websocket datasource are
never spawned, as no accounts are configured. The handlers of the REST API that answer a single figure are one query or one cached call; the user-position
getter shares its scheme with the pair getters that are modelled. The Prometheus exporter passes samples on. Continuous
aggregates and retention are TimescaleDB configuration. The conversions of transaction metadata (but for data that cannot be
read) and the JSON form of a schema's output (but for null) are copies of data. The values of columns, prices and
amounts are abstracted to the event they come from, so arithmetic (the EMA, the fee conversion) is not covered; a stack
height above 5, which fails an assertion in the builder, is outside the inputs since the runtime does not produce one.
