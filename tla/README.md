# ether-state: TLA+ models, checks and proofs

`ether-state` is a TypeScript library that reads EVM chains over several RPC
endpoints, follows the live chain, and builds durable indexes from it. This
directory holds TLA+ models of its core, the TLC configurations that check them
and proofs for TLAPS. The source of truth is the code under `src/src/`; every
definition that models code is listed with its lines in `PROJECT.json`.

## 1. The system

| component | source | state | operations |
|---|---|---|---|
| Live chain acquisition | `rpc/live-chain.ts`, `rpc/client.ts` | observed head, cursor, `retained` (128 blocks), `ready`, `completedBlocks` | one round: wait for a head, load up to 8 blocks, check parents, extend or search the common ancestor |
| Durable indexer | `indexer/index.ts`, `storage.ts`, `pglite.ts`, `libsql.ts`, `d1.ts` | checkpoint (network, block, finalized anchor), recent blocks, rows | sync, live run, recovery with rollback |
| Reusable model | `indexer/model.ts` | memory of the instance: coverage, live rows, revision, status | capture history, follow the live chain, recover from reverts, publish projections |
| Model stores | `indexer/model-store.ts`, `model-postgres.ts`, `model-pglite.ts` | blocks, rows, coverage ranges, writer claim | claim, commit, invalidate, retain, read |
| Batch queue, request scheduler | `rpc/transport/queue.ts` | pending entries, active batch, wake signal; permits and rate windows | request, drain, abandon; run under permits |
| Query coordinator | `rpc/query.ts` | in-flight queries, completed results | get (start, join, answer from cache), cancel |
| Reads with hedging | `rpc/client.ts` `fetchPhysical`, `rpc/recovery.ts` | attempts, tried/excluded/busy endpoints | two lanes, rotate, stop, time out |
| WebSocket transport | `rpc/transport/ws.ts` | pending requests, generation, subscriptions | request, dispatch, reconnect |
| HTTP batcher | `rpc/transport/http.ts` | batch limit, unsupported-until time | send, split, resend |
| Multicall, history, watches | `rpc/multicall.ts`, `rpc/history.ts`, `rpc/watch.ts` | call groups; page order; last value | group and split calls; split ranges; retry watches |
| Head discovery, endpoint selection | `rpc/client.ts` | latest head and whether a notification set it; each endpoint's status and score | observe a notification or a poll; probe, select again |
| Lifetime, viem adapter | `internal/lifetime.ts`, `viem.ts` | closed flag; retained logs | close, run, watch; log subscriptions |

How they interact. The client's head watchers call `observe`, which feeds the
live chain worker. The worker reads blocks and headers with `fetchPhysical`,
which runs each attempt through the scheduler and the transports' queues. The
worker's updates pass the completed-block cache and a shared stream to models,
watches and the viem adapter. User reads pass the completed-block cache, the
query coordinator and then `fetchPhysical`. The durable indexer and the models
write to their stores only in transactions.

The hard behaviours are interleavings: the chain changes between two reads of
one round; endpoints disagree; a read fails after its neighbours succeeded; a
caller leaves while its request is in a batch; a process stops between a commit
and its acknowledgement; history is written while the live chain reverts.

### What makes each part correct, and what is hard about it

- **Live chain.** Consumers hold one linked chain, whatever the endpoints answer
  between two reads of a round; every revert goes to a block each consumer has;
  the completed-block cache never mixes forks; once the endpoints agree, the
  worker reaches their block. Hard: loads of one round from different forks, the
  header read that confirms or refutes a reorg later than the loads, failed
  rounds that keep loaded blocks, and state that outlives one worker.
- **Durable indexer.** The store is one linked chain from the start block to
  its checkpoint after every transaction, acknowledged or not; finalized blocks
  stay; the index catches up. Hard: recoveries that compare height by height
  while the chain moves, lost acknowledgements, a forced recovery in the middle
  of a window, an anchor that is read later than the block it is stored with.
- **Reusable model and its stores.** Coverage says exactly which blocks are
  scanned and valid; nothing fetched before a reorg is committed after it; a
  closed partition is published once, complete. Hard: history, live groups,
  recovery and retention share one store and one lock, and do their reads
  outside it.
- **Batch queue and scheduler.** No request is stranded, a batch is abandoned
  exactly when nobody wants it, the limits hold, and permits come back. Hard:
  callers that leave one by one, requests that arrive during a batch, a wake
  that belongs to an earlier window.
- **Query coordinator.** One read per key, cancelled by its last user and by
  nobody else, its entry removed by itself only. Hard: a new read of the key
  while the cancelled one is still ending.
- **Reads with hedging.** Each endpoint is used by one lane at a time, attempts
  stay within the budget, the first success wins, and the caller sees a typed
  failure. Hard: two lanes that share their counters.
- **WebSocket transport.** Each request is answered once and no later than its
  timeout, over disconnections; a subscription belongs to one connection.
- **HTTP batcher, multicall, history, watches, viem adapter, lifetime.** Each
  request gets its own result although batches are split, answered in part or
  re-sent; pages come in order without gaps; a watch shows its newest value; the
  removed logs of a revert are those that were shown; a close ends what runs.

## 2. The modules

The modules keep one idea each and are written to be proved about: constants
with a named assumption, one action per operation, properties as conjunctions
of named parts, no `RECURSIVE` operator.

| module | built on | models | abstract specification or reference |
|---|---|---|---|
| `Ordering` | | a set in the order of a key, one map over another | proved |
| `BlockTree` | | blocks, parents and forks | lemmas about `Path`, proved |
| `ChainView` | `BlockTree` | **the abstract specification** of a holder of one linked chain: it applies a child, reverts to a block it holds, or starts over | |
| `LiveChain` | `BlockTree` | the live chain worker, its cache, a consumer | refines `ChainView`; proved, with its cache |
| `DurableIndexer` | `BlockTree` | the indexer and its store | refines `ChainView`; proved, with the kept finalized blocks |
| `BatchQueue` | | the queue behind every batch | proved |
| `BatchRun`, `HttpBatcher`, `AbiCodec`, `Multicall` | `BatchQueue` | what such a queue runs | each answer is the one to its request, proved for both |
| `BatchServices` | `HttpBatcher`, `Multicall` | the queue composed with one of the two | the queue's properties; proved |
| `QueryCoordinator` | | shared reads | proved |
| `ClientReads` | `QueryCoordinator` | reads and calls of a client, with its caches and head, and the workers that fill them | an answer from a cache is what the head and the running worker told, as far as they told; proved |
| `CoverageRanges` | | range arithmetic | sets of heights; proved |
| `ModelStore`, `ModelPartitions` | `BlockTree`, `CoverageRanges` | the store of a model; what one commit does | |
| `ModelInstance` | `ModelPartitions` | a running model: live, recovery, history, restart | values recomputed from the chain; the state row, the consumer and catching up proved |
| `HistoryFetch` | `CoverageRanges` | the pages and chunks of a history step | the set of heights committed and valid; proved |
| `RequestScheduler` | | admission, slots, permits, rates | what is counted is what is held; proved |
| `Reads` | `RequestScheduler` | lanes, attempts, failures, transactions, selection, close | proved |
| `WsTransport` | | one WebSocket connection and a subscription | |
| `Heads` | `WsTransport` | the head of a client and a watch over it | |

A module is composed with the module it extends where the code calls it: an
HTTP batcher and a multicall group are what a batch queue runs, reads hold the
scheduler's permits, a subscription feeds the head, a model's updates are what
`ChainView` promises, and the history step uses the coverage arithmetic. A run
is one question about such a composition and not one per file.

The proofs are in modules of their own, `*Proofs`, each of which extends the
module it is about: `BatchServicesProofs`, `ClientReadsProofs` and
`LiveChainProofs` also prove what the module below theirs promises
(`BatchQueue`, `QueryCoordinator`, the cache of `LiveChain`). `SharedLemmas`
holds what the others share.

`Ordering` is where the models sort and overlay: what `SetToSortSeq` and `@@` of
the library compute, said with cardinalities and functions only, which the
provers can expand (the library's definitions fold, or choose a sequence).

Left for later, in this order: theorems on `StoreIsCanonical`, `OpenIsHonest` and
`ClosesWhole` of `ModelInstance`, its liveness, the log subscription of the viem
adapter as one more consumer of `ChainView`, WebSocket endpoints in `Reads`.

## 3. The modules and the code

### BlockTree and ChainView

A block is a model value with a `Number` and a `Parent`; `Path[b]` is the chain
that ends in `b`. An endpoint is always at the tip of some path, and may move to
any other block: growth, a reorg and lag are the same step. `ChainView` is what
the library promises a consumer of `watchChain()`.

### LiveChain (`rpc/live-chain.ts`, `rpc/client.ts`)

| model | code |
|---|---|
| `head`, `Observe` | `observe` (client.ts:1040): the head never moves to a lower height, a new hash at the same height replaces it |
| `cursor`, `retained`, `ready` | the closure of `liveChain` |
| `Await`, `Load`, `LoadFails` | one iteration of the unfold: wait for a head, load up to `Window` blocks concurrently; a failure ends the round and keeps `ready` |
| `SameBlock`, `Extend`, `Break` | the checks after the loads |
| `HeaderDiffers`, `Reload`, `Revert`, `HeaderFails`, `NoAncestor` | the search for the common ancestor, one header read per step |
| `pending`, `Deliver` | the updates handed downstream one by one; `chainUpdates` changes the cache with each |
| `Restart` | the last subscriber of the shared stream leaves and another comes |

Each read is a step of its own. One block load stands for the block, its
receipts and its logs, which the code reads by the block's hash.

### DurableIndexer (`indexer/index.ts` and the stores)

`Begin` is the start of a sync (load the checkpoint, `recover`). `Anchor*`,
`Checkpoint*`, `Stored*`, `StartOver`, `TooDeep`, `Rollback` are the recovery;
`ReadTarget`, `Load`, `Mismatch`, `ReadAnchor`, `Commit` the replay. `Fault` and
`WriteFails` fail the sync at any read or transaction: the transaction may have
happened (a lost acknowledgement) or not. `attempts` counts the retries of
`run`. `Restart` stops the process at any point; `blocks` and `saved` are what a
database keeps.

### BatchQueue (`rpc/transport/queue.ts`)

A step is what a fiber does between two suspensions. Entries are named by their
callers; `arrival` is the insertion order of the `pending` set. `drain` is where
the drain fiber is: `off`, `forked` and not yet begun, in a `window`, or in a
`batch`. `Request`, `Resume` and `Leave` are `request()` with its `ensuring`;
`Begin`, `Collect` and the three ends of a batch are `drain`; `Close` is the end
of its scope.

### QueryCoordinator (`rpc/query.ts`)

A query is named by the caller that started it. `Hit`, `Join` and `Start` are the
three ways through `get`; `LoadSucceeds`, `LoadFails` and `LoadStops` the end of
its fiber; `Resume` and `Leave` the two ways out, both through `Release`; `Gone`
is the end of the wait for a cancelled fiber.

### BatchServices (`rpc/transport/http.ts`, `rpc/multicall.ts`)

`BatchRun` is what both services share: `todo`, the requests the run has still to
send, in pieces, and `answer`, what it found for each caller. A batch ends either
by a step of `BatchQueue` or when the run has nothing left to send; the queue's
`BatchAnswers` then delivers exactly what the run found.

`HttpBatcher`: `SendsSingly`, `Splits`, `Answered_`, `Learns`, `Rejected`,
`Forgives` and `EnvelopeFails` are the branches of `send`. The endpoint answers
an envelope with any list of responses to its requests, so they come in any
order, twice or not at all. `Matches` finds them by id; a request without exactly
one response is sent again alone.

`Multicall`: `Unique` and `Index` share one read among equal ones; `NoContract`,
`Aggregates`, `Reverts`, `Singles`, `ReadFails` are the branches of `runUnique`.
`AbiCodec` models `encodeAggregate3`, `decodeAggregate3` and the contract's side
byte by byte, on words of `WordBytes` bytes, so that an offset counted from the
wrong place reads another call's bytes. A response arrives whole, without its
last word, or not at all.

### ClientReads (`rpc/client.ts`)

`Applies`, `Reverts` change the completed blocks with each update of the chain;
`Restarts` ends the worker with its last subscriber, and `Starts` gives the next
one the head to start at: `told` is what the running worker retains, `next` the
height it goes on at, and `blocks`, the completed blocks, stay with the client.
The rounds of a worker are those of `LiveChain`; here a block is read from any
chain seen so far, if it continues the one before, and nothing happens when a
fork has no ancestor. `Observes` is `observe`. `FromBlocks` and `FromQueries` are the two ways through
`fetch`; `Keeps` says which results may be kept. `Calls` is `call` up to its place
in a multicall group: `GetBlock` resolves the head, `Named` the block the call is
bound to. `given` is the answer a step gives without asking an endpoint.
Endpoints may be behind, so a read is answered from any chain seen so far.

### The reusable model (`indexer/model.ts`, `indexer/model-store.ts`)

`CoverageRanges` has the sorted ranges of the code and, beside each operation,
what it means for the set of heights. `ModelStore` has `commit`, `invalidate`
and `retain` of the memory store, on sets of heights. `ModelPartitions` is what one
commit decides about each time partition (`Closes`, `Complete`, `Verdict`) and
what a start restores. `ModelInstance` is the instance:

| model | code |
|---|---|
| `Take`, `Skip`, `ReadMissing`, `CommitMissing`, `CommitItem`, `LiveGroup` | the live worker: groups of a drained queue, gap reads, `liveBatch` |
| `Conflict`, `Recover`, `ReadLatest`, `Search`, `Invalidated`, `Reseed`, `Rebuild` | `recover`, with the reads outside the lock as steps of their own |
| `NextRange`, `HistoryPick`, `HistoryLogs`, `HistoryHeaders`, `HistoryCommit` | `historyStep`, which reads logs and headers of a range and commits if the revision is still the same |
| `ApplyRetention` | retention by blocks |
| `Run`, `StartUp`, `StartFails`, `Restart`, `SourceFails`, `SeedFails` | `run`, resume from durable rows, failures and their retry |
| `Offer`, `FeedFirst`, `FeedNext`, `FeedRevert` | the updates of `watchLogUpdates`, as `ChainView` allows them |
| `seen` | a consumer that reads, then applies every upsert and reset |

The state projection's value is the sequence of logs folded into it and a
partition's value the set of its logs: any reducer is a function of these.
Retention drops rows without a notice, and the start may drop rows whose block
is gone without a reset; the consumer is one that reads when a run comes up.
`missed` in the store is what no store of the code has: the blocks of heights
marked as scanned whose log the scan did not read (`PassedOver`, section 4). A
batch stored of one of them is without its log, and so are the rows made of it.

### HistoryFetch (`rpc/history.ts`, `indexer/model.ts` `historyStep`, `fetchRange`)

`Fetch` cuts a missing range into pages, `Answered` and `TooMany` are the two
answers of a page request, `Halves` the split; `ready` holds the pages that came
before their turn. `CommitChunk` commits a page's blocks up to the next cut, after
`PerChunk` blocks with logs. `LiveCommit`, `Revert` and `Retain` change the coverage
while a fetch is under way.

### Reads (`rpc/client.ts`, `rpc/recovery.ts`, `rpc/transport/queue.ts`)

`stage[r]` is what a call of the scheduler waits for; a request holds a permit
while its stage is past the one that waits for it. In `Reads` a request is a lane
of a read or the sending of a transaction to one endpoint. `Pick`, `Resume`,
`GiveUp` are a lane's loop in `fetchPhysical`; `Answer`, `Failed` with the policy of
`recovery.ts`, `RateLimited` the ends of an attempt; `Cancel` what interrupts the
lanes. `role` is the status of an endpoint, `ProbesEnd` the selection after a
probe; `FoundUnsupported` is what a read outside of `Read` does to an endpoint all
reads share. Any endpoint of the class the ranking prefers may be picked.

### WsTransport and Heads (`rpc/transport/ws.ts`, `rpc/client.ts`, `rpc/watch.ts`)

`WsTransport` is one endpoint with its server: `connection`, the requests that
wait, the messages in order in `inbox`, and `watchSubscription` as `stream`. A
notification is dispatched to a stream that listens and is lost otherwise. In
`Heads`, `Note` and `PollEnds` are the two sources of `Observe`; `WatchTakes`,
`CallAnswers`, `CallFails`, `CallReverts` are `callChanges` with
`makeWatchedState`.

## 4. The runs

| run | question | bounds |
|---|---|---|
| `live_chain` | safety of worker, cache and consumers, the refinement of `ChainView`, and that the worker reaches the endpoints' block once they agree | 3 forks of height 4, 2 endpoints, window 2, 3 retained, 3 disturbances, 1 restart |
| `live_chain_first_block` | the same for a reorg of the first block: **violated** | 1 endpoint, height 3, 2 disturbances |
| `indexer` | safety of the store and the refinement of `ChainView` | 3 forks of height 3, 2 endpoints, recovery depth 2, window 2, 1 retry, 2 disturbances, 1 restart, all finality modes |
| `indexer_one_endpoint` | finalized blocks stay; the index catches up | one endpoint, 1 confirmation, 3 retries, 4 disturbances, 1 restart |
| `indexer_conflict` | an anchor of another fork fails closed: **violated** | 1 endpoint, height 4, 4 disturbances |
| `batch_queue` | the queue under its two services: nobody is stranded, batches are cancelled by the last caller only, every answer is the one to its request | 4 requests, 3 fill a batch, 2 are equal, one exceeds the weight; words of 2 bytes |
| `queries` | the coordinator under the client: one read per key, and an answer from a cache is what the head and the running worker told | 2 callers, 4 keys, 1 kept result, 2 completed blocks, a chain that grows and forks above its first block, any number of workers |
| `model` | the values of a model are those of its block; store, rows and a consumer agree with the chain | 2 forks of 5 heights that part after height 1, partitions of 2 s, 3 plans, 2 moves, 1 failure or restart |
| `model_closed` | closed rows are those of the chain after a reorg: **violated** | the same |
| `history` | coverage is exact, pages tile their range, everything is scanned in the end | 6 heights, 4 with logs, pages of 2, 2 at a time, chunks of 1 block, both directions, 2 failures, reverts or retentions |
| `reads` | permits come back, foreground requests find room, every known peer is tried, every call ends | a background read with 2 lanes and a transaction, 2 endpoints (one found late, which other reads may find unsupported), capacity 2, 1 permit, 1 request a second |
| `heads` | a subscription is made again, and head and watch reach the chain's block | 1 WebSocket endpoint, 2 forks, 2 heights, 2 chain changes, 2 failures |

Why these bounds are enough. Three forks give a reorg of every depth from one
block to beyond the retained blocks, and a fork of a fork; two heights per
window give a break inside a window and at its end; retention 3 below height 4
makes trimming happen. A disturbance is one chain change or one failure, so
three of them give a reorg, a second one during the recovery, and a failure.
Two endpoints disagree in every way that matters to a reader which asks any of
them. Weights at, below and above the limit, and one request more than the
capacity, reach each limit of the queue; two equal requests share one read. A
caller may leave and another come while a cancelled read is still ending; three
callers are covered by the proofs. Reads by number are of height 2, where the
chain forks: a worker tells one block and then reverts it, and the next worker
starts at the fork's height 3 over the block that the first one left. In `model`, the faster fork's second block
still belongs to the partition that the other fork's second block closes, so
that a reorg moves the ends of partitions; the other fork has no log at that
height, so that a range of three heights has the same logs on both; the plans are history backward and
forward (with retention), and a checkpoint start without history. In `history` a
page splits once, and a window of two pages is answered in either order. One
permit and one request a second make every wait of the scheduler happen; two
lanes and two endpoints make a lane find every endpoint taken. Two failures give
a connection that ends during the repair of another.
No run constrains states by anything but these constants; `CHECK_DEADLOCK` is
off since the bounded environment stops.

The bounds of the environment, by name: `MaxDisturbances`, `MaxRestarts`
(`LiveChain`, `DurableIndexer`); `MaxMoves`, `MaxTroubles`, `MaxReruns`, `Queue`
(`ModelInstance`); `MaxTroubles`, `Top` (`HistoryFetch`); `MaxFaults`, `MaxNumber`,
`MaxTips` (`Heads`, whose chain never moves to a lower number, and whose request
ids are used again when nothing refers to them); `Foreign` (`Reads`: the endpoints
that reads outside of the model find unsupported, one of the two); callers come in the order of
their numbers (`BatchRun.Comes`, `ClientReads`), which is no restriction for
callers that are alike and one for the four of `batch_queue`.

Which states `model` excludes: `StoreIsCanonical` and `CaughtUp` speak of settled
states, where the feed is at its end and nothing is under way. The plan that
starts at a checkpoint and has history is left out, see below. `OpenIsHonest` and
`ClosesWhole` speak of stored blocks that lie on one chain, since between the feed's
revert and the recovery they may not. The properties of values and rows except
the logs in `missed`, and no others: those the code cannot know of.
Which interleavings it excludes: `Search` looks for the ancestor, `StartUp` checks
the row and the coverage, and a history range gets its headers, each with several
reads of the chain in one step, so that the chain does not move between them.

Which states the others exclude: `Convergence` speaks of endpoints whose block
reaches the observed head, since the head does not fall to a shorter chain;
`CatchesUp` of behaviours in which failures do not use up the repetitions of a
sync (one disturbance is the chain's move, and three are left); and with one
slot (`Concurrency` 1), the half of `ForegroundRoom` about slots says nothing in the
run `reads`, where it rests on its proof.

### Fairness

- `LiveChain`: the worker's round, delivery and the head watchers are weakly
  fair, since fibers keep running (`recoverLive` repeats every failed round,
  watchers poll). Chain changes, faults and restarts are not forced.
- `DurableIndexer`: `Sync` is weakly fair, since `run` syncs on every head and
  tick. Retries are bounded as in the code.
- `BatchServices`: windows end by a timer, and envelopes and reads by the
  request's deadline; a caller whose result is there resumes.
- `ClientReads`: a read ends, by its budget at the latest, and its caller
  returns.
- `HistoryFetch`: the history worker goes on and a request ends in one way or
  another; failures are bounded.
- `Reads`: only that something of what is under way happens while something can:
  a ready fiber runs, a timer rings. A call ends without its deadline, its caller
  or a close.
- `Heads`: connections are made again, the server answers, polls follow each
  other, the watch calls. Failures are bounded.

Nothing else is fair; no caller is forced to leave. `ModelInstance` is checked
without fairness: `CaughtUp` says what holds when it has nothing left to do.

### What the violations show

1. `live_chain_first_block`: `retained` starts at the first block the worker
   acquired. A reorg below it, one block deep when it comes first, leaves no
   ancestor; each round fails and is repeated, without an update or an error,
   where `docs/reusable-indexer.md` l.165 promises an explicit failure.
2. `indexer_conflict`: the finalized block read for a commit replaces the stored
   anchor without a comparison, so a conflict between the load of a block and
   that read is stored and not reported.
3. `model_closed`: `invalidate` takes the time of the stored block at or below the
   first orphan as the fork time, so a partition that ended between the
   ancestor and the orphan keeps its closed row.

### What else the models showed

These were met while modelling and are stated here, not checked by a run:

- `completedBlocks` outlives the worker whose reverts prune it
  (`client.ts:664-678`). After a restart of the worker it can hold blocks of a fork
  that was left while no worker ran, and a read by height (l.1101) is answered
  with one, until 128 newer blocks push it out: the new worker starts at the head,
  and never reverts below its first block. `CacheOfOneWorker` is therefore said of
  the first worker only, and `AtOnceIsCurrent` bounds the case, which the run
  `queries` reaches: such a block answers only a height under all that the running
  worker has told, and stood at that height once.
- `recover` takes a null answer for another block (`indexer/index.ts:439`), so
  an endpoint that is behind rolls stored blocks back where no fork exists. They
  are indexed again.
- `commit` merges live blocks into `partitionBatches` by height
  (`model.ts:396`). With a checkpoint start and history, blocks that history read
  from one fork can be merged with live ones of another, and a row then closes
  with both.
- `plan.retention` with both limits: `docs/reusable-indexer.md` l.113 says that
  "the runtime keeps the wider range"; `model.ts:296-311` takes the higher of the
  two lower bounds, which is the narrower one.
- One chunk of an HTTP batch that fails also fails the answered requests of the
  other chunks (`http.ts:138`, `EnvelopeFails`).
- "Do not exhaust four attempts while a verified peer remains untried"
  (`client.ts:1154`) holds of the endpoints known when the read starts, and not
  always of these: an endpoint that the read has tried and another read then
  finds unsupported no longer counts in `maxAttempts` (l.1149-1156), while the
  attempt on it does, so that with a third endpoint, known meanwhile, a peer can
  be left untried. It takes two reads. `TriedEveryPeer` speaks of the reads whose
  own failures told them of every endpoint they tried and can try no more.
- A history step reads the logs of a range first and the headers of its ends and
  of the blocks with logs later (`model.ts:232`), and compares the logs it has
  with these headers and the last header with the chain (l.239, 677). A reorg in
  between goes unnoticed when the range has no log of the old fork above the
  common ancestor: it is then marked as scanned without the logs of the new one,
  and a partition can close without them. The stored headers are those of the
  new fork, so a recovery that looks for its ancestor among them, or a process
  that starts anew, finds nothing wrong, and `missingRange` takes the heights for
  covered. Only a revert of the feed to a block below drops them. The model keeps
  these blocks in `missed`.
- `run()` on an instance whose run failed keeps the open rows of that run
  (`model.ts:684-702` clears none of its maps). `read()` hides those whose end the
  applied block has passed (`model.ts:847`), but a reset publishes all of them
  (`model.ts:502`), so a consumer then holds rows that `read()` does not return.
  With `MaxReruns` 1 the model reaches it; the run `model` has `MaxReruns` 0, and the
  theorem about `WatchAgreesWithRead` says where the condition is needed.
- With `equals`, the comparison with the last value outlives a failure
  (`watch.ts:48`): the same value read again does not end the Retrying state.

## 5. The proofs

For every block tree, set of endpoints, callers, keys, weights and limits that
satisfy the modules' named assumptions (finite sets, positive windows, parents
one below their children), and without the bounds of the runs:

- **`LiveChainProofs`**: types, `RecoveryWindow`, and the refinement of
  `ChainView`. `RecoveryWindow` speaks of the moments with nothing pending, so it
  is not inductive. `CursorInv` ties the cursor to the retained blocks,
  `RoundInv` what a round has loaded to its range, and `DeliveryInv` says what is
  pending: either a linked run of blocks from the cursor down to the view
  (`PendingChain`, `ViewBelow`, `RetainedOnTop`), or one revert to the cursor
  (`Reverting`). Each delivery takes one block off that run.
  The cache: `CacheCoversRetained` and `CacheOfOneWorker`. The head
  bounds the worker and the cache (`HeadInv`), also where another worker left
  blocks in it; the first round loads one block, and none cached is above it
  (`FirstRound`); the retained heights have no gap (`DenseInv`); and the cache has
  every retained block but those still to be delivered (`CoverInv`). With one
  worker the cache is a part of the consumers' view (`Mirrors`), which stays one
  chain (`Linked`).
- **`DurableIndexerProofs`**: types, `CheckpointIsSaved`, `StoredChain`, the
  refinement of `ChainView` and `FinalizedKept`. `RecoveryInv` adds that a recovery only writes an
  ancestor it found among the recent blocks, or starts over with the start block
  among them; `ReplayInv` that a replay goes on right after the checkpoint. With
  `RecentIsTop` (recent blocks are the newest ones) a rollback keeps a chain.
  `FinalizedKept` is proved where a run checks it, for one endpoint that keeps its
  finalized blocks (`Endpoint = {e}`, `~MayConflict`), of any tree, depth and window.
  It is about a step and needs `FinalInv`: the stored anchor, and the one about to
  be stored, are on the chain of e's finalized block, so that no height of
  `Path[saved.anchor]` can be answered with another block; hence the walk has
  not yet compared, or has found, every recent block the anchor covers.
- **`BatchServicesProofs`**, the queue: `NobodyStranded`, `AbandonedIffUnwanted`, `NoMissing`.
  `ArrivalInv` says that arrivals are distinct, `ActiveInv` that an active entry
  without a result is pending. `TakeNonempty` shows that a batch takes at least
  the oldest entry, whatever its weight, so a drain with pending entries always
  has a next batch. `FullWakes` and `OldestFirst` follow on top of it: they are
  inductive together (`Limits`), since a window ends with the request that fills
  it and a batch is a prefix of the order of arrival. The weight of a batch is
  the cardinality of a set of units.
  Its services: every step of the HTTP batcher and of multicall is a
  step of `BatchQueue` or leaves it alone, whatever the endpoint answers, so the
  queue's invariants hold under both. For the HTTP batcher also `AnswersReach` and
  `OwnAnswer`: `HttpInv` says that each request is at most once in what is still to be
  sent, over all pieces (`Once`), that none of those the endpoint has answered is
  (`Avoids`), and that a value found is the request's own.
  `OwnAnswer` of multicall is proved down to the bytes, for words of any width.
  `Quotients` are the digits of a number, and a word that lies at a place is read
  there as its number (`ReadWordIs`); `Lies` composes over joined sequences, so the
  places of heads, offsets, lengths and bytes in an encoded array are sums
  (`ArrayLies`), and the decoder finds them again (`ArrayIsRead`). Hence the contract
  receives the calls that were sent (`CallsArrive`), the decoded results are those
  it returned (`ResultsArrive`), and without its last word an aggregate does not
  decode (`CutFails`), since its last result is the block and ends with the data.
  `MulticallInv` adds that every entry of the batch has an equal read in the group.
  `NumbersAssumption` is what the proof needs of the numbers: the target, the block
  and the length of every message fit into a word, which 32 bytes give, and no
  call of a group goes to the aggregating contract (`rpc/multicall.ts:125`). A length
  is assumed of what is sent only; a response is not longer (`ResponseHolds`).
- **`ClientReadsProofs`**, the coordinator: `SharedRead`, `NoOrphanRead`, `NoStrayInterrupt`.
  `Counted` says that `users` is the number of callers that wait for the query,
  `Owned` that a caller only waits for a query that was started. `CacheInv` (the
  kept results fit, each key once, and no kept key is read) is inductive with it.
  The client: the coordinator's invariants under it, and `AtOnceIsCurrent`, for
  any chain that grows and forks and any number of workers. `Knows` says that the
  completed blocks are those of the running worker and, under them, blocks that
  once stood there (`Held`, `BlocksCanonical`), that its head is on a chain the
  endpoints have been at, and that what the coordinator keeps are results of
  blocks named by their hash. `Held` needs that no block is above the head, which
  never falls, nor above the height at which a worker goes on: so both maps are
  trimmed alike from the worker's lowest block on (`TrimmedAlike`).
- **`ReadsProofs`**: `GivenBack`, `ForegroundRoom` and `TriedEveryPeer`, for any number
  of reads, transactions, endpoints and places. The counters are cardinalities
  of sets of requests (`Counted`), a lane outside the scheduler holds nothing in
  it (`LaneInv`), and a read has made one attempt for each endpoint it tried, until
  it has tried all it found at its start (`TriedInv`): as long as one of those is
  left, a lane takes an endpoint that was not tried.
- **`ModelInstanceProofs`**, for every plan, tree, window and number of moves,
  failures, restarts and repeated runs. `StateIsItsBlock`: `StateInv` adds that the
  state row of an instance that is up is the one of the applied block, so that a
  live run of blocks that extends the applied block extends the row's logs by
  exactly its own; `SortedJoin` says that the logs in chain order are then one
  sequence after the other. `WatchAgreesWithRead`, for plans without retention
  and before a failed instance is run again: `Holds` says that every open row is
  ahead of the applied block, is not completed, and has the batches it was made
  of in the cache; the consumer has these rows and the closed ones. A commit
  then looks at every open row it passes and closes, withdraws or renews it:
  none is left that `read()` hides and the consumer shows. Both conditions are
  needed: retention forgets the cache of an open partition without a notice,
  and a second `run()` meets the open rows of the first (section 4). The run
  `model` checks the part of `WatchAgreesWithRead` that holds with retention.
  `CaughtUp`: what the instance still has to do ends with the feed's newest block.
  `Due` is the block of the last update that is queued, or else in the worker's hands,
  or else the one a recovery goes to, and `FollowInv` says that it is the feed's;
  when nothing is due, the applied block `Meets` the feed's newest one: it is that
  block, or a higher one, or the chain has left that block and the feed will say so.
  Higher ones are possible, because a recovery asks the endpoints for the latest
  block and may be ahead of the feed. `EverInv` bounds them: every block the feed
  or the instance speaks of is one the chain has had, and none of those is above
  the tip. A feed that has delivered the tip therefore leaves no block above it,
  and none at its height but itself, as long as the chain has not come back to a
  block it left, which is the hypothesis that `CaughtUp` itself states.
- **`HistoryFetchProofs`**. The range arithmetic of `CoverageRanges`, for ranges of
  any number and length: `MergeIsExact`, `DropIsExact`, `KeepIsExact`,
  `MissingIsExact` and `MissingForwardIsExact` say that the operations on sorted ranges
  keep their one form and compute what their definitions on sets of heights do.
  Then `CoverageExact` and `PagesTile`, for any sizes of pages, windows and chunks and
  any number of failures, reverts and retentions. Neither is inductive. `PagesTile` speaks
  of what is released; the pages that wait are those from the cursor to the end of
  the range: they lie there (`Within`), every place is in one (`Filled`), no place
  is in two (`Separate`). An answer moves pages that begin at the cursor from the
  waiting ones to the chunks, a split puts two halves in the place of one, and a
  commit takes the first chunk off a tiled sequence (`Tiled`). `Fresh` says that
  nothing of the rest of the range is scanned while the revision is the fetch's: live
  commits are above the applied block, and a revert changes the revision. Both
  directions are one proof, over places (`Pos`) that are heights forward and
  their negatives backward. `IInv` was checked by TLC before it was proved.
- **`SharedLemmas`**: the lemmas these rest on. `Path` is a
  recursive function; `PathStep` shows its equation by a witness (`Ancestors`, which
  is not recursive), and `AllNaturals` is induction over the natural numbers with
  a set in the place of the predicate. From these: a chain is finite, has one
  block at a height, and contains the chain of each of its blocks. `Ordering`'s
  `SortedBy` is shown to list each element once and in order. `Recursion` gives the
  equation of any function that is defined by recursion on 0..n, from a step
  given as a function; the merge of ranges, the two searches, the release of
  pages, the digits of a word and joined sequences are such functions.

Only model-checked: liveness (`Convergence`, `CatchesUp`, `Completes`, `Settles`,
`HearsAgain`, `WatchCatchesUp`, both `Answered`), which needs fairness and is out
of TLAPS's reach here; `StoreIsCanonical` of `ModelInstance`, which needs what a
settled instance knows of the feed's whole past, height by height; its `OpenIsHonest` and `ClosesWhole`, which
need that what is covered between two stored blocks of one chain has no unread
log of that chain, across every order of history, live commits and
invalidations.

## 6. What is not modelled

`PROJECT.json` names every component with its status, and under `hazards` what no
property covers.

- The viem adapter (`viem.ts`): it translates requests and errors, which is data
  only; its log subscription keeps a window of logs per subscriber and consumes
  the updates of the live chain, whose order `LiveChain` checks.
- RPC schemas and entry points: encoding, decoding and re-exports, without
  state.
- The validation of metadata, definitions and bundles, SQL text, JSON and row
  locks: one failure of a read or a transaction stands for all of them, and an
  operation of a store is one step. The writer claim is that one run goes on at
  a time.
- Of the model: the raw log stream (`publishRaw`), progress watchers, the origin
  resolver, the decoding of rows, retention by seconds; the headers of one range
  are read at one moment. Of the history: streams
  of blocks, transactions and receipts, which read once per block in order.
- In `LiveChain`, `DurableIndexer` and `ClientReads`, which endpoint a read goes to:
  any endpoint may answer it. `Reads` models the choice, without the scores that
  rank endpoints, what a probe measures, and WebSocket endpoints, which are asked
  only while selected.
- Of the WebSocket transport: requests other than those that subscribe, the
  growing pause between two connections, message encoding. Of watches: `equals`.
- Time. A timeout is a step that may happen when the code can time out; callers
  that join a read share the deadline of the one that started it. The error a
  deadline gives a read that failed before is not told apart from others.
- What an interruption does to a drain fiber before its first step, and the
  yields of the effect library between two synchronous operations.
- A client's close in `ClientReads` and `BatchServices`, other than as a series of
  callers that leave, since callers are interrupted before the scope of the reads
  closes; `Reads` has the close.
