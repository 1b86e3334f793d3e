# Verification of the flashblocks node

This directory holds TLA+ models of the ethgas-reth node, the TLC configurations
that check them on small instances, and proofs checked by TLAPS. The models are
translated from the Rust sources; `PROJECT.json` maps every definition to the
lines it stands for. Paths below are relative to `src/crates/execution/`.

## The system

The node follows the canonical chain like any reth node and, beside it, a feed
of *flashblocks*: pieces of the block that a builder is still building. It keeps
the pre-confirmed blocks in a *pending snapshot* and serves it through the RPC.

| Component | State | Operations | Hard behaviour |
|---|---|---|---|
| `flashblocks/src/state.rs` `FlashblocksState` | published snapshot (an `ArcSwapOption`), last canonical height, inclusion fee, queue | receive a flashblock, receive a canonical block, drop a snapshot left behind | runs on two tasks beside the processor; compare-and-swap |
| `flashblocks/src/processor.rs` `StateProcessor` | the update in hand, the flashblock cache | process a flashblock, process a canonical block, build, publish, replay cached flashblocks | reads the node several times per update while the chain moves; error paths that stop half way |
| `flashblocks/src/validation.rs` | none | sequence check, reorg detection, reconciliation strategy | order of the tests |
| `flashblocks/src/cache.rs` | flashblocks whose parent is not canonical yet | insert, drain, update | bounded window, replacement |
| `flashblocks/src/pending_blocks.rs` | one snapshot: flashblocks, headers, transactions, bundle, anchor | build, look up, delta of the latest flashblock | consistency of what it holds |
| `flashblocks-node/src/extension.rs` | position in the canonical stream | forward each committed block | lagging stream skips notifications |
| `flashblocks/src/subscription.rs` | connection, awaiting pong, backoff, mailbox | connect, read, ping, reconnect | timeouts racing answers, full mailbox |
| `flashblocks/src/rpc/eth.rs` | per request | `eth_sendRawTransactionSync`, `eth_getLogs`, reads at `pending` | two receivers and a snapshot read racing the processor |
| `flashblocks/src/rpc/pubsub.rs` | slots per connection, messages counted | subscribe, pipe every item, pipe the latest item | buffer length and counter read apart; slow readers |
| `flashblocks/src/fee.rs`, `rpc/ethgas.rs` | the fee received last | serve it, or fall back | age and ceiling |
| `flashblocks-node/src/pending_state.rs`, `runner/src` | overlay of the snapshot on the anchor's state | serve `pending` state | two reads of a moving snapshot |
| `simulator/src/validation`, `payment.rs`, `blacklist.rs` | disallow list with its gauges, cache of state reads | validate a submitted block, refresh the list | refresh in place beside requests; requests on different parents share the cache |
| `simulator/src/inclusion` | ordered and pending transactions, published list | follow the pool, build a list, subscribe | the pool is ahead of its events; a watch channel keeps only the newest list |

How they interact: the subscriber task hands decoded flashblocks to
`on_flashblock_received`; the canonical task hands committed blocks to
`on_canonical_block_received`; both put updates on one unbounded queue. The
processor takes them one at a time, and alone publishes snapshots: it broadcasts
a new one to the subscriptions and stores it for the readers. The canonical task
may clear the stored snapshot at any time. RPC methods read the stored snapshot;
subscriptions and `eth_sendRawTransactionSync` receive the broadcasts.

What makes it correct: a snapshot without gaps; a snapshot that tracks the chain
or is absent; a bundle computed on the block recorded as its anchor; subscribers
who were streamed what is served; a cache that is bounded and whose content is
replayed; a feed in order across reconnects; requests that miss nothing that lands
while they wait and that all mean the same by `pending`; validation that is not
fooled by the refresh below it. The hazards in `PROJECT.json` list where each
of these can go wrong.

## Modules

| Module | Models | Built on |
|---|---|---|
| `Canonical` | the canonical chain: blocks with an identity of their own | - |
| `Validation` | the pure decisions of `validation.rs`, tests in the code's order | - |
| `PendingBlocks` | the snapshot and what is read of it: heights, transactions, logs, the delta of the latest flashblock | `Canonical`, `Validation` |
| `FlashblockCache` | the operations of `cache.rs` | - |
| `FlashblocksState` | the node, the builder, the canonical task and the processor | the four above |
| `Publisher` | abstract: what readers may rely on of `FlashblocksState` | `PendingBlocks` |
| `EthApi` | the RPC requests that read the snapshot, the overlay and its cache | `Publisher` |
| `PubSub` | the subscriptions of `rpc/pubsub.rs`: slots, buffer, counter, both pipes | - |
| `Feed` | abstract: flashblocks in order and without duplicates, with losses | - |
| `Subscriber` | the feed subscriber, upstream and the network between them | implements `Feed` |
| `Payment` | the proposer payment checks as operators, and what a block really pays | - |
| `Validator` | validation requests, the refresh of the disallow list, the cache of reads | `Payment` |
| `InclusionProducer` | the inclusion list task, the pool, and the list's subscriptions | - |
| `MC*` | constants for TLC | the module they name |
| `DataProofs` | lemmas about folds, sums, ranks and flattened sequences of any size, which the other proofs cite | - |
| `*Proofs` | the theorems; `CanonicalProofs` has those about `FlashblocksState` that hold until some fault happens | the module they name |

Composition. `EthApi` does not run on top of the processor but on top of
`Publisher`, the contract `FlashblocksState` is checked and proved to implement:
a snapshot is broadcast (or not) and then stored, may be dropped at any moment,
has no gap, holds no transaction twice, and is what was broadcast. A commit is a step of both. In the same way
`Feed` stands between `Subscriber` and the feed of `FlashblocksState`, whose
builder with the fault `lose` streams in order with losses.

### FlashblocksState

A step reads the node (tip, header or state) at most once, because a commit can
fall between two reads. Everything the code does between two such points is one
action.

| Code | Actions |
|---|---|
| a commit or reorg of the node (external) | `Commit` |
| `on_flashblock_received` | `OnFlashblockReceived`, `LoseFlashblock` |
| `on_canonical_block_received` | `StoreLastCanonical`, `JudgePending`, `DropJudgedAndSend` |
| the stream of notifications lags | `Lagged` |
| `start`: take an update, `load_pending_or_drop_stale` | `Receive`, `ReplayNext` |
| `apply_flashblock`, `process_flashblock` | `SkipSuperseded`, `BuildFirst`, `CacheFollower`, `ExtendPending`, `RestartBlock`, `IgnoreDuplicate`, `ClearOutOfSequence` |
| `process_canonical_block` | `NothingToReconcile`, `ReconcileCanonical` |
| `build_pending_state` | `ReadAnchor`, `ParentMissing`, `Execute`, `BuildFails` |
| `publishable` and the broadcast; the swap, the cache and the drain | `Announce`, `Swap` |

The snapshot is a record of its flashblocks (a set, since a gap-free snapshot has
one per position), the recorded anchor, and `bases`, the identities of the canonical
blocks its bundle was computed from. The empty set is the absent snapshot. The
compare-and-swap compares pointers: `judged` says that the canonical task has judged
the stored snapshot stale and that the one stored now is still that very `Arc`; every
store of another one resets it (`SameArc`).

Transactions are names, executing them succeeds or fails (fault `execution`), a
block's content is its transaction list and its identity, so a reorg replaces a block
by a different one at the same height. A flashblock's block number in its metadata
and in its base payload are the same, as in every payload a builder sends. Left out:
metrics, logging, and `compare_with_canonical`, which only reports.

`Faults` says which failures a run allows: `reorg`, `lag` (notifications skipped),
`lose` (a flashblock lost, or dropped while the node syncs), `disorder` (the builder
streams in any order), `provider` (a provider read fails) and `execution` (a build
fails). Some properties hold only until a fault has happened, and say so by state rather
than by leaving the fault out of the run: `ChainOnlyGrew` says that there was no reorg so far
(every block ever committed is on the chain), and the history variable `missed` that a
notification was skipped or that the handler of a canonical block failed.

### EthApi

One request runs at a time: requests only read, and what they share is the overlay
cache, which stays from one to the next. Each read is a step, so a commit, a
broadcast, a store, a drop or the engine's own pending block can fall between any
two. Methods that take the same reads are one kind (`AllKinds`).

| Code | Actions |
|---|---|
| `get_transaction_receipt`, `transaction_by_hash` | `ReadCanonical`, `ReadSnapshot` |
| `block_by_number` and the methods on a whole block | `ReadBlock` |
| `send_raw_transaction_sync` with its two waits | `Subscribe`, `Submit`, `Look`, `ReceiveFlashblock`, `ReceiveCanonical`, `Fetch`, `TimeOut` |
| `get_logs` to `pending` | `LoadLogs`, `FetchHistoricalLogs`, `JoinLogs` |
| `served_overlay`, called by `evm_env_at` and `local_pending_state` | `LoadOverlay`, `CheckEngine`, `CheckAnchor`, `OpenState` |
| `builder_balance`, `estimate_gas` without a block | `LoadForBalance`, `CheckEngineForBalance`, `CheckAnchorForBalance`, `ChooseBlock` |
| the fee methods | `LoadFee`, `CheckFeeBlock`, `ReadBaseFee` |
| a provider read fails | `ReadFails` |
| the delta streams of `pubsub.rs` | `Streamed`, part of every broadcast |

A log is its transaction with its block and its position in it; a filter matches
everything. Whether a fee is fresh and below the ceiling is a free choice. The
notification of a reorg names the transactions of the blocks it removes beside those of
the new ones, since `wait_for_canonical_receipt` goes through `block_receipts()` and
ignores the flag that tells them apart; the receipt is then fetched, and missing. A fee is
served for the block after the best one; when the best block cannot be read it is served
all the same (`CheckFeeBlock`).

### PubSub

A step reads or changes one thing that the tasks of a connection share: the map of
slots, the buffer or the counter.

| Code | Actions |
|---|---|
| `ConnectionSlot::take`, `accept` | `Take`, `Accept` |
| the `select!` of both pipes | `NextItem`, `StreamEnds`, `SeeClosed` |
| `wait_for_room` | `HasRoom`, `NoRoom` |
| `send`: serialize, count, queue | `RenderFails`, `Count`, `Send`, `SendWhenRoom`, `SendFails` |
| `previous_queued` of `pipe_latest` | `Measure` (buffer), `Compare` (counter) |
| `ConnectionSlot::drop` | `End`, part of every step that ends a subscription |
| the server and the client (external) | `WriteNext`, `Unsubscribe`, `Disconnect`, `QueueForeign` |

Time is not modelled there: a limit that can have elapsed may have. The buffer is
jsonrpsee's: it is emptied first in, first out, `send` fails on a closed sink and
otherwise waits for room. Messages that are not counted (responses, reth's own
subscriptions) are `QueueForeign`.

### Subscriber

Upstream streams, answers pings, closes, fails, ends or goes silent
(`StreamFlashblock`, `AnswerPing`, `SendControl`, `GoAway`). The first task connects,
sleeps and doubles its backoff (`Connect`, `ConnectFails`, `Wake`), and serves one
`select!`: the actions of `ReadStep` take a frame, `Tick` takes a tick of the ping
interval, and `PutInMailbox` waits for room, during which neither of the others can
run. `Forward` is the second task. Time is counted in ping intervals (`Elapse`);
ticks that pass while the reader waits are delivered in a burst, tokio's default.
Decoding is modelled by which messages it refuses (`TryParseMessage`,
`ParseFlashblockJson`) and which unknown keys it warns about (`RecordWireShape`).

### Validator, Payment

A submission says which external check it fails, what executing it reads and what it
pays. Its checks are steps in the code's order; each lookup in the disallow list and
each insertion of the refresh is a step, since the set is a concurrent one that the
refresh clears and refills in place (`Fetch`, `Clear`, `Insert`, `Report`).
`LoadReads` and `UpdateReads` are the two halves of the shared cache, with the
execution between them. `Payment` holds `EnsurePayment`, `EnsureMergedPayment` and
`RecognizedPaymentAt`, and `PaidInFull`, the reference: what the transactions of the
block really move to the recipient together (`Credits`). The two differ in what they
know. A batch moves its entries only if the contract that is called executes them
(`moves`); the check recognises a batch by its calldata and looks at the status of its
receipt, neither at the contract it calls nor at the result of the Safe's inner call. The
forwarder, if it ever is, is deployed with some block (`deployedAt`) and forwards in a
block whose parent has it; the check looks it up in the latest state (`CanFind`), each time
anew, and a read that fails finds nothing. `OnTrust` names the two kinds of payment that
are counted on trust: a batch that moved nothing, and a forwarder deployed after the
parent. `AcceptedIsPaid` holds of every other block, and `WrongIndexFailsClosed`, what a
comment says of merged blocks, does not hold.

### InclusionProducer

| Code | Actions |
|---|---|
| the transaction pool (external) | `EnterPending`, `EnterQueued`, `Demote`, `Leave`, `Propagate` |
| the stream of canonical notifications (external) | `Notify` |
| `run`: its `select!`, and its end | `TakeEvent`, `TakeNotification`, `Close` |
| `subscribe_inclusion_list` | `Subscribe`, `Accept`, `TakeList`, `SendList`, `SendFails`, `EndSubscription` |
| the client and its connection (external) | `HangUp`, `UseBuffer` |

The pool sends its events over a bounded channel with `try_send` (`Tell`): one that finds no
room is lost, and a demotion has none. `untold` remembers the transactions whose place no
event told the task. `TakeEvent` handles one event and asks the pool about the present.
Notifications are bounded too, the oldest is lost. A list is built at a commit, and
`crowded` remembers the transactions without an entry because another has their score. A
subscription marks a list seen (`TakeList`) before `sink.send` has room for it
(`SendList`), which it may never have; a send fails when the client is gone, and the task
ignores the error. The pool and the two channels are modelled from how the task uses
them. A score depends on a transaction's age and is a free choice. Left out: a list that
cannot be serialized, which a list of byte strings always can.

## Runs

Deadlock is checked only in `validator`: in the other models the tasks wait, once the
bounds are used up, for messages that do not come, which is their normal idle state.

| Run | Shows |
|---|---|
| `reorg` (reorg, execution) | `StaleOnlyUntilNotified`: a snapshot that no longer tracks the tip is served only while a canonical block is on its way to the processor, although builds fail. `StaleEventuallyDropped`: it goes. |
| `unreliable` (all faults) | `PendingGapFree`, `AnnouncedIsServed`: the snapshot has no gap and subscribers were streamed exactly its latest block. `ImplementsPublisher`: the two tasks implement the contract. Until the first reorg: `AnchorIsBase`, `AnchorIsCanonicalParent`: the bundle is computed on the recorded anchor, the canonical parent of the earliest block; `CacheReplayable`, `CacheBounded`: the cache holds a bounded window and can be replayed from index 0. Until a reorg or a missed canonical block: `NoFlashblockStranded`: the cache is drained by the canonical block it waits for. |
| `rpc` | `DeltasAddUpToBlock`: the deltas add up to the block served. `SubmittedIsHeard`, `EarlyTimeoutOnlyByReorg`: a submission misses nothing that lands while it waits, and times out early only for a reorg or a failed read. `LogsOnce`: no log twice. `OnePending`, `FailsOnlyIfDisturbed`: undisturbed, every state method resolves `pending` alike and none fails. |
| `subscriptions` | `TypeOK`: no count of slots falls below zero. `SlotsCounted`, `OneCounterPerConnection`: the map counts exactly the subscriptions that run, never above the cap, and drops an entry with its last slot. `PerItemBounded`: per-item subscriptions queue at most `max_queued` plus one message each. `SkipsOnlyBehindCounted`: what is counted after a `newFlashblocks` message never holds the next one back. `GoneGivesBack`: a connection that goes away gets its slots back. |
| `subscriber` | `TypeOK` with the limits of mailbox, backoff and warned keys. `DeadFeedDetected`, `DeadFeedReplaced`: a dead connection is noticed within two intervals and given up. `PatientUnlessStalled`: a live one is kept. `ReadIsDelivered`: what was read arrives. `ImplementsFeed`: in order and once. |
| `validator` | `ReadsOfOneHead`: the shared reads never mix heads. `ListedThroughoutIsRejected`: an address listed throughout is not let through. `SettledListIsFetched`: the list and its gauges are those of the last successful fetch. `AcceptedIsPaid`: an accepted block pays its bid: nothing counts twice, nothing that failed counts, save the two kinds of payment taken on trust. |
| `inclusion` | `TracksPool`: the producer agrees with the pool once it has caught up, on every transaction whose place an event told it. `ListIsMaximal`: the list keeps the limit and leaves out no tracked transaction that fits, save one whose score another has. `NewestListReachesClient`: a client whose connection has room again and again is sent the newest list, however it was published, unless it hangs up. |
| `mixed_payloads` (no faults) | finding: a restarted block whose parent is not imported yet is continued on the replaced payload. |
| `publish_race` (no faults) | finding: the processor stores a snapshot that blocks handled since its check left behind. |
| `held_back` | finding: `pipe_latest` holds a message back for one that was queued after its last one. |
| `underpaid` | finding: a merged block whose `base_payment_tx_index` names a batch that moved nothing is accepted underpaid. |
| `receipt_vanishes` | finding: `eth_getTransactionReceipt` answers null for a transaction that the chain or the snapshot held at every moment. |

`reorg` leaves out `lag`, since a skipped notification removes the event the property
waits for and the code then relies on the next update, and `provider`, since
`publishable` keeps a snapshot when the tip cannot be read, by design.

### Bounds

`FlashblocksState`: heights up to 3; `MaxMinted` blocks ever committed, one per
notification; `MaxSent` flashblocks streamed (two and three in `unreliable`);
`MAX_CACHE_AHEAD_BLOCKS` is 1 instead of 5 and the depth limit 0 or 1 instead of 10, so that
both limits are reached with three blocks. Block 2 has two flashblocks and is built twice,
and a block is sealed with exactly what was streamed or with a payout transaction added, so
that exact match, extension and mismatch all occur. Every hazard needs at most two
flashblocks of a block, two blocks ahead and one reorg; larger instances repeat these
situations.

`EthApi`: two blocks ever committed, so that one reorg happens; block 1 in two
flashblocks and block 2 in one, so that a snapshot spans blocks; one transaction is
asked for; channels of two entries, so that a receiver can lag. The longest request
takes eight reads, and one move between any two of them is enough for each property.

`PubSub`: caps of one instead of 4 and 32, `max_queued` 0 instead of 32, a buffer of two
messages, one uncounted message, three counted messages per counter and two counters, so
that a connection that lost its last subscription gets a second entry. A wrong decision of
`pipe_latest` needs one other subscription and three messages. Two per-item subscriptions
at once are in `held_back`; that any number of them keep the bound is the theorem
`PerItemIsBounded`.

`Subscriber`: a mailbox of one, two frames on the wire, four flashblocks and a burst of
two ticks; the backoff is doubled once before the cap. `Validator`: two requests, two
addresses, two lists, two heights and a window of 0, with a submission for each way to
pay and to fail, and the forwarder deployed with any block or never; `underpaid` needs one
request.

`InclusionProducer`: a transaction beyond the limit of a list and a small one, three changes
of the pool, two notifications and two scores, with room for one event and one
notification, so that both are lost, a transaction returns after it left, and scores are
equal; one subscription, for which a newer list is published while a send waits. Blob
transactions, which the task passes over, are left to the theorems.

### Fairness

* `reorg`: the canonical task and the processor are tokio tasks that wait for nothing
  but their channel, so a task that can take a step eventually does (weak fairness of
  `CanonStep` and `ProcStep`). The node, the builder and the feed may stop for ever.
* `subscriptions`: each subscription is a task of its own (weak fairness of `SubStep`); the
  client may never read and the stream may never yield. The property speaks of
  connections that are gone: a client that only unsubscribes can leave a task waiting
  in `sink.send` for a full buffer, which only reading or disconnecting ends.
* `subscriber`: both tasks run, time passes, and `select!`, which polls its branches in
  random order, serves a branch that stays ready (weak fairness of `Tick`, `ReadStep`,
  `PutInMailbox`, `Forward`, `Elapse`). Upstream need not accept, answer or send.
* `inclusion`: the producer's `select!` serves both arms and each subscription is a task of
  its own (weak fairness of `TakeEvent`, `TakeNotification`, `SubscriptionStep`). A send
  that waits is not passed over for ever when there is room again and again: tokio's channel
  hands room out in the order it was asked for (strong fairness of `SendList`). Nothing is
  assumed of the client: that it reads is a premise of the property. The pool and the
  chain may stop.

## What the code does beside its properties

These were met while modelling. Five disagree with a comment, a doc or a test of the
repository and are findings with a run each. The properties of the others exclude them,
and say so:

* With a reorg of the parent between the reads of a build, or below a snapshot that is
  rebuilt on its previous bundle, the recorded anchor is not the block the bundle was
  executed against; `AnchorIsBase` holds until the first reorg.
* The cache takes flashblocks one block further ahead than `MAX_CACHE_AHEAD_BLOCKS`
  says; `CacheBounded` states the window the code keeps.
* A canonical update that fails does not drain the cache: flashblocks cached for that
  block stay until they are evicted (`missed` in `NoFlashblockStranded`).
* `pipe_latest` may take a message for written too early, which its comments accept. The
  opposite error is the finding `held_back`.
* The notification of a reorg ends the wait of an `eth_sendRawTransactionSync` for a
  transaction it removes, which then times out early (`EarlyTimeoutOnlyByReorg`).
* A builder's fee is served while the best block cannot be read, whichever block it is for.
* A payment by a batch that moved nothing, or through a forwarder deployed after the
  block's parent, is counted (`OnTrust` in `AcceptedIsPaid`).
* The inclusion list task does not learn of a demotion, of an event lost for want of room, or
  of what was pending before it listened; it lists such a transaction, or leaves it out,
  until the next event about it (`untold` in `TracksPool`).
* The task of an inclusion list subscription whose client is gone runs on, and fails to
  send each list, until the producer ends.
* After the mailbox held the reader up, two ticks come at once, and a live connection
  whose pong waits on the wire is dropped (`PatientUnlessStalled`).
* While the refresh has cleared the disallow list and not yet refilled it, a listed
  address is let through (`ListedThroughoutIsRejected`).
* Entries of the inclusion list compare by score alone: of two transactions with an
  equal score the second gets no entry (`crowded` in `ListIsMaximal`), and one that becomes
  pending again gets two.
* A block sealed with other transactions than were streamed, committed between the two
  reads of `eth_getLogs`, leaves streamed logs at positions it does not have
  (`LogsOnce`).

## Proofs

The assumptions are those the modules state of their constants; nothing bounds the
size of the sets, the limits or the number of steps. Some are more than types: what can be
counted is finite (subscriptions, transactions, scores, which are 64-bit floats, and the
flashblocks that can be streamed, which are messages of limited size: a snapshot lists its
flashblocks, and the producer its entries, by how many come before); the window of
the cache is at least one block (`MAX_CACHE_AHEAD_BLOCKS` is 5; with 0 an insertion would
evict the predecessor of what it inserts); and no subscription has the name that marks
messages of reth's own. Two theorems of `CanonicalProofs` exclude the faults of the
column on the right, all others hold under every fault.

| Theorem | States | Without |
|---|---|---|
| `FlashblocksStateProofs!TypeCorrect` | `Spec => []TypeOK` | - |
| `FlashblocksStateProofs!ServedIsGapFree` | `Spec => []PendingGapFree` | - |
| `FlashblocksStateProofs!StreamedIsServed` | `Spec => []AnnouncedIsServed` | - |
| `CanonicalProofs!ServedHasOneBase` | `Spec => []AnchorIsBase` | - |
| `CanonicalProofs!ServedOnCanonicalParent` | `Spec => []AnchorIsCanonicalParent` | - |
| `CanonicalProofs!CacheIsBounded` | `Spec => []CacheBounded` | - |
| `CanonicalProofs!CacheIsReplayable` | `Spec => []CacheReplayable` | - |
| `CanonicalProofs!CachedIsDrained` | `Spec => []NoFlashblockStranded` | - |
| `CanonicalProofs!NoneIsMissed` | `Spec => []~missed` | reorg, lag, provider, execution |
| `CanonicalProofs!StaleIsNotified` | `Spec => []StaleOnlyUntilNotified` | lag, provider |
| `FlashblocksStateProofs!TasksImplementPublisher` | `Spec => ImplementsPublisher` | - |
| `EthApiProofs!PendingIsOne` | `ApiSpec => []OnePending` | - |
| `EthApiProofs!FailureIsDisturbance` | `ApiSpec => []FailsOnlyIfDisturbed` | - |
| `EthApiProofs!SubmissionIsHeard` | `ApiSpec => []SubmittedIsHeard` | - |
| `EthApiProofs!EarlyTimeoutIsReorg` | `ApiSpec => []EarlyTimeoutOnlyByReorg` | - |
| `EthApiProofs!StreamAddsUp` | `ApiSpec => []DeltasAddUpToBlock` | - |
| `EthApiProofs!LogsAnsweredOnce` | `ApiSpec => []LogsOnce` | - |
| `SubscriberProofs!SubscriberImplementsFeed` | `Spec => ImplementsFeed` | - |
| `SubscriberProofs!SubscriberTypeOK` | `Spec => []TypeOK` | - |
| `SubscriberProofs!DeadFeedIsDetected` | `Spec => []DeadFeedDetected` | - |
| `SubscriberProofs!PongIsWaitedFor` | `Spec => []PatientUnlessStalled` | - |
| `PubSubProofs!SlotsAreCounted` | `Spec => []SlotsCounted` | - |
| `PubSubProofs!CounterIsShared` | `Spec => []OneCounterPerConnection` | - |
| `PubSubProofs!PubSubTypeOK` | `Spec => []TypeOK` | - |
| `PubSubProofs!PerItemIsBounded` | `Spec => []PerItemBounded` | - |
| `PubSubProofs!SkipsAreBehindCounted` | `Spec => []SkipsOnlyBehindCounted` | - |
| `ValidatorProofs!CacheIsOfOneHead` | `Spec => []ReadsOfOneHead` | - |
| `ValidatorProofs!ListedIsRejected` | `Spec => []ListedThroughoutIsRejected` | - |
| `ValidatorProofs!ListIsFetched` | `Spec => []SettledListIsFetched` | - |
| `ValidatorProofs!AcceptedBlocksPay` | `Spec => []AcceptedIsPaid` | - |
| `InclusionProducerProofs!ProducerTracksPool` | `Spec => []TracksPool` | - |
| `InclusionProducerProofs!PublishedListIsMaximal` | `Spec => ListIsMaximal` | - |

*FlashblocksState.* None of the three is inductive alone. What is published was built
from the snapshot loaded when the update was taken, so `IndInv` also says
`SequenceInv` (the stored and the loaded snapshot are `Sequenced`, and what is being
built is `BuildOf` the loaded one: a first flashblock alone, the snapshot and a
flashblock the validator accepted, or the part of it above some height) and
`AnnouncedInv` (what was streamed matches the loaded snapshot as well as the stored
one, and matches the result between broadcast and store). The main lemmas say that each
kind of build keeps a set sequenced (`SingletonSequenced`, `ExtensionSequenced`,
`UpperPartSequenced`) and keeps subscribers in step (`BroadcastInStep`); the latter needs
that the last flashblock is unique, which is where gap-freedom enters. `TypeOK` needs
the invariant too: a set need not have a last flashblock unless it says so. TLC also
checked `IndInv` with the bounds of `unreliable`.

*FlashblocksState until a fault happens* (`CanonicalProofs`). Each property needs what the
update in hand has read or will read, so further invariants stand on `IndInv`. `GrownInv`
says the first three as long as the chain only grew, and the fourth as long as no canonical
block was missed either. It is inductive because a chain that had a reorg has fewer blocks
than were committed and never catches up (`NextMinted`), and because nothing takes back
what was missed, so a step into such a state started in one.

* `AnchorInv`: the stored snapshot, the loaded one and the result are each anchored to the
  canonical parent of their earliest block and computed from that block only; a build that
  reuses the loaded bundle has the same earliest block. Without a reorg a header that
  exists stays (`CommitAppends`), and appending in sequence keeps the earliest block
  (`EarliestKept`).
* `OrderInv`: the numbers of the canonical blocks on their way (`Awaited`: in
  notifications, in the canonical task and in the queue) are handed on in ascending order,
  none above the tip, and none below the block in hand. One lemma per step says how
  `Awaited` changes; the others use only those.
* `WindowInv`: `latest_canonical` of the cache is at most every awaited number.
  `CacheChanges` lists the ways the cache changes: an insertion of a first flashblock above
  the tip's child, an insertion behind a cached predecessor, or the drain of a canonical
  block. That a flashblock without its parent is a first one is where `AnchorInv` is
  needed (`WaitsForParent`).
* `TipInv`: if a canonical block is on its way, one for the tip is. As long as none is
  missed nothing but `Swap` ends a canonical block (`FinishedOrMissed`), and what its drain
  leaves in the cache waits for a later one.
* `FreshInv`: while no canonical block is on its way (`Notified`) the tip is the one the
  update in hand has read, so the loaded snapshot is still near it, a rebuild still extends
  it, and what `publishable` let through still does.

The handler of a canonical block can fail, and so be missed, through a fault only
(`NoneIsMissed`): no snapshot holds a transaction twice (`SingleInv`), and what the handler
rebuilds has its parent (`CutHasParent`, from gap-freedom; `ParentInv`).

Each guard and each excluded fault is needed; without it TLC finds a counterexample with
at most four commits and three flashblocks. A reorg that replaces the parent between two reads
breaks both anchor properties. A reorg that leaves the chain shorter lets a flashblock
wait for a header that was there before: a second flashblock is then cached without
its first, and one that is not above `latest_canonical` is cached below the window. A
skipped notification or a provider read that fails at the wrong moment leaves a stale
snapshot, or a full cache, with nothing on its way to change it; so does, for the cache, a
canonical block whose build fails.

*Publisher.* The mapping shows of a snapshot its flashblocks and its anchor, and of the
processor only whether it is between broadcast and store (`next`). Every other step of
it is invisible, drops the snapshot, or is a commit; `Announce` is `Publish` because of
`IndInv`, which supplies that the result has no gap and is what was streamed, and of
`SingleInv`, by which no snapshot holds a transaction twice: a build that would add one again
fails, and what a canonical block cuts off leaves none twice.

*Subscriber.* `InOrder` follows a flashblock along its path: handed over, in the
mailbox, waiting for room, on the wire, and streamed, each stage before the next and
each sorted. A drop of the connection empties the wire and keeps the rest, so the
theorem covers every reconnect.

For the watch on a dead connection `WatchInv` says that at most one ping is out
(`OnePingOut`: the other end owes the pong, or it is on the wire, or it was read), that
after one quiet interval a tick is due or a ping is out that nobody will answer and after
two both (`QuietInv`), and that ticks pile up only behind a full mailbox (`PatienceInv`).
Without `OnePingOut` a pong of an earlier ping could reset the flag of a later one.

*EthApi.* The requests run over `Publisher`, so the theorems hold for every publisher that
keeps its contract, the tasks of `FlashblocksState` included. `ResolvedInv` says of a request
nothing has disturbed that each look it took still holds: what it has loaded is the
snapshot served, the engine does not cover it, its anchor is on the chain, and the
environment of a call is that snapshot's; the overlay cache maps a snapshot to its own
bundle. `WaitInv` follows a submission: both receivers are taken before the pool is given
the transaction (`ListenInv`), what became due since is in one of them unless it lagged
(`HeardInv`), and a transaction in a canonical notification, committed or reverted, is sealed or was
removed (`NotifiedInv`).

*EthApi, the streams.* `StreamInv` says that a client that adds up the deltas holds the
transactions of the flashblocks that were announced, and that these are the latest block of
the snapshot decided on last. The rest is about the lists a snapshot holds. Its flashblocks
are ordered by their places (`FlashblocksOrdered`); the list ends with the latest one and
is, without it, the list of the others (`ListEnds`, `ListBegins`). So the transactions end
with those of the latest flashblock, and by induction on the number of flashblocks they are
as many as `previous_flashblocks_tx_count` and the latest one add up to
(`TransactionsAppend`, `TransactionsCounted`): the delta is the latest flashblock's
(`DeltaIsLast`). What was streamed once is the list of the latest block (`StreamedIsBlock`).

For the logs `LogInv` keeps a request on the one snapshot it has loaded. A snapshot without
a duplicate has one log of each transaction (`PendingLogsOnce`, again by induction); a log
that was fetched and one of the snapshot that was not left out have different transactions,
because the block was sealed as streamed. That it was is a fact about the builder and not
about this code, and so a premise of `LogsOnce`, as is that no transaction is sealed twice.

*PubSub.* `SlotInv` says of each connection that its entry counts the running tasks of
each kind, exists exactly as long as one runs, and that its counter is theirs. The
existence of the entry is what the two properties lack: without it a new entry could
be made beside running tasks. It is also what `TypeOK` needs: a task that ends finds a
count to take one off. `PipeInv` gives the counts their meaning: every counted
message in a buffer, and every one about to be queued, has a number its counter has
reached, no two have the same (`CountsApart`), and messages of an
earlier counter stand before the task's own last one (`PreviousInv`); so the messages
counted after that one are at most as many as the counter has moved, and one more in the
buffer must be older or uncounted. `RoomInv` counts, beside the
messages queued, the tasks that passed `wait_for_room` and have not queued yet.

*Validator.* `IndInv` adds to the properties where the refresh stands (`RefreshInv`:
what is inserted and what is still to be inserted make up the fetched list) and what a
request has still to look up (`Screened`: an address listed throughout is on the list
and, once execution has read it, still to be looked up, until the request is rejected).
For the payment, what is recognised in one transaction is at most what it moves
unless it is on trust (`RecognizedIsMoved`), and what two different transactions move is at most what all do
(`MovedTogether`); the two that `ensure_merged_payment` adds up must be different, which is
what the mutant of the run gets wrong. An accepted block stays paid, or on trust, while the
chain grows, since what is deployed stays (`PaidInv`, `PaysLasts`).

*InclusionProducer.* `TrackingInv` says of each transaction that is not `untold` that the last event on its
way that decides about it decides as the pool has, and that without such an event the
task agrees with the pool already. That the pool is asked late is harmless for that
reason: if it no longer holds the transaction, a later event says so. A list is built entry
by entry, and after each prefix it is within the limit and what it left out does not fit
(`Built`, `AddToListBuilds`); since the list only grows, what did not fit then does not fit
in the end. That every entry has its place in the order (`ByScoreLists`) needs that no two
have the same score, which `EntriesInv` says of the ordered set; it also says that a tracked
transaction has an entry unless it is `crowded`, so what is said of entries holds of
tracked transactions.

*Data.* What a recursive function computes is shown in `DataProofs`. Every non-empty
set of natural numbers has a least member (`LeastNat`, from the well-foundedness of `<`), so
a set that holds 0 and with each number the next holds them all (`Induction`); an induction
names the set of the sizes for which its claim holds. A function defined by recursion over
the subsets of a finite set, as the folds of the community modules are, exists because its
restriction to the subsets of each size does (`FoldExists`), and then it may be unfolded.
From that follow sums in any order (`SumRemove`), folds of a sequence prefix by prefix
(`FoldPrefixes`), the place of each member of a finite ordered set (`Ranks`, `Ranking`)
and flattening one sequence more (`FlattenAppend`).

Only model-checked: what is temporal under fairness (`StaleEventuallyDropped`,
`GoneGivesBack`, `DeadFeedReplaced`, `ReadIsDelivered`, `NewestListReachesClient`), which is
out of the prover's reach. Every invariant and every action property of a passing run has
its theorem.

## Not modelled

The EVM and reth's provider, database, pool and networking are external. Assembling a
header from flashblocks (`block_assembler.rs`) copies and hashes fields; its failures are
the fault `execution`. `runner/src/pending_provider.rs` looks accounts, slots and code up
in the bundle and then at the anchor, and leaves roots and proofs to reth's trie: pure
lookups into revm's types. Requests for another block than `pending` are reth's, and
`eth_fillTransaction` combines reads that are modelled. Log filters, the age and ceiling
of the inclusion fee and the rendering of RPC objects decide nothing the properties speak
of. Metrics, logging, error types, the command line and the wiring of the node at start
have no behaviour of their own, and test harnesses, benchmarks and contracts are support.
`PROJECT.json` lists every component with its status.
