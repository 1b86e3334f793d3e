------------------------------- MODULE EthApi -------------------------------
(***************************************************************************)
(* The RPC methods that read the pending snapshot beside the chain: the    *)
(* eth overrides (flashblocks/src/rpc/eth.rs), the fee methods             *)
(* (rpc/ethgas.rs), the node's own eth API with its overlay                *)
(* (runner/src/eth_api.rs) and the overlay cache                           *)
(* (flashblocks-node/src/pending_state.rs).                                *)
(*                                                                         *)
(* One request runs at a time; requests only read, and the one thing they  *)
(* share is the overlay cache.  Each of its reads is a step of its own, so *)
(* a commit, a broadcast, a store or a drop can fall between any two.      *)
(* Below it is Publisher, which FlashblocksState implements.               *)
(***************************************************************************)
EXTENDS Publisher

CONSTANTS
    Kinds,              \* the requests of this instance
    Requested,          \* transactions that are asked for
    BroadcastCapacity   \* BUFFER_SIZE, and that of the canonical channel

\* Each kind stands for the methods that take the same reads.
AllKinds ==
    {"receipt",     \* eth_getTransactionReceipt, eth_getTransactionByHash
     "block",       \* eth_getBlockByNumber and the others on a whole block
     "sync",        \* eth_sendRawTransactionSync
     "logs",        \* eth_getLogs from a sealed block to pending
     "pendingLogs", \* eth_getLogs from pending to pending
     "balance",     \* eth_getBalance
     "state",       \* eth_getTransactionCount, eth_simulateV1
     "call",        \* eth_call
     "estimate",    \* eth_estimateGas without a block
     "fee",         \* ethgas_inclusionPriorityFee, eth_maxPriorityFeePerGas
     "gasPrice"}    \* eth_gasPrice

ASSUME KindsAssumption == Kinds \subseteq AllKinds
ASSUME CapacityAssumption == BroadcastCapacity \in Nat \ {0}

VARIABLES
    engine,     \* the engine has executed a block on the tip, not yet canonical
    cached,     \* the overlay cache: <<>> or <<snapshot, its overlay>>
    pc,         \* where the request stands
    kind,       \* its kind
    tx,         \* the transaction it is about
    snap,       \* the snapshot or overlay it has loaded
    stage,      \* what served_overlay is called for
    env,        \* <<>> or the overlay its block environment is from
    logs,       \* the historical logs it has fetched
    price,      \* the block whose inclusion fee it has read
    listening,  \* the broadcast channels it has subscribed to
    flashQ,     \* what its flashblocks receiver holds
    canonQ,     \* what its canonical receiver holds
    answer,     \* what it answers, and from what
    disturbed,  \* history: something moved, or a read failed, since it began
    seen,       \* history: tx was served or sealed at every moment since then
    due,        \* history: tx was broadcast or sealed since the submission began
    lagged,     \* history: a receiver lost an entry
    removed,    \* history: tx left the chain, or a read of it failed
    streamed    \* history: what a client that adds up the deltas holds

receivers == <<listening, flashQ, canonQ>>
registers == <<snap, stage, env, logs, price>>
requestVars == <<pc, kind, tx, registers, answer>>
historyVars == <<disturbed, seen, due, lagged, removed>>
vars == <<publisherVars, engine, cached, requestVars, receivers, historyVars, streamed>>

-----------------------------------------------------------------------------
Best == Len(chain)

SealedIn(blocks, t) == \E n \in DOMAIN blocks : t \in Range(blocks[n].txs)
Sealed(t) == SealedIn(chain, t)
Served(t) == HoldsTransaction(pending.fbs, t)

\* block_number(hash): the anchor is still on the chain.
OnChain(id) == id = 0 \/ \E n \in 1..Best : chain[n].id = id

\* The engine's pending block is a child of the tip.
EngineCovers(number) == engine /\ Best + 1 >= number

NoOverlay == [fbs |-> {}, anchor |-> 0, latest |-> 0]

\* PendingOverlay::from_bundle.
FromBundle(view) ==
    [fbs |-> view.fbs, anchor |-> view.anchor, latest |-> LatestBlock(view.fbs)]

NoAnswer == [from |-> "none"]
From(source) == [from |-> source]

-----------------------------------------------------------------------------
ApiInit ==
    /\ Init
    /\ engine = FALSE
    /\ cached = <<>>
    /\ pc = "idle"
    /\ kind = "none"
    /\ tx = 0
    /\ snap = NoOverlay
    /\ stage = "none"
    /\ env = <<>>
    /\ logs = {}
    /\ price = 0
    /\ listening = {}
    /\ flashQ = <<>>
    /\ canonQ = <<>>
    /\ answer = NoAnswer
    /\ disturbed = FALSE
    /\ seen = FALSE
    /\ due = FALSE
    /\ lagged = FALSE
    /\ removed = FALSE
    /\ streamed = <<>>

-----------------------------------------------------------------------------
(***************************************************************************)
(* The environment: the chain, the engine and the publisher.               *)
(***************************************************************************)
Running == pc \notin {"idle", "done"}

\* A broadcast channel keeps the last BroadcastCapacity entries.
Broadcast(channel, queue, entry) ==
    IF channel \notin listening
    THEN queue
    ELSE LET all == Append(queue, entry)
         IN  SubSeq(all, Max({1, Len(all) - BroadcastCapacity + 1}), Len(all))

Overflows(channel, queue) == channel \in listening /\ Len(queue) = BroadcastCapacity

Submitting == kind = "sync" /\ pc \in {"submit", "look", "wait"}

HoldsEntry(queue) == \E i \in DOMAIN queue : tx \in queue[i]

Moved ==
    /\ disturbed' = Running
    /\ seen' = (seen /\ (SealedIn(chain', tx) \/ HoldsTransaction(pending'.fbs, tx)))

\* A commit, and its notification to the canonical receiver: block_receipts() names
\* the transactions of the blocks a reorg reverted as well as those of the new ones.
NodeCommits(keep, bodies) ==
    LET new == {t \in Requested : \E i \in DOMAIN bodies : t \in Range(bodies[i])}
        reverted == {t \in Requested :
                        \E n \in DOMAIN chain : n > keep /\ t \in Range(chain[n].txs)}
    IN  /\ Commit(keep, bodies)
        /\ engine' = FALSE
        /\ canonQ' = Broadcast("canonical", canonQ, new \cup reverted)
        /\ due' = (due \/ (Submitting /\ tx \in new))
        /\ lagged' = (lagged \/ Overflows("canonical", canonQ))
        /\ removed' = (removed \/ (Running /\ Sealed(tx) /\ ~SealedIn(chain', tx)))
        /\ Moved
        /\ UNCHANGED <<cached, requestVars, listening, flashQ, streamed>>

\* The engine executes a block on the tip; no request sees it only in part.
EngineExecutes ==
    /\ ~engine
    /\ engine' = TRUE
    /\ UNCHANGED <<publisherVars, cached, requestVars, receivers, due, lagged,
                   removed, streamed>>
    /\ Moved

\* The snapshots that can be published on the chain as it stands.  One whose
\* parent was replaced after it was built is published here before the reorg.
Views ==
    {NoView} \cup
    {[fbs |-> F, anchor |-> IF EarliestBlock(F) = 1 THEN 0 ELSE chain[EarliestBlock(F) - 1].id] :
        F \in {G \in SUBSET Flashblocks : G # {} /\ EarliestBlock(G) <= Best + 1}}

\* The delta streams (pending logs, transactions, hashes, batches) render what the
\* latest flashblock added; a client begins anew with the first of a block.
Streamed(held, view) ==
    IF LatestFlashblock(view.fbs).index = 0
    THEN LatestDelta(view.fbs)
    ELSE held \o LatestDelta(view.fbs)

\* The broadcast of a snapshot, or the decision to store one without it.
Publishes(view, told) ==
    LET held == {t \in Requested : HoldsTransaction(view.fbs, t)}
    IN  /\ next' = <<view>>
        /\ Publish(told)
        /\ flashQ' = IF told THEN Broadcast("flashblocks", flashQ, held) ELSE flashQ
        /\ lagged' = (lagged \/ (told /\ Overflows("flashblocks", flashQ)))
        /\ due' = (due \/ (told /\ Submitting /\ tx \in held))
        /\ streamed' = IF told THEN Streamed(streamed, view) ELSE streamed
        /\ UNCHANGED <<engine, cached, requestVars, listening, canonQ, disturbed,
                       seen, removed>>

\* The snapshot that was decided on is stored, or the one served is dropped.
Moves ==
    /\ Store \/ (IsSome(pending) /\ Drop)
    /\ Moved
    /\ UNCHANGED <<engine, cached, requestVars, receivers, due, lagged, removed,
                   streamed>>

\* Nothing happens in the instant in which a request is answered.
Environment ==
    /\ pc # "done"
    /\ \/ \E keep \in 0..Best, k \in 1..MaxCommit :
             \E bodies \in BodyLists(keep, k) : NodeCommits(keep, bodies)
       \/ EngineExecutes
       \/ \E view \in Views, told \in BOOLEAN : Publishes(view, told)
       \/ Moves

-----------------------------------------------------------------------------
(***************************************************************************)
(* Requests                                                                *)
(***************************************************************************)
outside == <<publisherVars, engine, streamed>>

Goto(step) ==
    /\ pc' = step
    /\ UNCHANGED <<outside, kind, tx, answer, historyVars>>

Answer(value) ==
    /\ pc' = "done"
    /\ answer' = value
    /\ UNCHANGED <<outside, cached, kind, tx, registers, receivers, historyVars>>

\* Mutant of SyncSteps: the transaction is submitted before the receivers are taken.
SyncStepsSubmitFirst == <<"submit", "subscribe", "subscribeCanonical", "look", "wait">>

\* send_raw_transaction_sync: both receivers, the submission, the look, the wait.
SyncSteps == <<"subscribe", "subscribeCanonical", "submit", "look", "wait">>

SyncAfter(step) ==
    LET i == CHOOSE j \in DOMAIN SyncSteps : SyncSteps[j] = step
    IN  SyncSteps[i + 1]

\* The read each method begins with.  call and simulate_v1 only delegate to the
\* node's eth API, which resolves `pending' by served_overlay.
FirstStep ==
    [receipt |-> "canonical", block |-> "block", sync |-> SyncSteps[1],
     logs |-> "loadLogs", pendingLogs |-> "loadLogs", balance |-> "loadBalance",
     state |-> "overlay", call |-> "overlay", estimate |-> "choose",
     fee |-> "fee", gasPrice |-> "fee"]

\* get_transaction_count, too, is delegated: it reads the state at pending, a call
\* the block environment before it.
Begin(k, t) ==
    /\ pc = "idle"
    /\ kind' = k
    /\ tx' = t
    /\ pc' = FirstStep[k]
    /\ stage' = IF k = "call" THEN "env" ELSE IF k = "state" THEN "state" ELSE "none"
    /\ seen' = (Sealed(t) \/ Served(t))
    /\ UNCHANGED <<outside, cached, snap, env, logs, price, receivers, answer,
                   disturbed, due, lagged, removed>>

Finish ==
    /\ pc = "done"
    /\ pc' = "idle"
    /\ kind' = "none"
    /\ tx' = 0
    /\ snap' = NoOverlay
    /\ stage' = "none"
    /\ env' = <<>>
    /\ logs' = {}
    /\ price' = 0
    /\ listening' = {}
    /\ flashQ' = <<>>
    /\ canonQ' = <<>>
    /\ answer' = NoAnswer
    /\ disturbed' = FALSE
    /\ seen' = FALSE
    /\ due' = FALSE
    /\ lagged' = FALSE
    /\ removed' = FALSE
    /\ UNCHANGED <<outside, cached>>

\* local_pending_block, behind the methods that are delegated: the engine's block,
\* else the canonical tip.
LocalPendingBlock == From(IF engine THEN "engine" ELSE "latest")

\* block_by_number at pending: the latest block of the snapshot served, else the
\* block the node's eth API answers.
BlockByNumber ==
    IF IsSome(pending)
    THEN [from |-> "snapshot", txs |-> LatestBlockTransactions(pending.fbs)]
    ELSE LocalPendingBlock

\* block_by_number, and get_block_transaction_count_by_number, block_receipts and
\* transaction_by_block_number_and_index, which render parts of it: one load.
ReadBlock ==
    /\ pc = "block"
    /\ Answer(BlockByNumber)

\* get_transaction_receipt and transaction_by_hash: the chain, then the snapshot.
ReadCanonical ==
    /\ pc = "canonical"
    /\ IF Sealed(tx)
       THEN Answer(From("canonical"))
       ELSE Goto("snapshot") /\ UNCHANGED <<cached, registers, receivers>>

ReadSnapshot ==
    /\ pc = "snapshot"
    /\ Answer(IF Served(tx) THEN From("snapshot") ELSE NoAnswer)

-----------------------------------------------------------------------------
\* subscribe_to_flashblocks, then subscribe_to_canonical_state.
Subscribe ==
    /\ pc \in {"subscribe", "subscribeCanonical"}
    /\ listening' = listening \cup
                        {IF pc = "subscribe" THEN "flashblocks" ELSE "canonical"}
    /\ Goto(SyncAfter(pc))
    /\ UNCHANGED <<cached, registers, flashQ, canonQ>>

\* send_raw_transaction: the pool takes the transaction or refuses it.
Submit ==
    /\ pc = "submit"
    /\ \/ Goto(SyncAfter(pc)) /\ UNCHANGED <<cached, registers, receivers>>
       \/ Answer(From("rejected"))

Look ==
    /\ pc = "look"
    /\ IF Served(tx)
       THEN Answer(From("snapshot"))
       ELSE Goto(SyncAfter(pc)) /\ UNCHANGED <<cached, registers, receivers>>

\* wait_for_flashblocks_receipt, polled also while the other wait fetches.
ReceiveFlashblock ==
    /\ pc \in {"wait", "fetch"}
    /\ flashQ # <<>>
    /\ IF tx \in Head(flashQ)
       THEN Answer(From("flashblock"))
       ELSE /\ flashQ' = Tail(flashQ)
            /\ Goto(pc)
            /\ UNCHANGED <<cached, registers, listening, canonQ>>

\* Mutant of ReceiveCanonical: the hashes are not compared.
ReceiveAnyCanonical ==
    /\ pc = "wait"
    /\ canonQ # <<>>
    /\ canonQ' = Tail(canonQ)
    /\ Goto("fetch")
    /\ UNCHANGED <<cached, registers, listening, flashQ>>

\* wait_for_canonical_receipt up to the read of the receipt: whether the block that
\* names the transaction was committed or reverted is not looked at.
ReceiveCanonical ==
    /\ pc = "wait"
    /\ canonQ # <<>>
    /\ canonQ' = Tail(canonQ)
    /\ Goto(IF tx \in Head(canonQ) THEN "fetch" ELSE "wait")
    /\ UNCHANGED <<cached, registers, listening, flashQ>>

\* The receipt of a notified transaction; none is answered as a timeout.
Fetch ==
    /\ pc = "fetch"
    /\ Answer(IF Sealed(tx) THEN From("canonical") ELSE From("noReceipt"))

TimeOut ==
    /\ pc \in {"wait", "fetch"}
    /\ Answer(From("timeout"))

SyncStep == Subscribe \/ Submit \/ Look \/ ReceiveFlashblock \/ ReceiveCanonical
                \/ Fetch \/ TimeOut

-----------------------------------------------------------------------------
\* get_logs to pending: load the snapshot; without one the filter is delegated.
LoadLogs ==
    /\ pc = "loadLogs"
    /\ IF IsSome(pending)
       THEN /\ snap' = FromBundle(pending)
            /\ Goto(IF kind = "logs" THEN "historical" ELSE "join")
            /\ UNCHANGED <<cached, stage, env, logs, price, receivers>>
       ELSE Answer(LocalPendingBlock)

\* eth_filter.logs up to the latest block.
FetchHistoricalLogs ==
    /\ pc = "historical"
    /\ logs' = UNION {LogsOf(chain[n].txs, n, TRUE) : n \in 1..Best}
    /\ Goto("join")
    /\ UNCHANGED <<cached, snap, stage, env, price, receivers>>

\* Mutant of NotFetched: no log of the snapshot is left out.
NotFetchedAll(l) == TRUE

NotFetched(l) == ~\E h \in logs : h.block = l.block /\ h.index = l.index

JoinLogs ==
    /\ pc = "join"
    /\ Answer([from |-> "logs",
               logs |-> logs \cup {l \in PendingLogs(snap.fbs) : NotFetched(l)}])

LogStep == LoadLogs \/ FetchHistoricalLogs \/ JoinLogs

-----------------------------------------------------------------------------
(***************************************************************************)
(* State at pending.  served_overlay takes three reads: the overlay, the   *)
(* engine's pending block and the anchor.  evm_env_at calls it for the     *)
(* block environment (stage "env"), local_pending_state again for the      *)
(* state (stage "state").  Without an overlay reth's provider answers.     *)
(***************************************************************************)
ToProvider == Answer(From("provider"))

\* estimate_gas without a block.
ChooseBlock ==
    /\ pc = "choose"
    /\ IF IsSome(pending)
       THEN /\ stage' = "env"
            /\ Goto("overlay")
            /\ UNCHANGED <<cached, snap, env, logs, price, receivers>>
       ELSE Answer(From("latest"))

\* Mutant of CachedOverlay: any overlay in the cache is served.
CachedOverlayAny == cached # <<>>

\* The cache holds the overlay of the snapshot that is served now.
CachedOverlay == cached # <<>> /\ cached[1] = pending

\* pending_overlay.
LoadOverlay ==
    /\ pc = "overlay"
    /\ IF IsSome(pending)
       THEN /\ cached' = IF CachedOverlay THEN cached
                         ELSE <<pending, FromBundle(pending)>>
            /\ snap' = cached'[2]
            /\ Goto("engine")
            /\ UNCHANGED <<stage, env, logs, price, receivers>>
       ELSE /\ cached' = <<>>
            /\ pc' = "done"
            /\ answer' = From("provider")
            /\ UNCHANGED <<outside, kind, tx, registers, receivers, historyVars>>

CheckEngine ==
    /\ pc = "engine"
    /\ IF EngineCovers(snap.latest)
       THEN ToProvider
       ELSE Goto("anchor") /\ UNCHANGED <<cached, registers, receivers>>

\* The overlay is served: the environment is taken and the state is read next.
ServeOverlay ==
    /\ env' = IF stage = "env" THEN <<snap>> ELSE env
    /\ snap' = IF stage = "env" THEN NoOverlay ELSE snap
    /\ stage' = "state"
    /\ Goto(IF stage = "env" THEN "overlay" ELSE "open")
    /\ UNCHANGED <<cached, logs, price, receivers>>

\* Mutant of CheckAnchor: the anchor is not looked up.
CheckAnchorNever ==
    /\ pc = "anchor"
    /\ ServeOverlay

CheckAnchor ==
    /\ pc = "anchor"
    /\ IF OnChain(snap.anchor) THEN ServeOverlay ELSE ToProvider

\* state_by_block_hash(anchor), which fails once the block has left the chain.
OpenState ==
    /\ pc = "open"
    /\ Answer(IF OnChain(snap.anchor)
              THEN [from |-> "overlay", overlay |-> snap]
              ELSE From("error"))

\* builder_balance: the same three reads, of the snapshot itself.
LoadForBalance ==
    /\ pc = "loadBalance"
    /\ IF IsSome(pending)
       THEN snap' = FromBundle(pending) /\ stage' = stage /\ Goto("balanceEngine")
       ELSE snap' = snap /\ stage' = "state" /\ Goto("overlay")
    /\ UNCHANGED <<cached, env, logs, price, receivers>>

NoBuilderBalance ==
    /\ snap' = NoOverlay
    /\ stage' = "state"
    /\ Goto("overlay")
    /\ UNCHANGED <<cached, env, logs, price, receivers>>

CheckEngineForBalance ==
    /\ pc = "balanceEngine"
    /\ IF EngineCovers(snap.latest)
       THEN NoBuilderBalance
       ELSE Goto("balanceAnchor") /\ UNCHANGED <<cached, registers, receivers>>

\* The builder's map need not hold the account.
CheckAnchorForBalance ==
    /\ pc = "balanceAnchor"
    /\ \/ OnChain(snap.anchor) /\ Answer(From("builder"))
       \/ NoBuilderBalance

StateStep == ChooseBlock \/ LoadOverlay \/ CheckEngine \/ CheckAnchor \/ OpenState
                 \/ LoadForBalance \/ CheckEngineForBalance \/ CheckAnchorForBalance

-----------------------------------------------------------------------------
(***************************************************************************)
(* The inclusion fee, received with some flashblock.  Its age and the      *)
(* ceiling are not modelled: a fee may be within both or not.              *)
(***************************************************************************)
Unsealed(number) == number > Best

\* latest_inclusion_fee.
LoadFee ==
    /\ pc = "fee"
    /\ \/ /\ price' \in 1..(MaxMinted + 1)
          /\ Goto("feeBlock")
          /\ UNCHANGED <<cached, snap, stage, env, logs, receivers>>
       \/ Answer(From("fallback"))

\* builder_fee, from the read of the best block to builder_inclusion_fee.
CheckFeeBlock ==
    /\ pc = "feeBlock"
    /\ \/ /\ Unsealed(price)
          /\ IF kind = "gasPrice"
             THEN Goto("baseFee") /\ UNCHANGED <<cached, registers, receivers>>
             ELSE Answer(From("builder"))
       \/ Answer(From("fallback"))

\* gas_price: the next block's base fee is read after the fee.
ReadBaseFee ==
    /\ pc = "baseFee"
    /\ Answer([from |-> "builder", base |-> Best + 1])

FeeStep == LoadFee \/ CheckFeeBlock \/ ReadBaseFee

-----------------------------------------------------------------------------
\* A provider read fails.  The reads behind if-let, ok() and is_ok_and() go on
\* without it (builder_fee serves the builder's fee), the others end the request.
ReadFails ==
    /\ pc \in {"canonical", "historical", "engine", "anchor", "open",
               "balanceEngine", "balanceAnchor", "fetch", "feeBlock", "baseFee"}
    /\ disturbed' = TRUE
    /\ removed' = (removed \/ pc = "fetch")
    /\ CASE pc = "engine" ->
               pc' = "anchor" /\ UNCHANGED <<registers, answer>>
         [] pc = "balanceEngine" ->
               pc' = "balanceAnchor" /\ UNCHANGED <<registers, answer>>
         [] pc = "balanceAnchor" ->
               /\ pc' = "overlay"
               /\ snap' = NoOverlay
               /\ stage' = "state"
               /\ UNCHANGED <<env, logs, price, answer>>
         [] pc = "fetch" ->
               pc' = "done" /\ answer' = From("noReceipt") /\ UNCHANGED registers
         [] pc = "feeBlock" ->
               /\ \/ pc' = "done" /\ answer' = From("fallback")
                  \/ kind = "gasPrice" /\ pc' = "baseFee" /\ UNCHANGED answer
                  \/ kind # "gasPrice" /\ pc' = "done" /\ answer' = From("builder")
               /\ UNCHANGED registers
         [] OTHER ->
               pc' = "done" /\ answer' = From("error") /\ UNCHANGED registers
    /\ UNCHANGED <<outside, cached, kind, tx, receivers, seen, due, lagged>>

Request ==
    \/ \E k \in Kinds, t \in Requested : Begin(k, t)
    \/ Finish
    \/ ReadBlock
    \/ ReadCanonical
    \/ ReadSnapshot
    \/ SyncStep
    \/ LogStep
    \/ StateStep
    \/ FeeStep
    \/ ReadFails

ApiNext == Environment \/ Request

ApiSpec == ApiInit /\ [][ApiNext]_vars
-----------------------------------------------------------------------------
(***************************************************************************)
(* Properties                                                              *)
(***************************************************************************)

\* A client that adds up the deltas that are streamed (newFlashblockTransactions
\* and pendingLogs) holds the transactions of the block eth_getBlockByNumber
\* answers at pending, whatever blocks the snapshot spans: the delta is what
\* follows the transactions of all flashblocks before the latest.
DeltasAddUpToBlock ==
    IsSome(pending) /\ next = <<>> => streamed = LatestBlockTransactions(pending.fbs)

\* A waiting eth_sendRawTransactionSync misses no snapshot and no block that
\* lands while the pool takes the transaction or later: unless a receiver
\* lagged, one of them holds it.
SubmittedIsHeard ==
    pc = "wait" /\ due /\ ~lagged => HoldsEntry(flashQ) \/ HoldsEntry(canonQ)

\* eth_sendRawTransactionSync answers a timeout before its timer only if the
\* transaction left the chain while it ran, or the read of its receipt failed: a
\* notification of the transaction, be it the one of the reorg that reverted its
\* block, ends the wait (wait_for_canonical_receipt).
EarlyTimeoutOnlyByReorg == answer.from = "noReceipt" => removed

\* No transaction is sealed twice.
SealedOnce == \A h, k \in logs : h.tx = k.tx => h = k

\* The blocks sealed of those that the snapshot covers begin as they were streamed,
\* and what was streamed for one block is not sealed in another.
SealedAsStreamed ==
    \A l \in PendingLogs(snap.fbs) :
        /\ (\E h \in logs : h.block = l.block) =>
              \E h \in logs : h.block = l.block /\ h.index = l.index /\ h.tx = l.tx
        /\ \A h \in logs : h.tx = l.tx => h.block = l.block

\* eth_getLogs to pending answers each log once although a block of the snapshot
\* was committed between its two reads, as long as it was sealed as streamed.
LogsOnce ==
    answer.from = "logs" /\ SealedOnce /\ SealedAsStreamed =>
        \A l, m \in answer.logs : l.tx = m.tx => l = m

\* What `pending' means to the state methods: the snapshot, unless the engine
\* has a block at least as new or the anchor left the chain.
PendingIsSnapshot ==
    /\ IsSome(pending)
    /\ ~EngineCovers(LatestBlock(pending.fbs))
    /\ OnChain(pending.anchor)

\* Undisturbed, every method that reads state at pending resolves it alike: the
\* balance from the builder's map or from the state, the environment of a call
\* and its state are those of the snapshot served, or all are the provider's.
OnePending ==
    pc = "done" /\ ~disturbed =>
        /\ kind = "balance" /\ answer.from = "builder" => PendingIsSnapshot
        /\ answer.from = "overlay" =>
              /\ PendingIsSnapshot
              /\ answer.overlay = FromBundle(pending)
              /\ kind \in {"call", "estimate"} => env = <<answer.overlay>>
        /\ kind \in {"balance", "state", "call", "estimate"}
              /\ answer.from = "provider" => ~PendingIsSnapshot

\* A request at pending fails only if something moved while it ran: served_overlay
\* looks the anchor up before its state is opened.
FailsOnlyIfDisturbed == answer.from = "error" => disturbed
-----------------------------------------------------------------------------
(***************************************************************************)
(* What a document says and the code does not do                           *)
(***************************************************************************)

\* eth_getTransactionReceipt answers null only when no sealed block and no snapshot
\* holds the transaction (docs, eth_getTransactionReceipt): one that either of the
\* two holds at every moment of the request is found.
SeenThroughoutIsFound ==
    pc = "done" /\ kind = "receipt" /\ answer = NoAnswer => ~seen
=============================================================================
