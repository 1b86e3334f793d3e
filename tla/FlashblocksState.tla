-------------------------- MODULE FlashblocksState --------------------------
(***************************************************************************)
(* The pending state of the flashblocks crate: FlashblocksState            *)
(* (flashblocks/src/state.rs), the StateProcessor task                     *)
(* (flashblocks/src/processor.rs) and the task that forwards canonical     *)
(* notifications to them (flashblocks-node/src/extension.rs).              *)
(*                                                                         *)
(* Three tasks share the published snapshot `pending':                     *)
(*                                                                         *)
(*   receiver   on_flashblock_received, called by the WebSocket mailbox    *)
(*   canonical  on_canonical_block_received, once per committed block; it  *)
(*              drops a snapshot left too far behind                       *)
(*   processor  takes queued updates one at a time and is the only task    *)
(*              that publishes a snapshot                                  *)
(*                                                                         *)
(* The node below them commits and reorgs blocks at any moment.  Every     *)
(* step of a task reads the node (tip, header or state) at most once, so a *)
(* commit can fall between any two reads.                                  *)
(***************************************************************************)
EXTENDS Integers, Sequences, Canonical, PendingBlocks, FlashblockCache

CONSTANTS
    MaxDepth,       \* max_pending_blocks_depth
    Faults,         \* which of FaultKinds can happen
    MaxSent         \* bound: flashblocks ever streamed

(***************************************************************************)
(* reorg      a notification replaces canonical blocks                     *)
(* lag        the canonical stream skips notifications (Lagged)            *)
(* lose       a flashblock is lost on the way, or dropped while syncing    *)
(* disorder   the builder streams flashblocks in any order                 *)
(* provider   a provider read fails                                        *)
(* execution  executing or assembling a build fails                        *)
(***************************************************************************)
FaultKinds == {"reorg", "lag", "lose", "disorder", "provider", "execution"}

ASSUME DepthAssumption == MaxDepth \in Nat
ASSUME BoundsAssumption == MaxSent \in Nat
ASSUME FaultsAssumption == Faults \subseteq FaultKinds

VARIABLES
    chain,          \* node: canonical blocks 1..best, chain[n] has number n
    minted,         \* node: number of blocks committed so far
    notes,          \* node: canonical notifications not yet received
    lastSent,       \* builder: the flashblock streamed last
    sent,           \* builder: number of flashblocks streamed
    lastCanonical,  \* last_canonical_block
    inclusionFee,   \* inclusion_fee: block its flashblock was for, 0 if None
    queue,          \* queue / rx, the processor's channel
    pending,        \* pending_blocks, the published snapshot
    cache,          \* the processor's FlashblockCache
    canonPc,        \* canonical task: where it stands
    committed,      \* canonical task: blocks of the notification still to do
    judged,         \* canonical task: pending is the very snapshot it judged stale
    pc,             \* processor: where it stands
    update,         \* processor: the update being processed
    prev,           \* processor: the snapshot loaded for it
    target,         \* processor: the flashblocks being built
    reuse,          \* processor: prev's bundle is the prestate of the build
    anchor,         \* processor: identity of the header read for the build
    result,         \* processor: the snapshot to publish
    replay,         \* processor: drained flashblocks still to apply
    announced,      \* history: flashblocks of the latest block, as broadcast
    missed          \* history: a canonical block was skipped or its handler failed

nodeVars  == <<chain, minted, notes>>
feedVars  == <<lastSent, sent>>
canonVars == <<canonPc, committed>>
buildVars == <<target, reuse, anchor>>
procVars  == <<pc, update, prev, buildVars, result, replay>>
vars == <<nodeVars, feedVars, lastCanonical, inclusionFee, queue, pending,
          cache, canonVars, judged, procVars, announced, missed>>

-----------------------------------------------------------------------------
NoFlashblock == [block |-> 0, index |-> 0, payload |-> 0, txs |-> <<>>, fee |-> FALSE]

\* StateUpdate, and the processor holding none.
Update == [kind : {"canonical"}, block : Block]
              \cup [kind : {"flashblock"}, fb : Flashblocks]
NoUpdate == [kind |-> "none"]

Unknown == -1   \* canonical_tip's None

Best == Len(chain)

\* header_by_number: block 0 is the genesis block, identity 0.
HasHeader(number) == number <= Best
HeaderId(number) == IF number = 0 THEN 0 ELSE chain[number].id

\* canonical_tip: the height the provider reports, or unknown when it fails.
TipReads == {Best} \cup (IF "provider" \in Faults THEN {Unknown} ELSE {})

\* effective_canonical_number.
EffectiveCanonical(notified, tip) ==
    IF tip = Unknown \/ tip <= notified THEN notified ELSE tip

IsSuperseded(fb, tip) == fb.block <= EffectiveCanonical(lastCanonical, tip)

IsAnchoredNear(fbs, best) == SaturatingSub(best, EarliestBlock(fbs)) <= MaxDepth

ExtendsCanonicalTip(fbs, tip) ==
    \/ tip = Unknown
    \/ IsAnchoredNear(fbs, tip) /\ LatestBlock(fbs) > tip

Publishable(snapshot, tip) ==
    IF IsSome(snapshot) /\ ExtendsCanonicalTip(snapshot.fbs, tip)
    THEN snapshot
    ELSE NoSnapshot

-----------------------------------------------------------------------------
Init ==
    /\ chain = FirstBlocks
    /\ minted = StartHeight
    /\ notes = <<>>
    /\ lastSent = NoFlashblock
    /\ sent = 0
    /\ lastCanonical = 0
    /\ inclusionFee = 0
    /\ queue = <<>>
    /\ pending = NoSnapshot
    /\ \/ cache = NewCache(StartHeight)
       \/ "provider" \in Faults /\ cache = NewCache(0)
    /\ canonPc = "idle"
    /\ committed = <<>>
    /\ judged = FALSE
    /\ pc = "idle"
    /\ update = NoUpdate
    /\ prev = NoSnapshot
    /\ target = {}
    /\ reuse = FALSE
    /\ anchor = 0
    /\ result = NoSnapshot
    /\ replay = {}
    /\ announced = <<>>
    /\ missed = FALSE

-----------------------------------------------------------------------------
(***************************************************************************)
(* The node.  A notification commits the blocks above `keep'; when it      *)
(* keeps fewer blocks than the chain has, it is a reorg.  The chain is     *)
(* changed before the notification is sent.                                *)
(***************************************************************************)
Commit(keep, bodies) ==
    LET new == NewBlocks(keep, minted, bodies)
    IN  /\ keep = Best \/ "reorg" \in Faults
        /\ minted + Len(bodies) <= MaxMinted
        /\ chain' = SubSeq(chain, 1, keep) \o new
        /\ minted' = minted + Len(bodies)
        /\ notes' = Append(notes, new)
        /\ UNCHANGED <<feedVars, lastCanonical, inclusionFee, queue, pending,
                       cache, canonVars, judged, procVars, announced, missed>>

NodeStep ==
    \E keep \in 0..Best, k \in 1..MaxCommit :
        \E bodies \in BodyLists(keep, k) : Commit(keep, bodies)

-----------------------------------------------------------------------------
(***************************************************************************)
(* The builder.  After f it streams f's successor in the payload, the      *)
(* first flashblock of the next block, or the first flashblock of a new    *)
(* payload for the same block (SequenceValidationResult's documentation).  *)
(***************************************************************************)
BuilderFollows(f, g) ==
    \/ g.block = f.block /\ g.index = f.index + 1 /\ g.payload = f.payload
    \/ g.block = f.block + 1 /\ g.index = 0
    \/ g.block = f.block /\ g.index = 0 /\ g.payload > f.payload

Stream(fb) ==
    /\ sent < MaxSent
    /\ \/ lastSent = NoFlashblock
       \/ BuilderFollows(lastSent, fb)
       \/ "disorder" \in Faults
    /\ lastSent' = fb
    /\ sent' = sent + 1

\* on_flashblock_received.
OnFlashblockReceived(fb) ==
    /\ Stream(fb)
    /\ IF fb.block <= lastCanonical
       THEN UNCHANGED <<inclusionFee, queue>>
       ELSE /\ inclusionFee' = IF fb.fee THEN fb.block ELSE 0
            /\ queue' = Append(queue, [kind |-> "flashblock", fb |-> fb])
    /\ UNCHANGED <<nodeVars, lastCanonical, pending, cache, canonVars, judged,
                   procVars, announced, missed>>

\* The flashblock does not arrive, or on_flashblock_received finds the node
\* syncing and returns.
LoseFlashblock(fb) ==
    /\ "lose" \in Faults
    /\ Stream(fb)
    /\ UNCHANGED <<nodeVars, lastCanonical, inclusionFee, queue, pending, cache,
                   canonVars, judged, procVars, announced, missed>>

FeedStep == \E fb \in Flashblocks : OnFlashblockReceived(fb) \/ LoseFlashblock(fb)

-----------------------------------------------------------------------------
(***************************************************************************)
(* The canonical task: on_canonical_block_received for each block of a     *)
(* notification, in the three steps another task can fall between.         *)
(***************************************************************************)

\* Take the next block and store its number.
StoreLastCanonical ==
    /\ canonPc = "idle"
    /\ \/ committed # <<>> /\ UNCHANGED <<committed, notes>>
       \/ /\ committed = <<>>
          /\ notes # <<>>
          /\ committed' = Head(notes)
          /\ notes' = Tail(notes)
    /\ lastCanonical' = Head(committed').number
    /\ canonPc' = "judge"
    /\ UNCHANGED <<chain, minted, feedVars, inclusionFee, queue, pending, cache,
                   judged, procVars, announced, missed>>

\* drop_pending_behind up to the compare-and-swap: load the snapshot, judge it.
JudgePending ==
    /\ canonPc = "judge"
    /\ judged' = /\ IsSome(pending)
                 /\ ~IsAnchoredNear(pending.fbs, Head(committed).number)
    /\ canonPc' = "finish"
    /\ UNCHANGED <<nodeVars, feedVars, lastCanonical, inclusionFee, queue,
                   pending, cache, committed, procVars, announced, missed>>

\* The compare-and-swap clears the snapshot only if it is still the judged one;
\* then the block goes to the processor.
DropJudgedAndSend ==
    /\ canonPc = "finish"
    /\ pending' = IF judged THEN NoSnapshot ELSE pending
    /\ judged' = FALSE
    /\ queue' = Append(queue, [kind |-> "canonical", block |-> Head(committed)])
    /\ committed' = Tail(committed)
    /\ canonPc' = "idle"
    /\ UNCHANGED <<nodeVars, feedVars, lastCanonical, inclusionFee, cache,
                   procVars, announced, missed>>

\* The broadcast stream reports Lagged and continues after the lost entry.
Lagged ==
    /\ "lag" \in Faults
    /\ notes # <<>>
    /\ notes' = Tail(notes)
    /\ missed' = TRUE
    /\ UNCHANGED <<chain, minted, feedVars, lastCanonical, inclusionFee, queue,
                   pending, cache, canonVars, judged, procVars, announced>>

CanonStep == StoreLastCanonical \/ JudgePending \/ DropJudgedAndSend

-----------------------------------------------------------------------------
(***************************************************************************)
(* The processor.  One update goes through                                 *)
(*                                                                         *)
(*   idle -> decide -> [anchor -> execute ->] publish -> swap -> idle      *)
(*                                                                         *)
(* and an error returns it to idle with the published snapshot as it was.  *)
(***************************************************************************)
Done ==
    /\ pc' = "idle"
    /\ update' = NoUpdate
    /\ prev' = NoSnapshot
    /\ target' = {}
    /\ reuse' = FALSE
    /\ anchor' = 0
    /\ result' = NoSnapshot

\* load_pending_or_drop_stale, the start of every update.
LoadPendingOrDropStale ==
    /\ pc' = "decide"
    /\ \E tip \in TipReads :
          IF \/ ~IsSome(pending)
             \/ tip = Unknown
             \/ IsAnchoredNear(pending.fbs, tip)
          THEN prev' = pending /\ UNCHANGED <<pending, judged>>
          ELSE prev' = NoSnapshot /\ pending' = NoSnapshot /\ judged' = FALSE
    /\ UNCHANGED <<nodeVars, feedVars, lastCanonical, inclusionFee, cache,
                   canonVars, buildVars, result, announced, missed>>

\* Take the next update from the channel.
Receive ==
    /\ pc = "idle"
    /\ replay = {}
    /\ queue # <<>>
    /\ update' = Head(queue)
    /\ queue' = Tail(queue)
    /\ UNCHANGED replay
    /\ LoadPendingOrDropStale

\* Take the next drained flashblock; drain sorted them by index.
ReplayNext ==
    /\ pc = "idle"
    /\ \E fb \in replay :
          /\ \A g \in replay : fb.index <= g.index
          /\ update' = [kind |-> "flashblock", fb |-> fb]
          /\ replay' = replay \ {fb}
    /\ UNCHANGED queue
    /\ LoadPendingOrDropStale

\* What deciding on an update leaves alone.
publishedVars == <<nodeVars, feedVars, lastCanonical, inclusionFee, queue,
                   pending, canonVars, judged, announced>>

\* build_pending_state is called; for no flashblocks it returns Ok(None).
StartBuild(fbs, withPrev) ==
    /\ pc' = IF fbs = {} THEN "publish" ELSE "anchor"
    /\ target' = fbs
    /\ reuse' = withPrev
    /\ UNCHANGED <<publishedVars, missed, update, prev, anchor, result, replay, cache>>

\* The handler has its result without a build.
Resolve(snapshot) ==
    /\ pc' = "publish"
    /\ result' = snapshot
    /\ UNCHANGED <<publishedVars, missed, update, prev, buildVars, replay, cache>>

\* The handler fails or returns early: the published snapshot stays.
GiveUp(newCache) ==
    /\ cache' = newCache
    /\ missed' = (missed \/ update.kind = "canonical")
    /\ Done
    /\ UNCHANGED <<publishedVars, replay>>

(***************************************************************************)
(* A flashblock, queued or replayed: apply_flashblock up to the result,    *)
(* with process_flashblock.                                                *)
(***************************************************************************)
DecidingFlashblock == pc = "decide" /\ update.kind = "flashblock"

SkipSuperseded ==
    /\ DecidingFlashblock
    /\ \E tip \in TipReads : IsSuperseded(update.fb, tip)
    /\ GiveUp(cache)

\* The flashblock is not superseded; `some' says whether there is a snapshot.
Applying(some) ==
    /\ DecidingFlashblock
    /\ \E tip \in TipReads : ~IsSuperseded(update.fb, tip)
    /\ IsSome(prev) = some

BuildFirst ==
    /\ Applying(FALSE)
    /\ update.fb.index = 0
    /\ StartBuild({update.fb}, FALSE)

\* Mutant of CacheFollower: cached whether or not its predecessor is.
CacheAnyFollower ==
    /\ Applying(FALSE)
    /\ update.fb.index > 0
    /\ GiveUp(Insert(cache, update.fb))

\* MissingFirstFlashblock: kept only behind a cached predecessor.
CacheFollower ==
    /\ Applying(FALSE)
    /\ update.fb.index > 0
    /\ GiveUp(IF HasFlashblock(cache, update.fb.block, update.fb.index - 1)
              THEN Insert(cache, update.fb)
              ELSE cache)

Verdict == Validate(LatestFlashblock(prev.fbs), update.fb)

ExtendPending ==
    /\ Applying(TRUE)
    /\ Verdict \in {"NextInSequence", "FirstOfNextBlock"}
    /\ StartBuild(prev.fbs \cup {update.fb}, TRUE)

\* Mutant of RestartBlock: the dropped payload's bundle stays the prestate.
RestartOnOldBundle ==
    /\ Applying(TRUE)
    /\ Verdict = "NewPayloadForCurrentBlock"
    /\ StartBuild({update.fb}, TRUE)

RestartBlock ==
    /\ Applying(TRUE)
    /\ Verdict = "NewPayloadForCurrentBlock"
    /\ StartBuild({update.fb}, FALSE)

IgnoreDuplicate ==
    /\ Applying(TRUE)
    /\ Verdict = "Duplicate"
    /\ Resolve(prev)

ClearOutOfSequence ==
    /\ Applying(TRUE)
    /\ Verdict \in {"InvalidNewBlockIndex", "NonSequentialGap"}
    /\ Resolve(NoSnapshot)

FlashblockStep ==
    SkipSuperseded \/ BuildFirst \/ CacheFollower \/ ExtendPending
        \/ RestartBlock \/ IgnoreDuplicate \/ ClearOutOfSequence

(***************************************************************************)
(* A canonical block: process_canonical_block up to the result.  The reorg *)
(* test looks at the block notified, the strategy at the effective height. *)
(***************************************************************************)
DecidingCanonical == pc = "decide" /\ update.kind = "canonical"

NothingToReconcile ==
    /\ DecidingCanonical
    /\ ~IsSome(prev)
    /\ Resolve(NoSnapshot)

\* The strategy chosen when the effective canonical height is `canonical'.
Strategy(canonical) ==
    Reconcile(EarliestBlock(prev.fbs), LatestBlock(prev.fbs), canonical, MaxDepth,
              RequiresRebuild(Detect(TransactionsForBlock(prev.fbs, update.block.number),
                                     update.block.txs)))

\* Mutant of ReconcileAt: a snapshot the chain caught up with ends the handler
\* before anything is published.
ReconcileWithoutClearing(tip) ==
    LET canonical == EffectiveCanonical(update.block.number, tip)
        strategy == Strategy(canonical)
    IN  \/ strategy = "CatchUp" /\ GiveUp(cache)
        \/ /\ strategy \in {"HandleReorg", "DepthLimitExceeded"}
           /\ StartBuild({f \in prev.fbs : f.block > canonical}, FALSE)
        \/ strategy = "Continue" /\ StartBuild(prev.fbs, TRUE)

ReconcileAt(tip) ==
    LET canonical == EffectiveCanonical(update.block.number, tip)
        strategy == Strategy(canonical)
    IN  \/ strategy = "CatchUp" /\ Resolve(NoSnapshot)
        \/ /\ strategy \in {"HandleReorg", "DepthLimitExceeded"}
           /\ StartBuild({f \in prev.fbs : f.block > canonical}, FALSE)
        \/ strategy = "Continue" /\ StartBuild(prev.fbs, TRUE)

ReconcileCanonical ==
    /\ DecidingCanonical
    /\ IsSome(prev)
    /\ \E tip \in TipReads : ReconcileAt(tip)

CanonicalStep == NothingToReconcile \/ ReconcileCanonical

(***************************************************************************)
(* build_pending_state.  The parent header and the parent state are two    *)
(* reads by number.                                                        *)
(***************************************************************************)
ParentNumber == EarliestBlock(target) - 1

\* Mutant of ReadAnchor: the tip is taken for the parent of the earliest block.
ReadTipAsAnchor ==
    /\ pc = "anchor"
    /\ HasHeader(ParentNumber)
    /\ anchor' = HeaderId(Best)
    /\ pc' = "execute"
    /\ UNCHANGED <<publishedVars, missed, update, prev, target, reuse, result, replay,
                   cache>>

ReadAnchor ==
    /\ pc = "anchor"
    /\ HasHeader(ParentNumber)
    /\ anchor' = HeaderId(ParentNumber)
    /\ pc' = "execute"
    /\ UNCHANGED <<publishedVars, missed, update, prev, target, reuse, result, replay,
                   cache>>

\* MissingCanonicalHeader: a flashblock waits in the cache for its parent.
ParentMissing ==
    /\ pc = "anchor"
    /\ ~HasHeader(ParentNumber)
    /\ GiveUp(IF update.kind = "flashblock" THEN Insert(cache, update.fb) ELSE cache)

Execute ==
    /\ pc = "execute"
    /\ HasHeader(ParentNumber)
    /\ ~HasDuplicateTransaction(target)
    /\ result' = [fbs    |-> target,
                  anchor |-> anchor,
                  bases  |-> {HeaderId(ParentNumber)}
                                 \cup (IF reuse THEN prev.bases ELSE {})]
    /\ pc' = "publish"
    /\ UNCHANGED <<publishedVars, missed, update, prev, buildVars, replay, cache>>

\* Every other error: it is logged, and nothing else happens.
BuildFails ==
    /\ \/ pc = "anchor" /\ "provider" \in Faults
       \/ /\ pc = "execute"
          /\ \/ ~HasHeader(ParentNumber)
             \/ HasDuplicateTransaction(target)
             \/ Faults \cap {"provider", "execution"} # {}
    /\ GiveUp(cache)

BuildStep == ReadAnchor \/ ParentMissing \/ Execute \/ BuildFails

(***************************************************************************)
(* Publication.  A flashblock's snapshot is broadcast before it is stored, *)
(* unless it is the one already held; a canonical block's is not broadcast *)
(* but updates the cache and drains the next block's flashblocks.          *)
(***************************************************************************)
\* Mutant of Announce: the snapshot already held is broadcast again.
AnnounceDuplicate ==
    /\ pc = "publish"
    /\ \E tip \in TipReads :
          /\ result' = Publishable(result, tip)
          /\ announced' = IF update.kind = "flashblock" /\ IsSome(result')
                          THEN ApplyBatch(announced, result')
                          ELSE announced
    /\ pc' = "swap"
    /\ UNCHANGED <<nodeVars, feedVars, lastCanonical, inclusionFee, queue, pending,
                   canonVars, judged, missed, update, prev, buildVars, replay, cache>>

\* Mutant of Announce: the build is broadcast before it is checked against the
\* tip, so a snapshot can be broadcast and then not published.
AnnounceUnchecked ==
    /\ pc = "publish"
    /\ \E tip \in TipReads :
          /\ result' = Publishable(result, tip)
          /\ announced' = IF /\ update.kind = "flashblock"
                             /\ IsSome(result)
                             /\ result # prev
                          THEN ApplyBatch(announced, result)
                          ELSE announced
    /\ pc' = "swap"
    /\ UNCHANGED <<nodeVars, feedVars, lastCanonical, inclusionFee, queue, pending,
                   canonVars, judged, missed, update, prev, buildVars, replay, cache>>

Announce ==
    /\ pc = "publish"
    /\ \E tip \in TipReads :
          /\ result' = Publishable(result, tip)
          /\ announced' = IF /\ update.kind = "flashblock"
                             /\ IsSome(result')
                             /\ result' # prev
                          THEN ApplyBatch(announced, result')
                          ELSE announced
    /\ pc' = "swap"
    /\ UNCHANGED <<nodeVars, feedVars, lastCanonical, inclusionFee, queue, pending,
                   canonVars, judged, missed, update, prev, buildVars, replay, cache>>

\* Whether the snapshot stored is the Arc loaded at the start of the update.
SameArc == update.kind = "flashblock" /\ IsSome(prev) /\ result = prev

\* Mutant of Swap: the canonical block's own flashblocks are drained, which
\* update_canonical has just removed, and not those of the block after it.
SwapDrainingSameBlock ==
    /\ pc = "swap"
    /\ pending' = result
    /\ judged' = (judged /\ SameArc)
    /\ IF update.kind = "canonical"
       THEN LET number == update.block.number
                updated == UpdateCanonical(cache, number)
            IN  /\ cache' = AfterDrain(updated, number)
                /\ replay' = Drained(updated, number)
       ELSE UNCHANGED <<cache, replay>>
    /\ Done
    /\ UNCHANGED <<nodeVars, feedVars, lastCanonical, inclusionFee, queue,
                   canonVars, announced, missed>>

Swap ==
    /\ pc = "swap"
    /\ pending' = result
    /\ judged' = (judged /\ SameArc)
    /\ IF update.kind = "canonical"
       THEN LET number == update.block.number
                updated == UpdateCanonical(cache, number)
            IN  /\ cache' = AfterDrain(updated, number + 1)
                /\ replay' = Drained(updated, number + 1)
       ELSE UNCHANGED <<cache, replay>>
    /\ Done
    /\ UNCHANGED <<nodeVars, feedVars, lastCanonical, inclusionFee, queue,
                   canonVars, announced, missed>>

ProcStep ==
    \/ Receive
    \/ ReplayNext
    \/ FlashblockStep
    \/ CanonicalStep
    \/ BuildStep
    \/ Announce
    \/ Swap

-----------------------------------------------------------------------------
Next == NodeStep \/ FeedStep \/ CanonStep \/ Lagged \/ ProcStep

Spec == Init /\ [][Next]_vars

(***************************************************************************)
(* Both tasks are tokio tasks that only wait for their channel, and every  *)
(* step in between terminates, so a task with work to do takes a step.     *)
(* Nothing is assumed of the node or of the builder.                       *)
(***************************************************************************)
FairSpec == Spec /\ WF_vars(ProcStep) /\ WF_vars(CanonStep)
-----------------------------------------------------------------------------
(***************************************************************************)
(* Properties                                                              *)
(***************************************************************************)

\* Type correctness: every variable of the three tasks keeps its type.
TypeOK ==
    /\ chain \in Seq(Block)
    /\ minted \in Nat
    /\ notes \in Seq(Seq(Block) \ {<<>>})
    /\ lastSent \in Flashblocks \cup {NoFlashblock}
    /\ sent \in Nat
    /\ lastCanonical \in Nat
    /\ inclusionFee \in Nat
    /\ queue \in Seq(Update)
    /\ pending \in Snapshot
    /\ cache \in [entries : SUBSET Flashblocks, latest : Nat]
    /\ canonPc \in {"idle", "judge", "finish"}
    /\ committed \in Seq(Block)
    /\ canonPc # "idle" => committed # <<>>
    /\ judged \in BOOLEAN
    /\ pc \in {"idle", "decide", "anchor", "execute", "publish", "swap"}
    /\ update \in Update \cup {NoUpdate}
    /\ (pc = "idle") <=> (update = NoUpdate)
    /\ prev \in Snapshot
    /\ target \in SUBSET Flashblocks
    /\ pc \in {"anchor", "execute"} => target # {}
    /\ reuse \in BOOLEAN
    /\ anchor \in BlockIds
    /\ result \in Snapshot
    /\ replay \in SUBSET Flashblocks
    /\ announced \in Seq(Flashblocks)

\* The snapshot served is gap-free, whatever the builder streams, the feed
\* loses, the chain reorgs or the reads of the node return: process_flashblock
\* appends only in sequence, and the reorg and depth paths of
\* process_canonical_block cut at a block boundary.
PendingGapFree == GapFree(pending.fbs)

\* A subscriber that got every broadcast was streamed every flashblock of the
\* block the node serves exactly once and in order, except between a broadcast
\* and the store that follows it: a duplicate is not streamed again, and a
\* rebuild by a canonical block, which is not streamed, keeps the latest block.
AnnouncedIsServed ==
    pc # "swap" /\ IsSome(pending) => StreamedOnce(announced, pending.fbs)

\* The snapshot is too far behind the node's tip, or does not extend it.
Stale == IsSome(pending) /\ ~ExtendsCanonicalTip(pending.fbs, Best)

CanonicalUpdateOutstanding ==
    \/ notes # <<>>
    \/ committed # <<>>
    \/ \E i \in DOMAIN queue : queue[i].kind = "canonical"
    \/ update.kind = "canonical"

\* The invariant of publishable: pending state tracks the node's current tip or
\* is absent, up to a canonical block still on its way to the processor.
StaleOnlyUntilNotified == Stale => CanonicalUpdateOutstanding

\* There was no reorg: every block ever committed is on the chain.
ChainOnlyGrew == minted = Best

\* The anchor recorded in the snapshot is the one block its bundle was executed
\* against (with_anchor), until the first reorg.
AnchorIsBase == ChainOnlyGrew /\ IsSome(pending) => pending.bases = {pending.anchor}

\* The anchor is the canonical parent of the earliest pending block, until the first
\* reorg.
AnchorIsCanonicalParent ==
    ChainOnlyGrew /\ IsSome(pending) =>
        /\ EarliestBlock(pending.fbs) - 1 <= Best
        /\ pending.anchor = HeaderId(EarliestBlock(pending.fbs) - 1)

\* Whatever is cached for a block can be replayed from its first flashblock: a
\* flashblock is cached only as a first one or behind its cached predecessor; until
\* the first reorg.
CacheReplayable ==
    ChainOnlyGrew =>
        \A f \in cache.entries : f.index > 0 =>
            HasFlashblock(cache, f.block, f.index - 1)

\* The cache holds flashblocks of a bounded window above the canonical block,
\* at most one per position in it; until the first reorg.
CacheBounded ==
    ChainOnlyGrew =>
        /\ \A f \in cache.entries :
              f.block \in cache.latest + 1 .. cache.latest + MaxCacheAhead + 1
        /\ \A f, g \in cache.entries :
              f.block = g.block /\ f.index = g.index => f = g

\* Once its parent block is canonical, a cached flashblock stays in the cache
\* only until the canonical update on its way drains it; until the first reorg, the
\* first notification that is skipped or the first canonical block whose handler fails.
NoFlashblockStranded ==
    ChainOnlyGrew /\ ~missed =>
        ((\E f \in cache.entries : f.block <= Best + 1) => CanonicalUpdateOutstanding)

\* A snapshot that stopped tracking the tip is eventually replaced or dropped.
StaleEventuallyDropped == Stale ~> ~Stale
-----------------------------------------------------------------------------
(***************************************************************************)
(* Refinement                                                              *)
(***************************************************************************)
ViewOf(snapshot) == [fbs |-> snapshot.fbs, anchor |-> snapshot.anchor]

Contract == INSTANCE Publisher
                WITH pending <- ViewOf(pending),
                     next <- IF pc = "swap" THEN <<ViewOf(result)>> ELSE <<>>

\* What readers of the snapshot see of the three tasks is a behaviour of
\* Publisher: every store follows the broadcast of that very snapshot, the only
\* other change is a drop, and nothing is published that has a gap or that
\* differs from what was broadcast.
ImplementsPublisher == Contract!Spec
-----------------------------------------------------------------------------
(***************************************************************************)
(* What comments and documents say and the code does not do                *)
(***************************************************************************)

\* The builder starts the block again: the node drops the flashblocks it held
\* and builds from the new payload (docs/rpc-overview.md), so one block is
\* never served from two payloads.
OnePayloadPerBlock ==
    \A f, g \in pending.fbs : f.block = g.block => f.payload = g.payload

\* drop_pending_behind bounds staleness by chain progress: once the canonical
\* task has handled a block, no snapshot served is further behind it.
BehindOnlyWhileReceiving ==
    canonPc = "idle" /\ IsSome(pending) => IsAnchoredNear(pending.fbs, lastCanonical)
=============================================================================
