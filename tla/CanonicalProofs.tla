-------------------------- MODULE CanonicalProofs ---------------------------
(***************************************************************************)
(* Proofs about FlashblocksState until a fault of some kind happens: what  *)
(* a snapshot is anchored to and what the flashblock cache holds until the *)
(* first reorg, and how long a snapshot may be stale when no notification  *)
(* is skipped and no read fails.  The code relies on the absence of these  *)
(* faults: with any of them TLC finds a behaviour that breaks the          *)
(* property.                                                               *)
(***************************************************************************)
EXTENDS FlashblocksStateProofs

(***************************************************************************)
(* Anchors.  Without a reorg the header at a height never changes, so a    *)
(* snapshot keeps the parent it was built on, and a build that reuses the  *)
(* previous bundle starts at the same block as that one.                   *)
(***************************************************************************)
Anchored(s) ==
    IsSome(s) =>
        /\ s.bases = {s.anchor}
        /\ EarliestBlock(s.fbs) - 1 <= Best
        /\ s.anchor = HeaderId(EarliestBlock(s.fbs) - 1)

AnchorInv ==
    /\ Anchored(pending) /\ Anchored(prev) /\ Anchored(result)
    /\ pc \in {"anchor", "execute"} /\ reuse =>
          IsSome(prev) /\ EarliestBlock(target) = EarliestBlock(prev.fbs)
    /\ pc = "execute" => HasHeader(ParentNumber) /\ anchor = HeaderId(ParentNumber)

(***************************************************************************)
(* Canonical blocks on their way to the processor, in the order they were  *)
(* committed.                                                              *)
(***************************************************************************)
CanonicalPlaces(q) == {i \in DOMAIN q : q[i].kind = "canonical"}
NumbersQueued(q) == {q[i].block.number : i \in CanonicalPlaces(q)}
NumbersIn(blocks) == {blocks[j].number : j \in DOMAIN blocks}
NumbersNoted(ns) == UNION {NumbersIn(ns[i]) : i \in DOMAIN ns}

Awaited == NumbersQueued(queue) \cup NumbersIn(committed) \cup NumbersNoted(notes)

Ascending(blocks) ==
    \A i, j \in DOMAIN blocks : i < j => blocks[i].number <= blocks[j].number

QueueAscending(q) ==
    \A i, j \in CanonicalPlaces(q) : i < j => q[i].block.number <= q[j].block.number

NotesAscending(ns) ==
    /\ \A i \in DOMAIN ns : Ascending(ns[i])
    /\ \A i, j \in DOMAIN ns : i < j =>
          \A x \in NumbersIn(ns[i]), y \in NumbersIn(ns[j]) : x <= y

OrderInv ==
    /\ QueueAscending(queue) /\ Ascending(committed) /\ NotesAscending(notes)
    /\ lastCanonical <= Best
    /\ canonPc # "idle" => Head(committed).number = lastCanonical
    /\ \A x \in NumbersQueued(queue) : x <= lastCanonical
    /\ \A x \in NumbersIn(committed) \cup NumbersNoted(notes) : lastCanonical <= x
    /\ \A x \in NumbersIn(committed), y \in NumbersNoted(notes) : x <= y
    /\ \A x \in Awaited : x <= Best
    /\ update.kind = "canonical" =>
          /\ update.block.number <= Best
          /\ \A x \in Awaited : update.block.number <= x

(***************************************************************************)
(* The cache follows the canonical blocks the processor has handled.       *)
(***************************************************************************)
Caches == [entries : SUBSET Flashblocks, latest : Nat]

\* CacheBounded and CacheReplayable of a cache c.
Windowed(c) ==
    /\ \A f \in c.entries : f.block \in c.latest + 1 .. c.latest + MaxCacheAhead + 1
    /\ \A f, g \in c.entries : f.block = g.block /\ f.index = g.index => f = g

Replayable(c) ==
    \A f \in c.entries : f.index > 0 => HasFlashblock(c, f.block, f.index - 1)

WindowInv ==
    /\ cache.latest <= Best
    /\ \A x \in Awaited : cache.latest <= x
    /\ update.kind = "canonical" => cache.latest <= update.block.number
    /\ Windowed(cache)

(***************************************************************************)
(* The last canonical block on its way is the tip.                         *)
(***************************************************************************)
NoneWaitsAlone ==
    (\E f \in cache.entries : f.block <= Best + 1) => CanonicalUpdateOutstanding

TipInv ==
    /\ CanonicalUpdateOutstanding =>
          Best \in Awaited \/ (update.kind = "canonical" /\ update.block.number = Best)
    /\ NoneWaitsAlone

(***************************************************************************)
(* All of that together, as long as the chain only grew, and what is said  *)
(* of the tip as long as no canonical block was missed either.             *)
(***************************************************************************)
GrownInv ==
    /\ minted >= Best
    /\ ChainOnlyGrew =>
          /\ AnchorInv /\ OrderInv /\ WindowInv /\ Replayable(cache)
          /\ ~missed => TipInv

\* A step that is no reorg, on a chain that had none.
GrowingStep == ChainOnlyGrew /\ ChainOnlyGrew'

\* The build of a canonical block has its parent.
ParentInv ==
    pc \in {"anchor", "execute"} /\ update.kind = "canonical" => HasHeader(ParentNumber)

(***************************************************************************)
(* Staleness.  While no other canonical block is on its way the tip has    *)
(* not moved since the update in hand was taken, so what load_pending and  *)
(* the reconciler found still holds.                                       *)
(***************************************************************************)
Notified == notes # <<>> \/ committed # <<>> \/ CanonicalPlaces(queue) # {}

FreshInv ==
    /\ StaleOnlyUntilNotified
    /\ pc # "idle" => pending = prev \/ ~IsSome(pending)
    /\ pc # "idle" /\ ~Notified /\ IsSome(prev) => IsAnchoredNear(prev.fbs, Best)
    /\ pc \in {"anchor", "execute"} /\ ~Notified /\ update.kind = "canonical" =>
          LatestBlock(prev.fbs) > Best
    /\ pc = "swap" /\ ~Notified /\ IsSome(result) => ExtendsCanonicalTip(result.fbs, Best)

-----------------------------------------------------------------------------
(***************************************************************************)
(* Anchors                                                                 *)
(***************************************************************************)

\* What a step leaves of the headers that exist.
HeadersKept ==
    /\ Best' \in Nat /\ Best' >= Best
    /\ \A n \in 0..Best : HeaderId(n)' = HeaderId(n)

\* Only the node changes the chain, and no step takes back what was missed.
LEMMA ChainOfStep ==
    ASSUME [Next]_vars
    PROVE  /\ ~NodeStep => UNCHANGED <<chain, minted>>
           /\ missed' = missed \/ missed' = TRUE \/ (missed' = (missed \/ update.kind = "canonical"))
<1> USE DEF publishedVars, nodeVars
<1>1. CASE NodeStep
  BY <1>1 DEF NodeStep, Commit
<1>2. CASE FeedStep \/ CanonStep \/ Lagged \/ UNCHANGED vars
  BY <1>2
  DEF FeedStep, OnFlashblockReceived, LoseFlashblock, CanonStep, StoreLastCanonical,
      JudgePending, DropJudgedAndSend, Lagged, vars
<1>3. CASE Receive \/ ReplayNext \/ Announce \/ Swap
  BY <1>3 DEF Receive, ReplayNext, LoadPendingOrDropStale, Announce, Swap
<1>4. CASE FlashblockStep
  BY <1>4
  DEF FlashblockStep, SkipSuperseded, BuildFirst, CacheFollower, ExtendPending, RestartBlock,
      IgnoreDuplicate, ClearOutOfSequence, GiveUp, StartBuild, Resolve
<1>5. CASE CanonicalStep
  BY <1>5
  DEF CanonicalStep, NothingToReconcile, ReconcileCanonical, ReconcileAt, StartBuild, Resolve
<1>6. CASE BuildStep
  BY <1>6 DEF BuildStep, ReadAnchor, ParentMissing, Execute, BuildFails, GiveUp
<1> QED BY <1>1, <1>2, <1>3, <1>4, <1>5, <1>6 DEF Next, ProcStep

\* What a commit of k blocks above `keep' adds up to.
LEMMA CommitCounts ==
    ASSUME TypeOK, NEW keep \in 0..Best, NEW k \in 1..MaxCommit,
           NEW bodies \in BodyLists(keep, k), Commit(keep, bodies)
    PROVE  Best' = keep + k /\ minted' = minted + k
<1>1. bodies \in [1..k -> TxLists] /\ k \in Nat \ {0}
  BY ChainBoundsAssumption DEF BodyLists
<1>2. chain \in Seq(Block) /\ minted \in Nat /\ Best \in Nat /\ Best = Len(chain)
  BY DEF TypeOK, Best
<1>3. PICK new : new = NewBlocks(keep, minted, bodies)
  OBVIOUS
<1>4. new \in Seq(Block) /\ Len(new) = k
  <2>1. new = [i \in 1..k |-> [number |-> keep + i, id |-> minted + i, txs |-> bodies[i]]]
    BY <1>1, <1>3 DEF NewBlocks
  <2>2. \A i \in 1..k : keep + i \in Nat /\ minted + i \in Nat /\ bodies[i] \in TxLists
    BY <1>1, <1>2
  <2>3. new \in [1..k -> Block]
    BY <2>1, <2>2 DEF Block, BlockIds
  <2> QED BY <1>1, <2>3
<1>5. PICK kept : kept = SubSeq(chain, 1, keep)
  OBVIOUS
<1>6. kept \in Seq(Block) /\ Len(kept) = keep
  BY <1>2, <1>5
<1>7. Len(bodies) = k
  BY <1>1
<1>8. chain' = kept \o new /\ minted' = minted + k
  BY <1>3, <1>5, <1>7 DEF Commit
<1>9. Len(kept \o new) = keep + k
  BY <1>4, <1>6
<1> QED BY <1>8, <1>9 DEF Best

\* A reorg is not forgotten: the chain never has all the blocks ever committed again.
LEMMA NextMinted ==
    TypeOK /\ minted >= Best /\ [Next]_vars =>
        (minted >= Best)' /\ (ChainOnlyGrew' => ChainOnlyGrew)
<1> SUFFICES ASSUME TypeOK, minted >= Best, [Next]_vars
             PROVE  minted' >= Best' /\ (ChainOnlyGrew' => ChainOnlyGrew)
  OBVIOUS
<1>1. minted \in Nat /\ Best \in Nat
  BY DEF TypeOK, Best
<1>2. CASE NodeStep
  <2>1. PICK keep \in 0..Best, k \in 1..MaxCommit :
           \E bodies \in BodyLists(keep, k) : Commit(keep, bodies)
    BY <1>2 DEF NodeStep
  <2>2. Best' = keep + k /\ minted' = minted + k /\ k \in Nat
    BY <2>1, CommitCounts, ChainBoundsAssumption
  <2> QED BY <1>1, <2>2 DEF ChainOnlyGrew
<1>3. CASE UNCHANGED <<chain, minted>>
  BY <1>1, <1>3 DEF ChainOnlyGrew, Best
<1>4. CASE ~NodeStep
  <2>1. UNCHANGED <<chain, minted>>
    BY <1>4, ChainOfStep
  <2> QED BY <1>3, <2>1
<1> QED BY <1>2, <1>4

\* A commit that is no reorg appends to the chain, and notifies what it appends.
LEMMA CommitAppends ==
    ASSUME TypeOK, NodeStep, GrowingStep
    PROVE  /\ HeadersKept
           /\ \E new \in Seq(Block) \ {<<>>} :
                 /\ notes' = Append(notes, new)
                 /\ Ascending(new)
                 /\ \A x \in NumbersIn(new) : Best < x /\ x <= Best'
                 /\ Best' \in NumbersIn(new)
<1>1. PICK keep \in 0..Best, k \in 1..MaxCommit :
         \E bodies \in BodyLists(keep, k) : Commit(keep, bodies)
  BY DEF NodeStep
<1>2. PICK bodies \in BodyLists(keep, k) : Commit(keep, bodies)
  BY <1>1
<1> DEFINE new == NewBlocks(keep, minted, bodies)
           kept == SubSeq(chain, 1, keep)
<1>3. bodies \in [1..k -> TxLists] /\ k \in Nat \ {0}
  BY ChainBoundsAssumption DEF BodyLists
<1>4. chain \in Seq(Block) /\ minted \in Nat /\ Best \in Nat /\ Best = Len(chain)
  BY DEF TypeOK, Best
<1>5. keep = Best /\ chain' = kept \o new /\ notes' = Append(notes, new)
  <2>1. chain' = kept \o new /\ notes' = Append(notes, new)
    BY <1>2 DEF Commit
  <2>2. Best' = keep + k /\ minted' = minted + k
    BY <1>2, CommitCounts
  <2>3. minted = Best /\ minted' = Best'
    BY DEF GrowingStep, ChainOnlyGrew
  <2>4. keep + k = Best + k
    BY <2>2, <2>3
  <2>5. keep = Best
    BY <1>3, <1>4, <2>4
  <2> QED BY <2>1, <2>5
<1>6. /\ new \in [1..k -> Block]
      /\ \A i \in 1..k : new[i].number = Best + i
  <2>1. new = [i \in 1..k |-> [number |-> keep + i, id |-> minted + i, txs |-> bodies[i]]]
    BY <1>3 DEF NewBlocks
  <2>2. \A i \in 1..k : keep + i \in Nat /\ minted + i \in Nat /\ bodies[i] \in TxLists
    BY <1>5, <1>3, <1>4
  <2> HIDE DEF new
  <2> QED BY <1>5, <2>1, <2>2 DEF Block, BlockIds
<1> HIDE DEF new
<1>7. new \in Seq(Block) \ {<<>>} /\ Len(new) = k /\ DOMAIN new = 1..k
  BY <1>3, <1>6
<1>8. kept \in Seq(Block) /\ Len(kept) = Best /\ \A n \in 1..Best : kept[n] = chain[n]
  BY <1>5, <1>4
<1> HIDE DEF kept
<1>9. Best' = Best + k /\ \A n \in 1..Best : chain'[n] = chain[n]
  <2>1. new \in Seq(Block) /\ kept \in Seq(Block)
    BY <1>7, <1>8
  <2>2. Len(kept \o new) = Len(kept) + Len(new)
    BY <2>1
  <2>3. \A n \in 1..Len(kept) : (kept \o new)[n] = kept[n]
    BY <2>1
  <2> QED BY <1>5, <1>7, <1>8, <2>2, <2>3 DEF Best
<1>10. HeadersKept
  <2>1. ASSUME NEW n \in 0..Best
        PROVE  HeaderId(n)' = HeaderId(n)
    <3>1. n = 0 \/ n \in 1..Best
      BY <1>4
    <3> QED BY <1>9, <3>1 DEF HeaderId
  <2> QED BY <1>3, <1>4, <1>9, <2>1 DEF HeadersKept
<1>11. Ascending(new)
  BY <1>3, <1>4, <1>6, <1>7 DEF Ascending
<1>12. \A x \in NumbersIn(new) : Best < x /\ x <= Best'
  BY <1>3, <1>4, <1>6, <1>7, <1>9 DEF NumbersIn
<1>13. Best' \in NumbersIn(new)
  BY <1>3, <1>6, <1>7, <1>9 DEF NumbersIn
<1> QED BY <1>5, <1>7, <1>10, <1>11, <1>12, <1>13

\* A step of another task does not touch the chain.
LEMMA ChainAlone ==
    ASSUME TypeOK, UNCHANGED chain
    PROVE  HeadersKept /\ Best' = Best
BY DEF TypeOK, HeadersKept, HeaderId, Best

\* A snapshot that is anchored stays so while the headers stay.
LEMMA AnchoredKept ==
    ASSUME TypeOK, HeadersKept, NEW s \in Snapshot, Anchored(s)
    PROVE  Anchored(s)'
<1> SUFFICES ASSUME IsSome(s)
             PROVE  /\ s.bases = {s.anchor}
                    /\ EarliestBlock(s.fbs) - 1 <= Best'
                    /\ s.anchor = HeaderId(EarliestBlock(s.fbs) - 1)'
  BY DEF Anchored
<1>1. s.fbs \in SUBSET Flashblocks /\ s.fbs # {}
  BY DEF Snapshot, IsSome
<1>2. PICK n : n = EarliestBlock(s.fbs) - 1
  OBVIOUS
<1>3. n \in Nat /\ n <= Best /\ s.anchor = HeaderId(n) /\ s.bases = {s.anchor}
  BY <1>1, <1>2, EarliestBlockIsLeast DEF Anchored
<1>4. Best \in Nat /\ Best' >= Best /\ n \in 0..Best
  BY <1>3 DEF TypeOK, Best, HeadersKept
<1>5. HeaderId(n)' = HeaderId(n)
  BY <1>4 DEF HeadersKept
<1>6. n <= Best'
  BY <1>3, <1>4 DEF HeadersKept
<1>7. s.anchor = HeaderId(n)'
  BY <1>3, <1>5
<1> QED BY <1>2, <1>3, <1>4, <1>6, <1>7

\* The absent snapshot is anchored to nothing.
LEMMA NoneAnchored == Anchored(NoSnapshot)
BY NoSnapshotType DEF Anchored

\* Appending a flashblock in sequence leaves the earliest block.
LEMMA EarliestKept ==
    ASSUME NEW F \in SUBSET Flashblocks, F # {}, Sequenced(F), NEW f \in Flashblocks,
           Validate(LatestFlashblock(F), f) \in {"NextInSequence", "FirstOfNextBlock"}
    PROVE  EarliestBlock(F \cup {f}) = EarliestBlock(F)
<1> DEFINE l == LatestFlashblock(F)
           G == F \cup {f}
<1>1. l \in F /\ f.block >= l.block
  BY LatestIsLast, FlashblocksAssumption DEF Validate
<1>2. PICK a \in F : a.block = EarliestBlock(F)
  BY EarliestBlockIsLeast
<1>3. EarliestBlock(F) \in Nat /\ \A g \in F : EarliestBlock(F) <= g.block
  BY EarliestBlockIsLeast
<1> HIDE DEF l
<1>4. G \in SUBSET Flashblocks /\ G # {} /\ a \in G /\ f.block \in Nat /\ l.block \in Nat
  BY <1>1, FlashblocksAssumption
<1>5. /\ EarliestBlock(G) \in Nat /\ EarliestBlock(G) <= a.block
      /\ \E g \in G : g.block = EarliestBlock(G)
  BY <1>4, EarliestBlockIsLeast
<1>6. PICK g \in G : g.block = EarliestBlock(G)
  BY <1>5
<1>7. EarliestBlock(F) <= g.block
  BY <1>1, <1>3, <1>4, <1>6
<1> QED BY <1>2, <1>3, <1>5, <1>6, <1>7

\* The number of a build's parent block.
LEMMA ParentIsNat ==
    ASSUME TypeOK, pc \in {"anchor", "execute"}
    PROVE  ParentNumber \in Nat
BY EarliestBlockIsLeast DEF TypeOK, ParentNumber

\* Nothing is anchored at first.
LEMMA InitAnchor == Init => AnchorInv
BY NoneAnchored DEF Init, AnchorInv

\* The other tasks may drop the snapshot; the chain may grow under a build.
LEMMA OtherTasksAnchor ==
    ASSUME TypeOK, AnchorInv, HeadersKept,
           pending' = pending \/ pending' = NoSnapshot, UNCHANGED procVars
    PROVE  AnchorInv'
<1>1. UNCHANGED <<pc, prev, target, reuse, anchor, result>>
  BY DEF procVars, buildVars
<1>2. pending \in Snapshot /\ prev \in Snapshot /\ result \in Snapshot /\ Best \in Nat
  BY DEF TypeOK, Best
<1>3. PICK p \in Snapshot, q \in Snapshot, r \in Snapshot :
         p = pending' /\ q = prev /\ r = result
  BY <1>2, NoSnapshotType
<1>4. Anchored(p) /\ Anchored(q) /\ Anchored(r)
  BY <1>3, NoneAnchored DEF AnchorInv
<1>5. Anchored(p)' /\ Anchored(q)' /\ Anchored(r)'
  BY <1>4, AnchoredKept
<1>6. Anchored(pending)' /\ Anchored(prev)' /\ Anchored(result)'
  BY <1>1, <1>3, <1>5 DEF Anchored, HeaderId
<1>7. ASSUME pc = "execute"
      PROVE  HasHeader(ParentNumber)' /\ anchor = HeaderId(ParentNumber)'
  <2>1. ParentNumber \in Nat /\ HasHeader(ParentNumber) /\ anchor = HeaderId(ParentNumber)
    BY <1>7, ParentIsNat DEF AnchorInv
  <2>2. PICK n : n = ParentNumber
    OBVIOUS
  <2>3. n \in 0..Best /\ n <= Best'
    BY <1>2, <2>1, <2>2 DEF HasHeader, HeadersKept
  <2>4. HeaderId(n)' = anchor
    BY <2>1, <2>2, <2>3 DEF HeadersKept
  <2>5. ParentNumber' = n
    BY <1>1, <2>2 DEF ParentNumber
  <2> QED BY <2>3, <2>4, <2>5 DEF HasHeader, HeaderId
<1> QED BY <1>1, <1>6, <1>7 DEF AnchorInv

\* A step of the processor that neither builds nor reads a header.
LEMMA NoBuildAnchor ==
    ASSUME TypeOK, UNCHANGED chain, pc' \notin {"anchor", "execute"},
           NEW p, NEW q, NEW r, pending' = p, prev' = q, result' = r,
           Anchored(p), Anchored(q), Anchored(r)
    PROVE  AnchorInv'
BY DEF AnchorInv, Anchored, HeaderId, Best

\* A build starts.
LEMMA StartAnchor ==
    ASSUME TypeOK, AnchorInv, NEW F \in SUBSET Flashblocks, NEW b \in BOOLEAN, StartBuild(F, b),
           b => IsSome(prev) /\ EarliestBlock(F) = EarliestBlock(prev.fbs)
    PROVE  AnchorInv'
<1>1. /\ UNCHANGED <<chain, pending, prev, result>>
      /\ target' = F /\ reuse' = b /\ pc' \in {"publish", "anchor"}
  BY DEF StartBuild, publishedVars, nodeVars
<1>2. Anchored(pending)' /\ Anchored(prev)' /\ Anchored(result)'
  BY <1>1 DEF AnchorInv, Anchored, HeaderId, Best
<1> QED BY <1>1, <1>2 DEF AnchorInv

\* The processor, step by step.
LEMMA ProcAnchor == IndInv /\ AnchorInv /\ ProcStep => AnchorInv'
<1> SUFFICES ASSUME IndInv, AnchorInv, ProcStep PROVE AnchorInv'
  OBVIOUS
<1>1. /\ TypeOK /\ SequenceInv
      /\ Anchored(pending) /\ Anchored(prev) /\ Anchored(result)
  BY DEF IndInv, AnchorInv
<1>2. prev.fbs \in SUBSET Flashblocks /\ prev \in Snapshot /\ Sequenced(prev.fbs)
  BY <1>1 DEF TypeOK, Snapshot, SequenceInv
<1>3. ASSUME NEW c, GiveUp(c)
      PROVE  AnchorInv'
  <2>1. /\ UNCHANGED <<chain, pending>> /\ pc' = "idle"
        /\ prev' = NoSnapshot /\ result' = NoSnapshot
    BY <1>3 DEF GiveUp, Done, publishedVars, nodeVars
  <2> QED BY <1>1, <2>1, NoneAnchored, NoBuildAnchor
<1>4. ASSUME NEW s, Resolve(s), Anchored(s)
      PROVE  AnchorInv'
  <2>1. UNCHANGED <<chain, pending, prev>> /\ pc' = "publish" /\ result' = s
    BY <1>4 DEF Resolve, publishedVars, nodeVars
  <2> QED BY <1>1, <1>4, <2>1, NoBuildAnchor
<1>5. CASE Receive \/ ReplayNext
  <2>1. /\ UNCHANGED <<chain, result>> /\ pc' = "decide"
        /\ pending' = pending \/ pending' = NoSnapshot
        /\ prev' = pending \/ prev' = NoSnapshot
    BY <1>5 DEF Receive, ReplayNext, LoadPendingOrDropStale, nodeVars
  <2> QED BY <1>1, <2>1, NoneAnchored, NoBuildAnchor
<1>6. CASE FlashblockStep
  <2> USE DEF Applying, DecidingFlashblock
  <2>1. CASE SkipSuperseded \/ CacheFollower
    BY <1>3, <2>1 DEF SkipSuperseded, CacheFollower
  <2>2. CASE BuildFirst \/ RestartBlock
    <3>1. {update.fb} \in SUBSET Flashblocks /\ StartBuild({update.fb}, FALSE)
      BY <1>1, <2>2, UpdatePayload DEF BuildFirst, RestartBlock
    <3> QED BY <1>1, <3>1, StartAnchor
  <2>3. CASE ExtendPending
    <3>1. /\ update.fb \in Flashblocks /\ IsSome(prev)
          /\ Validate(LatestFlashblock(prev.fbs), update.fb)
                 \in {"NextInSequence", "FirstOfNextBlock"}
          /\ StartBuild(prev.fbs \cup {update.fb}, TRUE)
      BY <1>1, <2>3, UpdatePayload DEF ExtendPending, Verdict
    <3>2. EarliestBlock(prev.fbs \cup {update.fb}) = EarliestBlock(prev.fbs)
      BY <1>2, <3>1, EarliestKept DEF IsSome
    <3> QED BY <1>1, <1>2, <3>1, <3>2, StartAnchor
  <2>4. CASE IgnoreDuplicate \/ ClearOutOfSequence
    BY <1>1, <1>4, <2>4, NoneAnchored DEF IgnoreDuplicate, ClearOutOfSequence
  <2> QED BY <1>6, <2>1, <2>2, <2>3, <2>4 DEF FlashblockStep
<1>7. CASE CanonicalStep
  <2>1. CASE NothingToReconcile
    BY <1>4, <2>1, NoneAnchored DEF NothingToReconcile
  <2>2. ASSUME NEW tip, IsSome(prev), ReconcileAt(tip)
        PROVE  AnchorInv'
    <3> DEFINE canonical == EffectiveCanonical(update.block.number, tip)
               kept == {f \in prev.fbs : f.block > canonical}
    <3>1. \/ Resolve(NoSnapshot)
          \/ StartBuild(kept, FALSE)
          \/ StartBuild(prev.fbs, TRUE)
      BY <2>2 DEF ReconcileAt
    <3>2. kept \in SUBSET Flashblocks
      BY <1>2
    <3> HIDE DEF kept
    <3> QED BY <1>1, <1>2, <1>4, <2>2, <3>1, <3>2, StartAnchor, NoneAnchored
  <2> QED BY <1>7, <2>1, <2>2 DEF CanonicalStep, ReconcileCanonical
<1>8. CASE ReadAnchor
  <2>1. /\ pc = "anchor" /\ pc' = "execute" /\ HasHeader(ParentNumber)
        /\ anchor' = HeaderId(ParentNumber)
        /\ UNCHANGED <<chain, pending, prev, target, reuse, result>>
    BY <1>8 DEF ReadAnchor, publishedVars, nodeVars
  <2>2. Anchored(pending)' /\ Anchored(prev)' /\ Anchored(result)'
    BY <1>1, <2>1 DEF Anchored, HeaderId, Best
  <2>3. HasHeader(ParentNumber)' /\ anchor' = HeaderId(ParentNumber)'
    BY <2>1 DEF HasHeader, HeaderId, ParentNumber, Best
  <2> QED BY <2>1, <2>2, <2>3 DEF AnchorInv
<1>9. CASE ParentMissing \/ BuildFails
  BY <1>3, <1>9 DEF ParentMissing, BuildFails
<1>10. CASE Execute
  <2>1. /\ pc = "execute" /\ pc' = "publish" /\ UNCHANGED <<chain, pending, prev>>
        /\ result' = [fbs |-> target, anchor |-> anchor,
                      bases |-> {HeaderId(ParentNumber)}
                                    \cup (IF reuse THEN prev.bases ELSE {})]
    BY <1>10 DEF Execute, publishedVars, nodeVars
  <2>2. /\ HasHeader(ParentNumber) /\ anchor = HeaderId(ParentNumber)
        /\ reuse => IsSome(prev) /\ EarliestBlock(target) = EarliestBlock(prev.fbs)
    BY <2>1 DEF AnchorInv
  <2>3. reuse => prev.bases = {HeaderId(ParentNumber)}
    BY <1>1, <2>2 DEF Anchored, ParentNumber
  <2>4. PICK r : r = result'
    OBVIOUS
  <2>5. r.fbs = target /\ r.anchor = anchor /\ r.bases = {anchor}
    BY <2>1, <2>2, <2>3, <2>4
  <2>6. Anchored(r)
    BY <2>2, <2>5 DEF Anchored, HasHeader, ParentNumber
  <2> QED BY <1>1, <2>1, <2>4, <2>6, NoBuildAnchor
<1>11. CASE Announce
  <2>1. /\ pc' = "swap" /\ UNCHANGED <<chain, pending, prev>>
        /\ result' = result \/ result' = NoSnapshot
    BY <1>11 DEF Announce, Publishable, nodeVars
  <2> QED BY <1>1, <2>1, NoneAnchored, NoBuildAnchor
<1>12. CASE Swap
  <2>1. /\ UNCHANGED chain /\ pc' = "idle" /\ pending' = result
        /\ prev' = NoSnapshot /\ result' = NoSnapshot
    BY <1>12 DEF Swap, Done, nodeVars
  <2> QED BY <1>1, <2>1, NoneAnchored, NoBuildAnchor
<1> QED
  BY <1>5, <1>6, <1>7, <1>8, <1>9, <1>10, <1>11, <1>12 DEF ProcStep, BuildStep

\* Every step keeps the anchors, on a chain that does not reorg.
LEMMA NextAnchor ==
    ASSUME GrowingStep
    PROVE  IndInv /\ AnchorInv /\ [Next]_vars => AnchorInv'
<1> SUFFICES ASSUME IndInv, AnchorInv, [Next]_vars PROVE AnchorInv'
  OBVIOUS
<1>1. TypeOK
  BY DEF IndInv
<1>2. CASE NodeStep
  <2>1. UNCHANGED <<pending, procVars>>
    BY <1>2 DEF NodeStep, Commit
  <2> QED BY <1>1, <1>2, <2>1, CommitAppends, OtherTasksAnchor
<1>3. CASE FeedStep \/ CanonStep \/ Lagged
  <2>1. UNCHANGED <<chain, procVars>> /\ (pending' = pending \/ pending' = NoSnapshot)
    BY <1>3
    DEF FeedStep, OnFlashblockReceived, LoseFlashblock, CanonStep, StoreLastCanonical,
        JudgePending, DropJudgedAndSend, Lagged, nodeVars
  <2> QED BY <1>1, <2>1, ChainAlone, OtherTasksAnchor
<1>4. CASE UNCHANGED vars
  <2>1. UNCHANGED <<chain, pending, procVars>>
    BY <1>4 DEF vars, nodeVars
  <2> QED BY <1>1, <2>1, ChainAlone, OtherTasksAnchor
<1> QED BY <1>2, <1>3, <1>4, ProcAnchor DEF Next

-----------------------------------------------------------------------------
(***************************************************************************)
(* The order of canonical blocks                                           *)
(***************************************************************************)

\* The blocks of a notification when its first one is taken.
LEMMA BlocksTail ==
    ASSUME NEW s \in Seq(Block), s # <<>>
    PROVE  /\ NumbersIn(s) = {Head(s).number} \cup NumbersIn(Tail(s))
           /\ Ascending(s) => /\ Ascending(Tail(s))
                              /\ \A x \in NumbersIn(Tail(s)) : Head(s).number <= x
           /\ Head(s) \in Block /\ Tail(s) \in Seq(Block)
<1>1. /\ Head(s) = s[1] /\ Len(s) \in Nat \ {0} /\ DOMAIN s = 1..Len(s)
      /\ Tail(s) \in Seq(Block) /\ Len(Tail(s)) = Len(s) - 1
      /\ DOMAIN Tail(s) = 1..(Len(s) - 1)
      /\ \A i \in 1..(Len(s) - 1) : Tail(s)[i] = s[i + 1]
      /\ \A i \in 1..Len(s) : s[i] \in Block
  OBVIOUS
<1>2. ASSUME NEW x \in NumbersIn(s)
      PROVE  x = Head(s).number \/ x \in NumbersIn(Tail(s))
  <2>1. PICK j \in 1..Len(s) : x = s[j].number
    BY <1>1, <1>2 DEF NumbersIn
  <2>2. j = 1 \/ (j - 1 \in 1..(Len(s) - 1) /\ (j - 1) + 1 = j)
    BY <1>1
  <2> QED BY <1>1, <2>1, <2>2 DEF NumbersIn
<1>3. ASSUME NEW x \in NumbersIn(Tail(s))
      PROVE  x \in NumbersIn(s) /\ (Ascending(s) => Head(s).number <= x)
  <2>1. PICK j \in 1..(Len(s) - 1) : x = s[j + 1].number
    BY <1>1, <1>3 DEF NumbersIn
  <2>2. 1 \in 1..Len(s) /\ j + 1 \in 1..Len(s) /\ 1 < j + 1
    BY <1>1
  <2> QED BY <1>1, <2>1, <2>2 DEF NumbersIn, Ascending
<1>4. Head(s).number \in NumbersIn(s)
  BY <1>1 DEF NumbersIn
<1>5. Ascending(s) => Ascending(Tail(s))
  <2>1. \A i, j \in 1..(Len(s) - 1) : i < j =>
           i + 1 \in 1..Len(s) /\ j + 1 \in 1..Len(s) /\ i + 1 < j + 1
    BY <1>1
  <2> QED BY <1>1, <2>1 DEF Ascending
<1> QED BY <1>1, <1>2, <1>3, <1>4, <1>5

\* The notifications when the first one is taken,
LEMMA NotesTail ==
    ASSUME NEW ns \in Seq(Seq(Block) \ {<<>>}), ns # <<>>
    PROVE  /\ NumbersNoted(ns) = NumbersIn(Head(ns)) \cup NumbersNoted(Tail(ns))
           /\ NotesAscending(ns) =>
                 /\ NotesAscending(Tail(ns)) /\ Ascending(Head(ns))
                 /\ \A x \in NumbersIn(Head(ns)), y \in NumbersNoted(Tail(ns)) : x <= y
<1>1. /\ Head(ns) = ns[1] /\ Len(ns) \in Nat \ {0} /\ DOMAIN ns = 1..Len(ns)
      /\ DOMAIN Tail(ns) = 1..(Len(ns) - 1)
      /\ \A i \in 1..(Len(ns) - 1) : Tail(ns)[i] = ns[i + 1]
  OBVIOUS
<1>2. ASSUME NEW x \in NumbersNoted(ns)
      PROVE  x \in NumbersIn(Head(ns)) \/ x \in NumbersNoted(Tail(ns))
  <2>1. PICK j \in 1..Len(ns) : x \in NumbersIn(ns[j])
    BY <1>1, <1>2 DEF NumbersNoted
  <2>2. j = 1 \/ (j - 1 \in 1..(Len(ns) - 1) /\ (j - 1) + 1 = j)
    BY <1>1
  <2>3. CASE j = 1
    BY <1>1, <2>1, <2>3
  <2>4. CASE j # 1
    <3>1. PICK i \in 1..(Len(ns) - 1) : i + 1 = j
      BY <2>2, <2>4
    <3>2. Tail(ns)[i] = ns[j]
      BY <1>1, <3>1
    <3> QED BY <1>1, <2>1, <3>2 DEF NumbersNoted
  <2> QED BY <2>3, <2>4
<1>3. ASSUME NEW x \in NumbersNoted(Tail(ns))
      PROVE  \E j \in 1..(Len(ns) - 1) : x \in NumbersIn(ns[j + 1])
  <2>1. PICK j \in 1..(Len(ns) - 1) : x \in NumbersIn(Tail(ns)[j])
    BY <1>1, <1>3 DEF NumbersNoted
  <2>2. Tail(ns)[j] = ns[j + 1]
    BY <1>1
  <2> QED BY <2>1, <2>2
<1>4. \A j \in 1..(Len(ns) - 1) : j + 1 \in 1..Len(ns) /\ 1 < j + 1 /\ 1 \in 1..Len(ns)
  BY <1>1
<1>5. \A x \in NumbersNoted(Tail(ns)) : x \in NumbersNoted(ns)
  BY <1>1, <1>3, <1>4 DEF NumbersNoted
<1>6. \A x \in NumbersIn(Head(ns)) : x \in NumbersNoted(ns)
  BY <1>1 DEF NumbersNoted
<1>7. ASSUME NotesAscending(ns)
      PROVE  /\ NotesAscending(Tail(ns)) /\ Ascending(Head(ns))
             /\ \A x \in NumbersIn(Head(ns)), y \in NumbersNoted(Tail(ns)) : x <= y
  <2>1. Ascending(Head(ns))
    BY <1>1, <1>7 DEF NotesAscending
  <2>2. \A x \in NumbersIn(Head(ns)), y \in NumbersNoted(Tail(ns)) : x <= y
    BY <1>1, <1>3, <1>4, <1>7 DEF NotesAscending
  <2>3. \A i \in 1..(Len(ns) - 1) : Ascending(Tail(ns)[i])
    <3>1. ASSUME NEW i \in 1..(Len(ns) - 1)
          PROVE  Ascending(Tail(ns)[i])
      <4>1. Tail(ns)[i] = ns[i + 1] /\ i + 1 \in DOMAIN ns
        BY <1>1, <1>4
      <4> QED BY <1>7, <4>1 DEF NotesAscending
    <3> QED BY <3>1
  <2>4. ASSUME NEW i \in 1..(Len(ns) - 1), NEW j \in 1..(Len(ns) - 1), i < j,
               NEW x \in NumbersIn(Tail(ns)[i]), NEW y \in NumbersIn(Tail(ns)[j])
        PROVE  x <= y
    <3>1. /\ Tail(ns)[i] = ns[i + 1] /\ Tail(ns)[j] = ns[j + 1]
          /\ i + 1 \in DOMAIN ns /\ j + 1 \in DOMAIN ns /\ i + 1 < j + 1
      BY <1>1, <1>4, <2>4
    <3> QED BY <1>7, <2>4, <3>1 DEF NotesAscending
  <2>5. NotesAscending(Tail(ns))
    BY <1>1, <2>3, <2>4 DEF NotesAscending
  <2> QED BY <2>1, <2>2, <2>5
<1> QED BY <1>2, <1>5, <1>6, <1>7

\* and when one is sent.
LEMMA NotesAppend ==
    ASSUME NEW ns \in Seq(Seq(Block) \ {<<>>}), NEW new \in Seq(Block) \ {<<>>}
    PROVE  /\ NumbersNoted(Append(ns, new)) = NumbersNoted(ns) \cup NumbersIn(new)
           /\ /\ NotesAscending(ns) /\ Ascending(new)
              /\ \A x \in NumbersNoted(ns), y \in NumbersIn(new) : x <= y
              => NotesAscending(Append(ns, new))
<1> DEFINE all == Append(ns, new)
           n == Len(ns) + 1
<1>1. /\ Len(ns) \in Nat /\ DOMAIN ns = 1..Len(ns) /\ DOMAIN all = 1..n
      /\ \A i \in 1..Len(ns) : all[i] = ns[i]
      /\ all[n] = new
  OBVIOUS
<1>2. \A i \in 1..n : i \in 1..Len(ns) \/ i = n
  BY <1>1
<1>3. \A i \in 1..Len(ns) : i \in 1..n /\ i < n
  BY <1>1
<1>4. n \in 1..n /\ n \in Nat
  BY <1>1
<1> HIDE DEF n, all
<1>5. NumbersNoted(all) = NumbersNoted(ns) \cup NumbersIn(new)
  <2>1. ASSUME NEW x \in NumbersNoted(all)
        PROVE  x \in NumbersNoted(ns) \/ x \in NumbersIn(new)
    <3>1. PICK i \in 1..n : x \in NumbersIn(all[i])
      BY <1>1, <2>1 DEF NumbersNoted
    <3>2. CASE i = n
      BY <1>1, <3>1, <3>2
    <3>3. CASE i \in 1..Len(ns)
      <4>1. x \in NumbersIn(ns[i])
        BY <1>1, <3>1, <3>3
      <4> QED BY <1>1, <3>3, <4>1 DEF NumbersNoted
    <3> QED BY <1>2, <3>2, <3>3
  <2>2. ASSUME NEW x \in NumbersNoted(ns)
        PROVE  x \in NumbersNoted(all)
    <3>1. PICK i \in 1..Len(ns) : x \in NumbersIn(ns[i])
      BY <1>1, <2>2 DEF NumbersNoted
    <3>2. x \in NumbersIn(all[i]) /\ i \in DOMAIN all
      BY <1>1, <1>3, <3>1
    <3> QED BY <3>2 DEF NumbersNoted
  <2>3. \A x \in NumbersIn(new) : x \in NumbersNoted(all)
    BY <1>1, <1>4 DEF NumbersNoted
  <2> QED BY <2>1, <2>2, <2>3
<1>6. ASSUME NotesAscending(ns), Ascending(new),
             \A x \in NumbersNoted(ns), y \in NumbersIn(new) : x <= y
      PROVE  NotesAscending(all)
  <2>1. ASSUME NEW i \in 1..n
        PROVE  Ascending(all[i])
    <3>1. CASE i = n
      BY <1>1, <1>6, <3>1
    <3>2. CASE i \in 1..Len(ns)
      <4>1. all[i] = ns[i] /\ i \in DOMAIN ns
        BY <1>1, <3>2
      <4> QED BY <1>6, <4>1 DEF NotesAscending
    <3> QED BY <1>2, <3>1, <3>2
  <2>2. ASSUME NEW i \in 1..n, NEW j \in 1..n, i < j,
               NEW x \in NumbersIn(all[i]), NEW y \in NumbersIn(all[j])
        PROVE  x <= y
    <3>1. i \in 1..Len(ns)
      BY <1>1, <2>2 DEF n
    <3>2. all[i] = ns[i] /\ i \in DOMAIN ns
      BY <1>1, <3>1
    <3>3. CASE j = n
      <4>1. x \in NumbersNoted(ns)
        BY <2>2, <3>2 DEF NumbersNoted
      <4>2. y \in NumbersIn(new)
        BY <1>1, <2>2, <3>3
      <4> QED BY <1>6, <4>1, <4>2
    <3>4. CASE j \in 1..Len(ns)
      <4>1. all[j] = ns[j] /\ j \in DOMAIN ns
        BY <1>1, <3>4
      <4>2. x \in NumbersIn(ns[i]) /\ y \in NumbersIn(ns[j])
        BY <2>2, <3>2, <4>1
      <4> QED BY <1>6, <2>2, <3>2, <4>1, <4>2 DEF NotesAscending
    <3> QED BY <1>2, <3>3, <3>4
  <2> QED BY <1>1, <2>1, <2>2 DEF NotesAscending
<1> QED BY <1>5, <1>6 DEF all

\* The channel when an update is sent,
LEMMA QueueAppend ==
    ASSUME NEW q \in Seq(Update), NEW u \in Update
    PROVE  /\ u.kind = "canonical" =>
                 NumbersQueued(Append(q, u)) = NumbersQueued(q) \cup {u.block.number}
           /\ u.kind # "canonical" => NumbersQueued(Append(q, u)) = NumbersQueued(q)
           /\ /\ QueueAscending(q)
              /\ u.kind = "canonical" => \A x \in NumbersQueued(q) : x <= u.block.number
              => QueueAscending(Append(q, u))
<1> DEFINE all == Append(q, u)
           n == Len(q) + 1
<1>1. /\ Len(q) \in Nat /\ DOMAIN q = 1..Len(q) /\ DOMAIN all = 1..n
      /\ \A i \in 1..Len(q) : all[i] = q[i]
      /\ all[n] = u
  OBVIOUS
<1>2. /\ \A i \in 1..n : i \in 1..Len(q) \/ i = n
      /\ \A i \in 1..Len(q) : i \in 1..n /\ ~(n < i) /\ i # n
      /\ n \in 1..n /\ ~(n < n)
  BY <1>1
<1> HIDE DEF n, all
<1>3. CanonicalPlaces(all) = CanonicalPlaces(q) \cup {i \in {n} : u.kind = "canonical"}
  BY <1>1, <1>2 DEF CanonicalPlaces
<1>4. \A i \in CanonicalPlaces(q) : i \in 1..Len(q) /\ all[i] = q[i]
  BY <1>1 DEF CanonicalPlaces
<1>5. u.kind = "canonical" => NumbersQueued(all) = NumbersQueued(q) \cup {u.block.number}
  BY <1>1, <1>3, <1>4 DEF NumbersQueued
<1>6. u.kind # "canonical" => NumbersQueued(all) = NumbersQueued(q)
  BY <1>3, <1>4 DEF NumbersQueued
<1>7. ASSUME QueueAscending(q),
             u.kind = "canonical" => \A x \in NumbersQueued(q) : x <= u.block.number
      PROVE  QueueAscending(all)
  <2>1. SUFFICES ASSUME NEW i \in CanonicalPlaces(all), NEW j \in CanonicalPlaces(all), i < j
                 PROVE  all[i].block.number <= all[j].block.number
    BY DEF QueueAscending
  <2>2. i \in CanonicalPlaces(q)
    <3>1. i # n
      BY <1>2, <1>3, <1>4, <2>1
    <3> QED BY <1>3, <3>1
  <2>3. CASE j \in CanonicalPlaces(q)
    BY <1>4, <1>7, <2>1, <2>2, <2>3 DEF QueueAscending
  <2>4. CASE j = n /\ u.kind = "canonical"
    <3>1. q[i].block.number \in NumbersQueued(q)
      BY <2>2 DEF NumbersQueued
    <3> QED BY <1>1, <1>4, <1>7, <2>2, <2>4, <3>1
  <2> QED BY <1>3, <2>3, <2>4
<1> QED BY <1>5, <1>6, <1>7 DEF all

\* and when one is taken.
LEMMA QueueTail ==
    ASSUME NEW q \in Seq(Update), q # <<>>
    PROVE  /\ Head(q).kind = "canonical" =>
                 /\ NumbersQueued(q) = {Head(q).block.number} \cup NumbersQueued(Tail(q))
                 /\ QueueAscending(q) =>
                       \A x \in NumbersQueued(Tail(q)) : Head(q).block.number <= x
           /\ Head(q).kind # "canonical" => NumbersQueued(Tail(q)) = NumbersQueued(q)
           /\ QueueAscending(q) => QueueAscending(Tail(q))
<1> DEFINE t == Tail(q)
<1>1. /\ Head(q) = q[1] /\ Len(q) \in Nat \ {0} /\ DOMAIN q = 1..Len(q)
      /\ DOMAIN t = 1..(Len(q) - 1)
      /\ \A i \in 1..(Len(q) - 1) : t[i] = q[i + 1]
  OBVIOUS
<1> HIDE DEF t
<1>2. \A i \in 1..(Len(q) - 1) : i + 1 \in 1..Len(q) /\ 1 < i + 1 /\ 1 \in 1..Len(q)
  BY <1>1
<1>3. \A i \in CanonicalPlaces(t) :
         i \in 1..(Len(q) - 1) /\ i + 1 \in CanonicalPlaces(q) /\ t[i] = q[i + 1]
  BY <1>1, <1>2 DEF CanonicalPlaces
<1>4. ASSUME NEW j \in CanonicalPlaces(q)
      PROVE  j = 1 \/ \E i \in CanonicalPlaces(t) : t[i] = q[j]
  <2>1. j \in 1..Len(q) /\ q[j].kind = "canonical"
    BY <1>1 DEF CanonicalPlaces
  <2>2. CASE j # 1
    <3>1. PICK i \in 1..(Len(q) - 1) : i + 1 = j
      <4>1. j - 1 \in 1..(Len(q) - 1) /\ (j - 1) + 1 = j
        BY <1>1, <2>1, <2>2
      <4> QED BY <4>1
    <3>2. t[i] = q[j] /\ i \in CanonicalPlaces(t)
      BY <1>1, <2>1, <3>1 DEF CanonicalPlaces
    <3> QED BY <3>2
  <2> QED BY <2>2
<1>5. \A x \in NumbersQueued(t) : x \in NumbersQueued(q)
  BY <1>3 DEF NumbersQueued
<1>6. \A x \in NumbersQueued(q) :
         x \in NumbersQueued(t) \/ (Head(q).kind = "canonical" /\ x = Head(q).block.number)
  <2>1. ASSUME NEW x \in NumbersQueued(q)
        PROVE  \/ x \in NumbersQueued(t)
               \/ Head(q).kind = "canonical" /\ x = Head(q).block.number
    <3>1. PICK j \in CanonicalPlaces(q) : x = q[j].block.number
      BY <2>1 DEF NumbersQueued
    <3>2. CASE j = 1
      BY <1>1, <3>1, <3>2 DEF CanonicalPlaces
    <3>3. CASE j # 1
      <4>1. PICK i \in CanonicalPlaces(t) : t[i] = q[j]
        BY <1>4, <3>3
      <4> QED BY <3>1, <4>1 DEF NumbersQueued
    <3> QED BY <3>2, <3>3
  <2> QED BY <2>1
<1>7. ASSUME Head(q).kind = "canonical"
      PROVE  1 \in CanonicalPlaces(q) /\ Head(q).block.number \in NumbersQueued(q)
  BY <1>1, <1>7 DEF CanonicalPlaces, NumbersQueued
<1>8. ASSUME Head(q).kind = "canonical", QueueAscending(q), NEW x \in NumbersQueued(t)
      PROVE  Head(q).block.number <= x
  <2>1. PICK i \in CanonicalPlaces(t) : x = t[i].block.number
    BY <1>8 DEF NumbersQueued
  <2>2. x = q[i + 1].block.number /\ i + 1 \in CanonicalPlaces(q) /\ 1 < i + 1
    BY <1>2, <1>3, <2>1
  <2> QED BY <1>1, <1>7, <1>8, <2>2 DEF QueueAscending
<1>9. QueueAscending(q) => QueueAscending(t)
  <2>1. SUFFICES ASSUME QueueAscending(q), NEW i \in CanonicalPlaces(t),
                        NEW j \in CanonicalPlaces(t), i < j
                 PROVE  t[i].block.number <= t[j].block.number
    BY DEF QueueAscending
  <2>2. i + 1 \in CanonicalPlaces(q) /\ j + 1 \in CanonicalPlaces(q) /\ i + 1 < j + 1
    BY <1>1, <1>3, <2>1
  <2>3. t[i] = q[i + 1] /\ t[j] = q[j + 1]
    BY <1>3
  <2> QED BY <2>1, <2>2, <2>3 DEF QueueAscending
<1> QED BY <1>5, <1>6, <1>7, <1>8, <1>9 DEF t

\* The numbers of blocks are natural numbers.
LEMMA NumbersAreNats ==
    ASSUME TypeOK
    PROVE  /\ Awaited \subseteq Nat /\ lastCanonical \in Nat /\ Best \in Nat
           /\ cache.latest \in Nat
           /\ update.kind = "canonical" => update.block.number \in Nat
<1>1. /\ notes \in Seq(Seq(Block) \ {<<>>}) /\ committed \in Seq(Block)
      /\ queue \in Seq(Update) /\ chain \in Seq(Block) /\ lastCanonical \in Nat
      /\ cache.latest \in Nat
  BY DEF TypeOK
<1>2. ASSUME NEW s \in Seq(Block)
      PROVE  NumbersIn(s) \subseteq Nat
  <2>1. \A j \in DOMAIN s : s[j] \in Block
    OBVIOUS
  <2> QED BY <2>1 DEF NumbersIn, Block
<1>3. NumbersNoted(notes) \subseteq Nat
  <2>1. \A i \in DOMAIN notes : notes[i] \in Seq(Block)
    BY <1>1
  <2> QED BY <1>2, <2>1 DEF NumbersNoted
<1>4. NumbersQueued(queue) \subseteq Nat
  <2>1. \A i \in DOMAIN queue : queue[i] \in Update
    BY <1>1
  <2>2. \A u \in Update : u.kind = "canonical" => u.block.number \in Nat
    BY DEF Update, Block
  <2> QED BY <2>1, <2>2 DEF NumbersQueued, CanonicalPlaces
<1>5. update.kind = "canonical" => update.block.number \in Nat
  BY UpdatePayload DEF Block
<1>6. Best \in Nat
  BY <1>1 DEF Best
<1> QED BY <1>1, <1>2, <1>3, <1>4, <1>5, <1>6 DEF Awaited

\* At first nothing is on its way.
LEMMA InitOrder == Init => OrderInv /\ Awaited = {}
<1> SUFFICES ASSUME Init PROVE OrderInv /\ Awaited = {}
  OBVIOUS
<1>1. /\ notes = <<>> /\ committed = <<>> /\ queue = <<>> /\ lastCanonical = 0
      /\ canonPc = "idle" /\ update = NoUpdate
  BY DEF Init
<1>2. DOMAIN <<>> = {}
  OBVIOUS
<1>3. CanonicalPlaces(queue) = {} /\ NumbersIn(committed) = {} /\ NumbersNoted(notes) = {}
  BY <1>1, <1>2 DEF CanonicalPlaces, NumbersIn, NumbersNoted
<1>4. NumbersQueued(queue) = {} /\ Awaited = {}
  BY <1>3 DEF NumbersQueued, Awaited
<1>5. QueueAscending(queue) /\ Ascending(committed) /\ NotesAscending(notes)
  BY <1>1, <1>2, <1>3 DEF QueueAscending, Ascending, NotesAscending
<1>6. Best \in Nat
  BY InitType DEF TypeOK, Best
<1> QED BY <1>1, <1>3, <1>4, <1>5, <1>6 DEF OrderInv, NoUpdate

\* A commit adds the new blocks after all that are on their way.
LEMMA CommitOrder ==
    ASSUME TypeOK, OrderInv, NodeStep, GrowingStep
    PROVE  /\ OrderInv'
           /\ Best' \in Awaited'
           /\ \A x \in Awaited' : x \in Awaited \/ Best < x
<1>1. PICK new \in Seq(Block) \ {<<>>} :
         /\ notes' = Append(notes, new)
         /\ Ascending(new)
         /\ \A x \in NumbersIn(new) : Best < x /\ x <= Best'
         /\ Best' \in NumbersIn(new)
  BY CommitAppends
<1>2. Best' \in Nat /\ Best' >= Best
  BY CommitAppends DEF HeadersKept
<1>3. UNCHANGED <<queue, committed, lastCanonical, canonPc, update>>
  BY DEF NodeStep, Commit, canonVars, procVars
<1>4. notes \in Seq(Seq(Block) \ {<<>>})
  BY DEF TypeOK
<1>5. NumbersNoted(notes)' = NumbersNoted(notes) \cup NumbersIn(new)
  <2>1. NumbersNoted(Append(notes, new)) = NumbersNoted(notes) \cup NumbersIn(new)
    BY <1>4, NotesAppend
  <2>2. NumbersNoted(notes)' = NumbersNoted(notes')
    BY DEF NumbersNoted, NumbersIn
  <2> QED BY <1>1, <2>1, <2>2
<1>6. NumbersQueued(queue)' = NumbersQueued(queue) /\ NumbersIn(committed)' = NumbersIn(committed)
  BY <1>3 DEF NumbersQueued, CanonicalPlaces, NumbersIn
<1>7. Awaited' = Awaited \cup NumbersIn(new)
  BY <1>5, <1>6 DEF Awaited
<1>8. /\ Awaited \subseteq Nat /\ lastCanonical \in Nat /\ Best \in Nat
      /\ update.kind = "canonical" => update.block.number \in Nat
  BY NumbersAreNats
<1>9. \A x \in NumbersIn(new) : x \in Nat
  <2>1. \A i \in DOMAIN new : new[i] \in Block
    OBVIOUS
  <2> QED BY <2>1 DEF NumbersIn, Block
<1>10. \A x \in Awaited, y \in NumbersIn(new) : x <= y
  BY <1>1, <1>8, <1>9 DEF OrderInv
<1>11. /\ NumbersNoted(notes) \subseteq Awaited /\ NumbersIn(committed) \subseteq Awaited
       /\ NumbersQueued(queue) \subseteq Awaited
  BY DEF Awaited
<1>12. NotesAscending(notes')
  BY <1>1, <1>4, <1>10, <1>11, NotesAppend DEF OrderInv
<1>13. QueueAscending(queue)' /\ Ascending(committed)' /\ NotesAscending(notes)'
  BY <1>3, <1>12 DEF OrderInv, QueueAscending, CanonicalPlaces, Ascending, NotesAscending, NumbersIn
<1>14. /\ lastCanonical' <= Best'
       /\ canonPc' # "idle" => Head(committed').number = lastCanonical'
       /\ \A x \in NumbersQueued(queue)' : x <= lastCanonical'
  BY <1>2, <1>3, <1>6, <1>8 DEF OrderInv
<1>15. \A x \in NumbersIn(committed)' \cup NumbersNoted(notes)' : lastCanonical' <= x
  BY <1>1, <1>3, <1>5, <1>6, <1>8, <1>9 DEF OrderInv
<1>16. \A x \in NumbersIn(committed)', y \in NumbersNoted(notes)' : x <= y
  BY <1>5, <1>6, <1>10, <1>11 DEF OrderInv
<1>17. \A x \in Awaited' : x <= Best'
  BY <1>1, <1>2, <1>7, <1>8 DEF OrderInv
<1>18. update'.kind = "canonical" =>
          /\ update'.block.number <= Best'
          /\ \A x \in Awaited' : update'.block.number <= x
  BY <1>1, <1>2, <1>3, <1>7, <1>8, <1>9 DEF OrderInv
<1> QED
  BY <1>1, <1>7, <1>13, <1>14, <1>15, <1>16, <1>17, <1>18 DEF OrderInv

\* The canonical task takes a notification, or the next block of one.
LEMMA StoreOrder ==
    ASSUME TypeOK, OrderInv, StoreLastCanonical
    PROVE  OrderInv' /\ Awaited' = Awaited
<1>1. /\ UNCHANGED <<chain, queue, update>> /\ canonPc = "idle" /\ canonPc' = "judge"
      /\ lastCanonical' = Head(committed').number
  BY DEF StoreLastCanonical, procVars
<1>2. \/ committed # <<>> /\ UNCHANGED <<committed, notes>>
      \/ /\ committed = <<>> /\ notes # <<>>
         /\ committed' = Head(notes) /\ notes' = Tail(notes)
  BY DEF StoreLastCanonical
<1>3. notes \in Seq(Seq(Block) \ {<<>>}) /\ committed \in Seq(Block)
  BY DEF TypeOK
<1>4. PICK c, ns : c = committed' /\ ns = notes'
  OBVIOUS
<1>5. /\ c \in Seq(Block) /\ c # <<>>
      /\ Ascending(c) /\ NotesAscending(ns)
      /\ NumbersIn(c) \cup NumbersNoted(ns) = NumbersIn(committed) \cup NumbersNoted(notes)
      /\ \A x \in NumbersIn(c), y \in NumbersNoted(ns) : x <= y
  <2>1. CASE committed # <<>> /\ UNCHANGED <<committed, notes>>
    BY <1>3, <1>4, <2>1 DEF OrderInv
  <2>2. CASE /\ committed = <<>> /\ notes # <<>>
             /\ committed' = Head(notes) /\ notes' = Tail(notes)
    <3>1. c = Head(notes) /\ ns = Tail(notes) /\ Head(notes) \in Seq(Block) \ {<<>>}
      BY <1>3, <1>4, <2>2
    <3>2. NumbersIn(committed) = {}
      BY <2>2 DEF NumbersIn
    <3> QED BY <1>3, <2>2, <3>1, <3>2, NotesTail DEF OrderInv
  <2> QED BY <1>2, <2>1, <2>2
<1>6. /\ Head(c).number \in NumbersIn(c)
      /\ \A x \in NumbersIn(c) : Head(c).number <= x
  <2>1. /\ NumbersIn(c) = {Head(c).number} \cup NumbersIn(Tail(c)) /\ Head(c) \in Block
        /\ \A x \in NumbersIn(Tail(c)) : Head(c).number <= x
    BY <1>5, BlocksTail
  <2>2. Head(c).number \in Nat
    BY <2>1 DEF Block
  <2> QED BY <2>1, <2>2
<1>7. /\ NumbersQueued(queue)' = NumbersQueued(queue)
      /\ NumbersIn(committed)' = NumbersIn(c) /\ NumbersNoted(notes)' = NumbersNoted(ns)
  BY <1>1, <1>4 DEF NumbersQueued, CanonicalPlaces, NumbersIn, NumbersNoted
<1>8. Awaited' = Awaited /\ Best' = Best
  BY <1>1, <1>5, <1>7 DEF Awaited, Best
<1>9. QueueAscending(queue)' /\ Ascending(committed)' /\ NotesAscending(notes)'
  BY <1>1, <1>4, <1>5
  DEF OrderInv, QueueAscending, CanonicalPlaces, Ascending, NotesAscending, NumbersIn
<1>10. PICK n : n = Head(c).number
  OBVIOUS
<1>11. lastCanonical' = n /\ n \in NumbersIn(c) /\ \A x \in NumbersIn(c) : n <= x
  BY <1>1, <1>4, <1>6, <1>10
<1>12. /\ Awaited \subseteq Nat /\ lastCanonical \in Nat /\ Best \in Nat
       /\ n \in Awaited /\ n \in NumbersIn(committed) \cup NumbersNoted(notes)
  BY <1>5, <1>11, NumbersAreNats DEF Awaited
<1>13. lastCanonical' <= Best' /\ Head(committed').number = lastCanonical'
  BY <1>1, <1>8, <1>11, <1>12 DEF OrderInv
<1>14. \A x \in NumbersQueued(queue)' : x <= lastCanonical'
  <2>1. \A x \in NumbersQueued(queue) : x \in Nat
    BY <1>12 DEF Awaited
  <2>2. lastCanonical <= n
    BY <1>12 DEF OrderInv
  <2> QED BY <1>7, <1>11, <1>12, <2>1, <2>2 DEF OrderInv
<1>15. \A x \in NumbersIn(committed)' \cup NumbersNoted(notes)' : lastCanonical' <= x
  BY <1>5, <1>7, <1>11
<1>16. \A x \in NumbersIn(committed)', y \in NumbersNoted(notes)' : x <= y
  BY <1>5, <1>7
<1> QED
  BY <1>1, <1>8, <1>9, <1>13, <1>14, <1>15, <1>16 DEF OrderInv

\* It sends the block on.
LEMMA SendOrder ==
    ASSUME TypeOK, OrderInv, DropJudgedAndSend
    PROVE  OrderInv' /\ Awaited' = Awaited
<1> DEFINE b == Head(committed)
           u == [kind |-> "canonical", block |-> b]
<1>1. /\ UNCHANGED <<chain, notes, lastCanonical, update>>
      /\ canonPc = "finish" /\ canonPc' = "idle"
      /\ queue' = Append(queue, u) /\ committed' = Tail(committed)
  BY DEF DropJudgedAndSend, nodeVars, procVars
<1>2. committed \in Seq(Block) /\ committed # <<>> /\ queue \in Seq(Update)
  BY <1>1 DEF TypeOK
<1>3. /\ NumbersIn(committed) = {b.number} \cup NumbersIn(Tail(committed))
      /\ Ascending(Tail(committed)) /\ b \in Block
  BY <1>2, BlocksTail DEF OrderInv
<1>4. u \in Update /\ u.kind = "canonical" /\ u.block = b
  BY <1>3 DEF Update
<1>5. b.number = lastCanonical
  BY <1>1 DEF OrderInv
<1> HIDE DEF u, b
<1>6. /\ NumbersQueued(Append(queue, u)) = NumbersQueued(queue) \cup {b.number}
      /\ QueueAscending(Append(queue, u))
  BY <1>2, <1>4, <1>5, QueueAppend DEF OrderInv
<1>7. /\ NumbersQueued(queue)' = NumbersQueued(queue) \cup {b.number}
      /\ NumbersIn(committed)' = NumbersIn(Tail(committed))
      /\ NumbersNoted(notes)' = NumbersNoted(notes)
  <2>1. NumbersQueued(queue)' = NumbersQueued(queue')
    BY DEF NumbersQueued, CanonicalPlaces
  <2>2. /\ NumbersIn(committed)' = NumbersIn(Tail(committed))
        /\ NumbersNoted(notes)' = NumbersNoted(notes)
    BY <1>1 DEF NumbersIn, NumbersNoted
  <2> QED BY <1>1, <1>6, <2>1, <2>2
<1>8. Awaited' = Awaited /\ Best' = Best
  BY <1>1, <1>3, <1>7 DEF Awaited, Best
<1>9. QueueAscending(queue)' /\ Ascending(committed)' /\ NotesAscending(notes)'
  BY <1>1, <1>3, <1>6
  DEF OrderInv, QueueAscending, CanonicalPlaces, Ascending, NotesAscending, NumbersIn
<1>10. lastCanonical \in Nat
  BY NumbersAreNats
<1>11. /\ \A x \in NumbersQueued(queue)' : x <= lastCanonical'
       /\ \A x \in NumbersIn(committed)' \cup NumbersNoted(notes)' : lastCanonical' <= x
       /\ \A x \in NumbersIn(committed)', y \in NumbersNoted(notes)' : x <= y
  BY <1>1, <1>3, <1>5, <1>7, <1>10 DEF OrderInv
<1> QED BY <1>1, <1>8, <1>9, <1>11 DEF OrderInv

\* A lag loses the oldest notification.
LEMMA LaggedOrder ==
    ASSUME TypeOK, OrderInv, Lagged
    PROVE  OrderInv' /\ Awaited' \subseteq Awaited
<1>1. /\ UNCHANGED <<chain, committed, queue, lastCanonical, update, canonPc>>
      /\ notes # <<>> /\ notes' = Tail(notes)
  BY DEF Lagged, procVars, canonVars
<1>2. /\ NumbersNoted(notes) = NumbersIn(Head(notes)) \cup NumbersNoted(Tail(notes))
      /\ NotesAscending(Tail(notes))
  BY <1>1, NotesTail DEF TypeOK, OrderInv
<1>3. /\ NumbersQueued(queue)' = NumbersQueued(queue)
      /\ NumbersIn(committed)' = NumbersIn(committed)
      /\ NumbersNoted(notes)' = NumbersNoted(Tail(notes))
  BY <1>1 DEF NumbersQueued, CanonicalPlaces, NumbersIn, NumbersNoted
<1>4. Awaited' \subseteq Awaited /\ Best' = Best
  BY <1>1, <1>2, <1>3 DEF Awaited, Best
<1>5. QueueAscending(queue)' /\ Ascending(committed)' /\ NotesAscending(notes)'
  BY <1>1, <1>2
  DEF OrderInv, QueueAscending, CanonicalPlaces, Ascending, NotesAscending, NumbersIn
<1>6. /\ \A x \in NumbersQueued(queue)' : x <= lastCanonical'
      /\ \A x \in NumbersIn(committed)' \cup NumbersNoted(notes)' : lastCanonical' <= x
      /\ \A x \in NumbersIn(committed)', y \in NumbersNoted(notes)' : x <= y
  BY <1>1, <1>2, <1>3 DEF OrderInv
<1> QED BY <1>1, <1>4, <1>5, <1>6 DEF OrderInv

\* A step that moves no canonical block, but may end an update.
LEMMA OrderAlone ==
    ASSUME OrderInv, UNCHANGED <<chain, notes, committed, lastCanonical>>,
           canonPc' = canonPc \/ (canonPc = "judge" /\ canonPc' = "finish"),
           NumbersQueued(queue)' = NumbersQueued(queue), QueueAscending(queue)',
           update' = update \/ update'.kind # "canonical"
    PROVE  OrderInv' /\ Awaited' = Awaited
<1>1. NumbersIn(committed)' = NumbersIn(committed) /\ NumbersNoted(notes)' = NumbersNoted(notes)
  BY DEF NumbersIn, NumbersNoted
<1>2. Awaited' = Awaited /\ Best' = Best
  BY <1>1 DEF Awaited, Best
<1>3. Ascending(committed)' /\ NotesAscending(notes)'
  BY DEF OrderInv, Ascending, NotesAscending, NumbersIn
<1> QED BY <1>1, <1>2, <1>3 DEF OrderInv

\* The processor takes the oldest update; a canonical block it takes is at or
\* below every one that stays.
LEMMA ReceiveOrder ==
    ASSUME TypeOK, OrderInv, Receive
    PROVE  /\ OrderInv'
           /\ update'.kind = "canonical" =>
                 /\ Awaited = Awaited' \cup {update'.block.number}
                 /\ update'.block.number \in Nat
           /\ update'.kind # "canonical" => Awaited' = Awaited
<1>1. /\ UNCHANGED <<chain, notes, committed, lastCanonical, canonPc>>
      /\ queue # <<>> /\ update' = Head(queue) /\ queue' = Tail(queue)
  BY DEF Receive, LoadPendingOrDropStale, nodeVars, canonVars
<1>2. queue \in Seq(Update)
  BY DEF TypeOK
<1>3. PICK u \in Update : u = Head(queue)
  BY <1>1, <1>2
<1>4. NumbersQueued(queue)' = NumbersQueued(Tail(queue))
  BY <1>1 DEF NumbersQueued, CanonicalPlaces
<1>5. QueueAscending(queue)'
  <2>1. QueueAscending(Tail(queue))
    BY <1>1, <1>2, QueueTail DEF OrderInv
  <2> QED BY <1>1, <2>1 DEF QueueAscending, CanonicalPlaces
<1>6. NumbersIn(committed)' = NumbersIn(committed) /\ NumbersNoted(notes)' = NumbersNoted(notes)
  BY <1>1 DEF NumbersIn, NumbersNoted
<1>7. CASE u.kind # "canonical"
  <2>1. NumbersQueued(Tail(queue)) = NumbersQueued(queue)
    BY <1>1, <1>2, <1>3, <1>7, QueueTail
  <2>2. update'.kind # "canonical" /\ NumbersQueued(queue)' = NumbersQueued(queue)
    BY <1>1, <1>3, <1>4, <1>7, <2>1
  <2> QED BY <1>1, <1>5, <2>2, OrderAlone
<1>8. CASE u.kind = "canonical"
  <2>1. PICK n : n = u.block.number
    OBVIOUS
  <2>2. /\ NumbersQueued(queue) = {n} \cup NumbersQueued(Tail(queue))
        /\ \A x \in NumbersQueued(Tail(queue)) : n <= x
    BY <1>1, <1>2, <1>3, <1>8, <2>1, QueueTail DEF OrderInv
  <2>3. /\ Awaited = Awaited' \cup {n} /\ Best' = Best
        /\ Awaited' = NumbersQueued(Tail(queue)) \cup NumbersIn(committed) \cup NumbersNoted(notes)
    BY <1>1, <1>4, <1>6, <2>2 DEF Awaited, Best
  <2>4. Awaited \subseteq Nat /\ lastCanonical \in Nat /\ n \in Nat /\ n <= lastCanonical
    BY <2>2, <2>3, NumbersAreNats DEF OrderInv
  <2>5. \A x \in Awaited' : n <= x
    <3>1. \A x \in NumbersIn(committed) \cup NumbersNoted(notes) : x \in Nat /\ lastCanonical <= x
      BY <2>4 DEF OrderInv, Awaited
    <3> QED BY <2>2, <2>3, <2>4, <3>1
  <2>6. Ascending(committed)' /\ NotesAscending(notes)'
    BY <1>1 DEF OrderInv, Ascending, NotesAscending, NumbersIn
  <2>7. update'.kind = "canonical" /\ update'.block.number = n
    BY <1>1, <1>3, <1>8, <2>1
  <2>8. /\ lastCanonical' <= Best'
        /\ canonPc' # "idle" => Head(committed').number = lastCanonical'
        /\ \A x \in NumbersQueued(queue)' : x <= lastCanonical'
        /\ \A x \in NumbersIn(committed)' \cup NumbersNoted(notes)' : lastCanonical' <= x
        /\ \A x \in NumbersIn(committed)', y \in NumbersNoted(notes)' : x <= y
    BY <1>1, <1>4, <1>6, <2>2, <2>3 DEF OrderInv
  <2>9. (\A x \in Awaited' : x <= Best') /\ n <= Best'
    BY <2>3 DEF OrderInv
  <2>10. OrderInv'
    BY <1>5, <2>5, <2>6, <2>7, <2>8, <2>9 DEF OrderInv
  <2> QED BY <2>3, <2>4, <2>7, <2>10
<1> QED BY <1>7, <1>8

\* The rest of the processor moves no canonical block.
LEMMA ProcMovesNone ==
    ASSUME ProcStep, ~Receive
    PROVE  /\ UNCHANGED <<chain, notes, committed, queue, lastCanonical, canonPc>>
           /\ update' = update \/ update'.kind # "canonical"
<1> USE DEF publishedVars, nodeVars, canonVars
<1>1. ASSUME NEW c, GiveUp(c)
      PROVE  /\ UNCHANGED <<chain, notes, committed, queue, lastCanonical, canonPc>>
             /\ update' = update \/ update'.kind # "canonical"
  BY <1>1 DEF GiveUp, Done, NoUpdate
<1>2. ASSUME NEW F, NEW b, StartBuild(F, b)
      PROVE  UNCHANGED <<chain, notes, committed, queue, lastCanonical, canonPc, update>>
  BY <1>2 DEF StartBuild
<1>3. ASSUME NEW s, Resolve(s)
      PROVE  UNCHANGED <<chain, notes, committed, queue, lastCanonical, canonPc, update>>
  BY <1>3 DEF Resolve
<1>4. CASE ReplayNext
  BY <1>4 DEF ReplayNext, LoadPendingOrDropStale
<1>5. CASE FlashblockStep
  BY <1>1, <1>2, <1>3, <1>5
  DEF FlashblockStep, SkipSuperseded, BuildFirst, CacheFollower, ExtendPending, RestartBlock,
      IgnoreDuplicate, ClearOutOfSequence
<1>6. CASE CanonicalStep
  BY <1>2, <1>3, <1>6
  DEF CanonicalStep, NothingToReconcile, ReconcileCanonical, ReconcileAt
<1>7. CASE BuildStep
  BY <1>1, <1>7 DEF BuildStep, ReadAnchor, ParentMissing, Execute, BuildFails
<1>8. CASE Announce
  BY <1>8 DEF Announce
<1>9. CASE Swap
  BY <1>9 DEF Swap, Done, NoUpdate
<1> QED BY <1>4, <1>5, <1>6, <1>7, <1>8, <1>9 DEF ProcStep

\* A flashblock that arrives is no canonical block.
LEMMA FeedOrder ==
    ASSUME TypeOK, OrderInv, FeedStep
    PROVE  OrderInv' /\ Awaited' = Awaited
<1>1. PICK fb \in Flashblocks : OnFlashblockReceived(fb) \/ LoseFlashblock(fb)
  BY DEF FeedStep
<1>2. /\ UNCHANGED <<chain, notes, committed, lastCanonical, canonPc, update>>
      /\ queue' = queue \/ queue' = Append(queue, [kind |-> "flashblock", fb |-> fb])
  BY <1>1 DEF OnFlashblockReceived, LoseFlashblock, nodeVars, canonVars, procVars
<1>3. PICK u : u = [kind |-> "flashblock", fb |-> fb]
  OBVIOUS
<1>4. u \in Update /\ u.kind # "canonical"
  BY <1>3 DEF Update
<1>5. /\ NumbersQueued(Append(queue, u)) = NumbersQueued(queue)
      /\ QueueAscending(Append(queue, u))
  BY <1>4, QueueAppend DEF TypeOK, OrderInv
<1>6. NumbersQueued(queue') = NumbersQueued(queue) /\ QueueAscending(queue')
  BY <1>2, <1>3, <1>5 DEF OrderInv
<1>7. NumbersQueued(queue)' = NumbersQueued(queue) /\ QueueAscending(queue)'
  BY <1>6 DEF NumbersQueued, QueueAscending, CanonicalPlaces
<1> QED BY <1>2, <1>7, OrderAlone

\* A step that leaves the canonical blocks where they are.
LEMMA UnmovedOrder ==
    ASSUME OrderInv, UNCHANGED <<chain, notes, committed, queue, lastCanonical>>,
           canonPc' = canonPc \/ (canonPc = "judge" /\ canonPc' = "finish"),
           update' = update \/ update'.kind # "canonical"
    PROVE  OrderInv' /\ Awaited' = Awaited
<1>1. NumbersQueued(queue)' = NumbersQueued(queue) /\ QueueAscending(queue)'
  BY DEF OrderInv, NumbersQueued, QueueAscending, CanonicalPlaces
<1> QED BY <1>1, OrderAlone

\* Every step keeps the order, on a chain that does not reorg.
LEMMA NextOrder ==
    ASSUME GrowingStep
    PROVE  TypeOK /\ OrderInv /\ [Next]_vars => OrderInv'
<1> SUFFICES ASSUME TypeOK, OrderInv, [Next]_vars PROVE OrderInv'
  OBVIOUS
<1>1. CASE JudgePending
  BY <1>1, UnmovedOrder DEF JudgePending, nodeVars, procVars
<1>2. CASE UNCHANGED vars
  BY <1>2, UnmovedOrder DEF vars, nodeVars, canonVars, procVars
<1>3. CASE ProcStep /\ ~Receive
  BY <1>3, ProcMovesNone, UnmovedOrder
<1> QED
  BY <1>1, <1>2, <1>3, CommitOrder, FeedOrder, StoreOrder, SendOrder, LaggedOrder, ReceiveOrder
  DEF Next, CanonStep

-----------------------------------------------------------------------------
(***************************************************************************)
(* The cache                                                               *)
(***************************************************************************)
\* insert keeps the window, and a flashblock's predecessor with it.
LEMMA InsertKeeps ==
    ASSUME NEW c \in Caches, NEW fb \in Flashblocks
    PROVE  /\ Insert(c, fb).latest = c.latest
           /\ \A f \in Insert(c, fb).entries : f \in c.entries \/ f = fb
           /\ Windowed(c) /\ fb.block > c.latest => Windowed(Insert(c, fb))
           /\ Replayable(c) /\ (fb.index = 0 \/ HasFlashblock(c, fb.block, fb.index - 1)) =>
                 Replayable(Insert(c, fb))
<1>1. fb.block \in Nat /\ fb.index \in Nat /\ MaxCacheAhead \in Nat \ {0} /\ c.latest \in Nat
  BY FlashblocksAssumption, MaxCacheAheadAssumption DEF Caches
<1>2. \A f \in c.entries : f.block \in Nat /\ f.index \in Nat
  BY FlashblocksAssumption DEF Caches
<1>3. CASE ~IsCacheable(c, fb.block)
  <2>1. Insert(c, fb) = c
    BY <1>3 DEF Insert
  <2> QED BY <2>1
<1>4. CASE IsCacheable(c, fb.block)
  <2> DEFINE low == SaturatingSub(fb.block, MaxCacheAhead)
  <2>1. (low \in Int /\ low < fb.block) \/ fb.block = 0
    BY <1>1 DEF SaturatingSub
  <2>2. PICK d : d = Insert(c, fb)
    OBVIOUS
  <2>3. /\ d.latest = c.latest
        /\ d.entries = {fb} \cup {f \in c.entries : /\ f.block > low
                                                    /\ ~(f.block = fb.block /\ f.index = fb.index)}
    BY <1>4, <2>2 DEF Insert, Caches
  <2>4. low \in Int /\ low < fb.block
    BY <2>1, FlashblocksAssumption
  <2> HIDE DEF low
  <2>5. Windowed(c) /\ fb.block > c.latest => Windowed(d)
    <3>1. SUFFICES ASSUME Windowed(c), fb.block > c.latest PROVE Windowed(d)
      OBVIOUS
    <3>2. fb.block \in c.latest + 1 .. c.latest + MaxCacheAhead + 1
      BY <1>1, <1>4, <3>1 DEF IsCacheable
    <3> QED BY <2>3, <3>1, <3>2 DEF Windowed
  <2>6. ASSUME Replayable(c), fb.index = 0 \/ HasFlashblock(c, fb.block, fb.index - 1)
        PROVE  Replayable(d)
    <3>1. ASSUME NEW f \in c.entries, f.block > low
          PROVE  \E g \in d.entries : g.block = f.block /\ g.index = f.index
      BY <2>3, <3>1
    <3>2. ASSUME NEW f \in d.entries, f.index > 0
          PROVE  HasFlashblock(d, f.block, f.index - 1)
      <4>1. HasFlashblock(c, f.block, f.index - 1) /\ f.block > low
        <5>1. CASE f = fb
          BY <1>1, <2>4, <2>6, <3>2, <5>1
        <5>2. CASE f # fb
          BY <2>3, <2>6, <3>2, <5>2 DEF Replayable
        <5> QED BY <5>1, <5>2
      <4>2. PICK g \in c.entries : g.block = f.block /\ g.index = f.index - 1
        BY <4>1 DEF HasFlashblock
      <4> QED BY <3>1, <4>1, <4>2 DEF HasFlashblock
    <3> QED BY <3>2 DEF Replayable
  <2> QED BY <2>2, <2>3, <2>5, <2>6
<1> QED BY <1>3, <1>4

\* update_canonical and drain remove whole blocks, from below.
LEMMA DrainKeeps ==
    ASSUME NEW c \in Caches, NEW n \in Nat
    PROVE  /\ AfterDrain(UpdateCanonical(c, n), n + 1).latest = n
           /\ \A f \in AfterDrain(UpdateCanonical(c, n), n + 1).entries :
                 f \in c.entries /\ f.block > n + 1
           /\ Windowed(c) /\ c.latest <= n =>
                 Windowed(AfterDrain(UpdateCanonical(c, n), n + 1))
           /\ Replayable(c) => Replayable(AfterDrain(UpdateCanonical(c, n), n + 1))
<1>1. MaxCacheAhead \in Nat /\ c.latest \in Nat
  BY MaxCacheAheadAssumption DEF Caches
<1>2. \A f \in c.entries : f.block \in Nat /\ f.index \in Nat
  BY FlashblocksAssumption DEF Caches
<1>3. PICK d : d = AfterDrain(UpdateCanonical(c, n), n + 1)
  OBVIOUS
<1>4. d.latest = n /\ d.entries = {f \in c.entries : f.block > n /\ f.block # n + 1}
  BY <1>3 DEF AfterDrain, UpdateCanonical
<1>5. \A f \in d.entries : f \in c.entries /\ f.block > n + 1
  BY <1>2, <1>4
<1>6. ASSUME Windowed(c), c.latest <= n
      PROVE  Windowed(d)
  <2>1. ASSUME NEW f \in d.entries
        PROVE  f.block \in n + 1 .. n + MaxCacheAhead + 1
    <3>1. f \in c.entries /\ f.block > n + 1 /\ f.block \in Nat
      BY <1>2, <1>5
    <3>2. f.block <= c.latest + MaxCacheAhead + 1
      BY <1>6, <3>1 DEF Windowed
    <3> QED BY <1>1, <1>6, <3>1, <3>2
  <2> QED BY <1>4, <1>5, <1>6, <2>1 DEF Windowed
<1>7. Replayable(c) => Replayable(d)
  BY <1>4 DEF Replayable, HasFlashblock
<1> QED BY <1>3, <1>4, <1>5, <1>6, <1>7

\* A flashblock that waits for its parent is a first one, above the tip's child.
LEMMA WaitsForParent ==
    ASSUME IndInv, AnchorInv, ParentMissing, update.kind = "flashblock"
    PROVE  /\ update.fb \in Flashblocks
           /\ update.fb.index = 0
           /\ update.fb.block > Best + 1
<1>1. TypeOK /\ SequenceInv /\ pc = "anchor" /\ ~HasHeader(ParentNumber)
  BY DEF IndInv, ParentMissing
<1>2. update.fb \in Flashblocks /\ BuildOf(target) /\ Best \in Nat
  BY <1>1, UpdatePayload DEF SequenceInv, TypeOK, Best
<1>3. /\ target \in SUBSET Flashblocks /\ target # {} /\ prev.fbs \in SUBSET Flashblocks
      /\ Sequenced(prev.fbs)
  BY <1>1 DEF TypeOK, Snapshot, SequenceInv
<1>4. EarliestBlock(target) \in Nat /\ EarliestBlock(target) - 1 > Best
  BY <1>1, <1>2, <1>3, EarliestBlockIsLeast DEF HasHeader, ParentNumber
<1>5. update.fb.index = 0 /\ target = {update.fb}
  <2>1. SUFFICES ASSUME /\ IsSome(prev)
                        /\ Validate(LatestFlashblock(prev.fbs), update.fb)
                               \in {"NextInSequence", "FirstOfNextBlock"}
                        /\ target = prev.fbs \cup {update.fb}
                 PROVE  FALSE
    BY <1>2 DEF BuildOf
  <2>2. EarliestBlock(target) = EarliestBlock(prev.fbs)
    BY <1>2, <1>3, <2>1, EarliestKept DEF IsSome
  <2>3. EarliestBlock(prev.fbs) - 1 <= Best
    BY <2>1 DEF AnchorInv, Anchored
  <2> QED BY <1>2, <1>4, <2>2, <2>3
<1>6. update.fb.block \in Nat /\ EarliestBlock(target) <= update.fb.block
  BY <1>2, <1>3, <1>5, EarliestBlockIsLeast, FlashblocksAssumption
<1> QED BY <1>2, <1>4, <1>5, <1>6

\* The ways the cache changes.
LEMMA CacheChanges ==
    ASSUME IndInv, AnchorInv, [Next]_vars
    PROVE  \/ cache' = cache
           \/ /\ update.kind = "flashblock" /\ UNCHANGED chain
              /\ \E fb \in Flashblocks :
                    /\ cache' = Insert(cache, fb)
                    /\ \/ fb.index = 0 /\ fb.block > Best + 1
                       \/ HasFlashblock(cache, fb.block, fb.index - 1)
           \/ /\ Swap /\ update.kind = "canonical"
              /\ cache' = AfterDrain(UpdateCanonical(cache, update.block.number),
                                     update.block.number + 1)
<1> USE DEF publishedVars, nodeVars
<1>1. TypeOK
  BY DEF IndInv
<1>2. CASE NodeStep \/ FeedStep \/ CanonStep \/ Lagged \/ UNCHANGED vars
  BY <1>2
  DEF NodeStep, Commit, FeedStep, OnFlashblockReceived, LoseFlashblock, CanonStep,
      StoreLastCanonical, JudgePending, DropJudgedAndSend, Lagged, vars
<1>3. CASE Receive \/ ReplayNext \/ Announce
  BY <1>3 DEF Receive, ReplayNext, LoadPendingOrDropStale, Announce
<1>4. CASE FlashblockStep
  <2>1. CASE CacheFollower
    <3>1. update.kind = "flashblock" /\ update.fb \in Flashblocks /\ UNCHANGED chain
      BY <1>1, <2>1, UpdatePayload DEF CacheFollower, Applying, DecidingFlashblock, GiveUp
    <3>2. cache' = IF HasFlashblock(cache, update.fb.block, update.fb.index - 1)
                   THEN Insert(cache, update.fb) ELSE cache
      BY <2>1 DEF CacheFollower, GiveUp
    <3> QED BY <3>1, <3>2
  <2>2. CASE ~CacheFollower
    BY <1>4, <2>2
    DEF FlashblockStep, SkipSuperseded, BuildFirst, ExtendPending, RestartBlock,
        IgnoreDuplicate, ClearOutOfSequence, GiveUp, StartBuild, Resolve
  <2> QED BY <2>1, <2>2
<1>5. CASE CanonicalStep
  BY <1>5
  DEF CanonicalStep, NothingToReconcile, ReconcileCanonical, ReconcileAt, StartBuild, Resolve
<1>6. CASE BuildStep
  <2>1. CASE ParentMissing
    <3>1. /\ cache' = IF update.kind = "flashblock" THEN Insert(cache, update.fb) ELSE cache
          /\ UNCHANGED chain
      BY <2>1 DEF ParentMissing, GiveUp
    <3> QED BY <2>1, <3>1, WaitsForParent
  <2>2. CASE ReadAnchor \/ Execute \/ BuildFails
    BY <2>2 DEF ReadAnchor, Execute, BuildFails, GiveUp
  <2> QED BY <1>6, <2>1, <2>2 DEF BuildStep
<1>7. CASE Swap
  BY <1>7 DEF Swap
<1> QED BY <1>2, <1>3, <1>4, <1>5, <1>6, <1>7 DEF Next, ProcStep

\* Where the canonical blocks on their way come from.
LEMMA AwaitedSources ==
    ASSUME TypeOK, OrderInv, [Next]_vars, GrowingStep
    PROVE  /\ Best' \in Nat /\ Best' >= Best
           /\ \A x \in Awaited' : x \in Awaited \/ Best < x
           /\ update'.kind = "canonical" =>
                 update' = update \/ update'.block.number \in Awaited
<1>1. CASE NodeStep
  <2>1. HeadersKept /\ update' = update
    BY <1>1, CommitAppends DEF NodeStep, Commit, procVars
  <2> QED BY <1>1, <2>1, CommitOrder DEF HeadersKept
<1>2. ASSUME UNCHANGED chain
      PROVE  Best' \in Nat /\ Best' >= Best
  BY <1>2, ChainAlone DEF HeadersKept
<1>3. CASE FeedStep
  <2>1. UNCHANGED <<chain, update>>
    BY <1>3 DEF FeedStep, OnFlashblockReceived, LoseFlashblock, nodeVars, procVars
  <2> QED BY <1>2, <1>3, <2>1, FeedOrder
<1>4. CASE StoreLastCanonical \/ DropJudgedAndSend \/ Lagged
  <2>1. UNCHANGED <<chain, update>>
    BY <1>4 DEF StoreLastCanonical, DropJudgedAndSend, Lagged, nodeVars, procVars
  <2> QED BY <1>2, <1>4, <2>1, StoreOrder, SendOrder, LaggedOrder
<1>5. CASE JudgePending
  BY <1>2, <1>5, UnmovedOrder DEF JudgePending, nodeVars, procVars
<1>6. CASE UNCHANGED vars
  BY <1>2, <1>6, UnmovedOrder DEF vars, nodeVars, canonVars, procVars
<1>7. CASE Receive
  <2>1. UNCHANGED chain
    BY <1>7 DEF Receive, LoadPendingOrDropStale, nodeVars
  <2> QED BY <1>2, <1>7, <2>1, ReceiveOrder
<1>8. CASE ProcStep /\ ~Receive
  <2>1. UNCHANGED <<chain, notes, committed, queue, lastCanonical, canonPc>>
    BY <1>8, ProcMovesNone
  <2> QED BY <1>2, <1>8, <2>1, ProcMovesNone, UnmovedOrder
<1> QED BY <1>1, <1>3, <1>4, <1>5, <1>6, <1>7, <1>8 DEF Next, CanonStep

\* In a form that holds after a step as well.
LEMMA AwaitedNats == TypeOK => Awaited \subseteq Nat
BY NumbersAreNats

\* The cache starts empty, at or below the tip.
LEMMA InitWindow == Init => WindowInv /\ Replayable(cache)
<1> SUFFICES ASSUME Init PROVE WindowInv /\ Replayable(cache)
  OBVIOUS
<1>1. Awaited = {} /\ update.kind # "canonical" /\ cache.entries = {}
  BY InitOrder DEF Init, NoUpdate, NewCache
<1>2. cache.latest <= Best
  <2>1. Best = StartHeight /\ StartHeight \in Nat
    BY HeightAssumption DEF Init, Best, FirstBlocks
  <2> QED BY <2>1 DEF Init, NewCache
<1> QED BY <1>1, <1>2 DEF WindowInv, Windowed, Replayable

\* Every step keeps the window: latest_canonical only takes numbers that were
\* on their way, and these only grow.
LEMMA NextWindow ==
    ASSUME GrowingStep
    PROVE  IndInv /\ AnchorInv /\ OrderInv /\ WindowInv /\ [Next]_vars => WindowInv'
<1> SUFFICES ASSUME IndInv, AnchorInv, OrderInv, WindowInv, [Next]_vars PROVE WindowInv'
  OBVIOUS
<1>1. TypeOK /\ TypeOK'
  BY NextInv DEF IndInv
<1>2. cache \in Caches /\ Windowed(cache)
  BY <1>1 DEF WindowInv, Caches, TypeOK
<1>3. /\ Best \in Nat /\ Awaited \subseteq Nat /\ cache.latest \in Nat
      /\ update.kind = "canonical" => update.block.number \in Nat
  BY <1>1, NumbersAreNats
<1>4. /\ Best' \in Nat /\ Best' >= Best
      /\ \A x \in Awaited' : x \in Awaited \/ Best < x
      /\ update'.kind = "canonical" => update' = update \/ update'.block.number \in Awaited
  BY <1>1, AwaitedSources
<1>5. (Awaited \subseteq Nat)'
  BY <1>1, AwaitedNats, PTL
<1>6. CASE cache'.latest = cache.latest /\ Windowed(cache')
  <2>1. Windowed(cache)'
    BY <1>6 DEF Windowed
  <2>2. cache'.latest <= Best' /\ \A x \in Awaited' : cache'.latest <= x
    BY <1>3, <1>4, <1>5, <1>6 DEF WindowInv
  <2>3. update'.kind = "canonical" => cache'.latest <= update'.block.number
    BY <1>4, <1>6 DEF WindowInv
  <2> QED BY <2>1, <2>2, <2>3 DEF WindowInv
<1>7. CASE cache' = cache
  <2>1. Windowed(cache')
    BY <1>2, <1>7
  <2> QED BY <1>6, <1>7, <2>1
<1>8. ASSUME NEW fb \in Flashblocks, cache' = Insert(cache, fb),
             fb.block > Best + 1 \/ HasFlashblock(cache, fb.block, fb.index - 1)
      PROVE  WindowInv'
  <2>1. fb.block > cache.latest
    BY <1>2, <1>3, <1>8, FlashblocksAssumption DEF Windowed, HasFlashblock, WindowInv
  <2>2. cache'.latest = cache.latest /\ Windowed(cache')
    BY <1>2, <1>8, <2>1, InsertKeeps
  <2> QED BY <1>6, <2>2
<1>9. ASSUME Swap, update.kind = "canonical",
             cache' = AfterDrain(UpdateCanonical(cache, update.block.number),
                                 update.block.number + 1)
      PROVE  WindowInv'
  <2>1. PICK n \in Nat : n = update.block.number
    BY <1>3, <1>9
  <2>2. cache'.latest = n /\ Windowed(cache')
    BY <1>2, <1>9, <2>1, DrainKeeps DEF WindowInv
  <2>3. n <= Best' /\ update'.kind # "canonical"
    BY <1>3, <1>4, <1>9, <2>1 DEF OrderInv, Swap, Done, NoUpdate
  <2>4. \A x \in Awaited' : n <= x
    BY <1>3, <1>4, <1>5, <1>9, <2>1 DEF OrderInv
  <2>5. Windowed(cache)'
    BY <2>2 DEF Windowed
  <2> QED BY <2>2, <2>3, <2>4, <2>5 DEF WindowInv
<1> QED BY <1>7, <1>8, <1>9, CacheChanges

\* Every step leaves what is cached replayable.
LEMMA NextReplayable ==
    IndInv /\ AnchorInv /\ Replayable(cache) /\ [Next]_vars => Replayable(cache)'
<1> SUFFICES ASSUME IndInv, AnchorInv, Replayable(cache), [Next]_vars PROVE Replayable(cache)'
  OBVIOUS
<1>1. TypeOK /\ cache \in Caches /\ Replayable(cache)
  BY DEF IndInv, Caches, TypeOK
<1>2. CASE cache' = cache
  BY <1>2 DEF Replayable, HasFlashblock
<1>3. ASSUME NEW fb \in Flashblocks, cache' = Insert(cache, fb),
             fb.index = 0 \/ HasFlashblock(cache, fb.block, fb.index - 1)
      PROVE  Replayable(cache)'
  <2>1. Replayable(cache')
    BY <1>1, <1>3, InsertKeeps
  <2> QED BY <2>1 DEF Replayable, HasFlashblock
<1>4. ASSUME update.kind = "canonical",
             cache' = AfterDrain(UpdateCanonical(cache, update.block.number),
                                 update.block.number + 1)
      PROVE  Replayable(cache)'
  <2>1. update.block.number \in Nat
    BY <1>1, <1>4, NumbersAreNats
  <2>2. Replayable(cache')
    BY <1>1, <1>4, <2>1, DrainKeeps
  <2> QED BY <2>2 DEF Replayable, HasFlashblock
<1> QED BY <1>2, <1>3, <1>4, CacheChanges

-----------------------------------------------------------------------------
(***************************************************************************)
(* Staleness                                                               *)
(***************************************************************************)

\* A canonical block stays on its way until the processor takes it, and the
\* chain does not move without sending one.
LEMMA NotifiedSteps ==
    ASSUME TypeOK, [Next]_vars, "lag" \notin Faults
    PROVE  /\ StoreLastCanonical \/ DropJudgedAndSend => Notified'
           /\ ~Receive /\ Notified => Notified'
           /\ Receive /\ Notified => Notified' \/ update'.kind = "canonical"
           /\ UNCHANGED chain \/ (NodeStep /\ Notified')
<1> USE DEF nodeVars, canonVars
<1>1. /\ queue \in Seq(Update) /\ notes \in Seq(Seq(Block) \ {<<>>})
      /\ committed \in Seq(Block) /\ canonPc # "idle" => committed # <<>>
  BY DEF TypeOK
<1>2. ASSUME NEW u
      PROVE  /\ CanonicalPlaces(queue) # {} => CanonicalPlaces(Append(queue, u)) # {}
             /\ u.kind = "canonical" => CanonicalPlaces(Append(queue, u)) # {}
  <2>1. PICK q : q = Append(queue, u)
    OBVIOUS
  <2>2. /\ DOMAIN q = 1..Len(queue) + 1 /\ DOMAIN queue = 1..Len(queue) /\ Len(queue) \in Nat
        /\ q[Len(queue) + 1] = u /\ \A i \in DOMAIN queue : q[i] = queue[i]
    BY <1>1, <2>1
  <2>3. ASSUME NEW i \in CanonicalPlaces(queue)
        PROVE  i \in CanonicalPlaces(q)
    BY <2>2 DEF CanonicalPlaces
  <2>4. u.kind = "canonical" => Len(queue) + 1 \in CanonicalPlaces(q)
    BY <2>2 DEF CanonicalPlaces
  <2> QED BY <2>1, <2>3, <2>4
<1>3. CASE NodeStep
  <2>1. /\ UNCHANGED <<committed, queue>>
        /\ \E new : notes' = Append(notes, new)
    BY <1>3 DEF NodeStep, Commit
  <2>2. notes' # <<>>
    BY <1>1, <2>1
  <2>3. ~StoreLastCanonical /\ ~DropJudgedAndSend /\ ~Receive
    <3>1. notes' # notes
      BY <1>1, <2>1
    <3>2. DropJudgedAndSend \/ Receive => notes' = notes
      BY DEF DropJudgedAndSend, Receive, LoadPendingOrDropStale
    <3>3. StoreLastCanonical => canonPc' # canonPc
      BY DEF StoreLastCanonical
    <3>4. canonPc' = canonPc
      BY <1>3 DEF NodeStep, Commit
    <3> QED BY <3>1, <3>2, <3>3, <3>4
  <2> QED BY <1>3, <2>2, <2>3 DEF Notified
<1>4. CASE FeedStep
  <2>1. PICK u : /\ u.kind = "flashblock"
                 /\ queue' = queue \/ queue' = Append(queue, u)
                 /\ UNCHANGED <<chain, notes, canonPc, committed, update, pc>>
    BY <1>4 DEF FeedStep, OnFlashblockReceived, LoseFlashblock, procVars
  <2>2. CanonicalPlaces(queue) # {} => CanonicalPlaces(queue)' # {}
    <3>1. CanonicalPlaces(queue) # {} => CanonicalPlaces(queue') # {}
      BY <1>2, <2>1
    <3> QED BY <3>1 DEF CanonicalPlaces
  <2>3. ~StoreLastCanonical /\ ~DropJudgedAndSend /\ ~Receive
    BY <2>1 DEF StoreLastCanonical, DropJudgedAndSend, Receive, LoadPendingOrDropStale
  <2> QED BY <2>1, <2>2, <2>3 DEF Notified
<1>5. CASE StoreLastCanonical
  <2>1. committed' # <<>> /\ UNCHANGED <<chain, pc>>
    <3>1. notes # <<>> => Head(notes) \in Seq(Block) \ {<<>>}
      BY <1>1
    <3> QED BY <1>5, <3>1 DEF StoreLastCanonical, procVars
  <2>2. ~Receive
    BY <2>1 DEF Receive, LoadPendingOrDropStale
  <2> QED BY <2>1, <2>2 DEF Notified
<1>6. CASE DropJudgedAndSend
  <2>1. PICK u : /\ u.kind = "canonical" /\ queue' = Append(queue, u)
                 /\ UNCHANGED <<chain, pc>>
    BY <1>6 DEF DropJudgedAndSend, procVars
  <2>2. CanonicalPlaces(queue') # {}
    BY <1>2, <2>1
  <2>3. CanonicalPlaces(queue)' # {}
    BY <2>2 DEF CanonicalPlaces
  <2>4. ~Receive
    BY <2>1 DEF Receive, LoadPendingOrDropStale
  <2> QED BY <2>1, <2>3, <2>4 DEF Notified
<1>7. ASSUME UNCHANGED <<chain, notes, committed, queue>>,
             ~StoreLastCanonical, ~DropJudgedAndSend, ~Receive
      PROVE  /\ StoreLastCanonical \/ DropJudgedAndSend => Notified'
             /\ ~Receive /\ Notified => Notified'
             /\ Receive /\ Notified => Notified' \/ update'.kind = "canonical"
             /\ UNCHANGED chain \/ (NodeStep /\ Notified')
  BY <1>7 DEF Notified, CanonicalPlaces
<1>8. CASE JudgePending \/ UNCHANGED vars
  <2>1. UNCHANGED <<chain, notes, committed, queue, pc>>
    BY <1>8 DEF JudgePending, vars, procVars
  <2>2. ~DropJudgedAndSend /\ ~Receive
    BY <2>1 DEF DropJudgedAndSend, Receive, LoadPendingOrDropStale
  <2> QED BY <1>5, <1>7, <2>1, <2>2
<1>9. CASE Receive
  <2>1. /\ UNCHANGED <<chain, notes, committed, canonPc>> /\ queue # <<>>
        /\ update' = Head(queue) /\ queue' = Tail(queue)
    BY <1>9 DEF Receive, LoadPendingOrDropStale
  <2>2. ASSUME CanonicalPlaces(queue) # {}, Head(queue).kind # "canonical"
        PROVE  CanonicalPlaces(Tail(queue)) # {}
    <3>1. PICK i \in CanonicalPlaces(queue) : TRUE
      BY <2>2
    <3>2. i \in 1..Len(queue) /\ queue[i].kind = "canonical" /\ i # 1
      BY <1>1, <2>1, <2>2 DEF CanonicalPlaces
    <3>3. i - 1 \in DOMAIN Tail(queue) /\ Tail(queue)[i - 1] = queue[i]
      BY <1>1, <2>1, <3>2
    <3> QED BY <3>2, <3>3 DEF CanonicalPlaces
  <2>3. CanonicalPlaces(queue)' = CanonicalPlaces(Tail(queue))
    BY <2>1 DEF CanonicalPlaces
  <2>4. ~StoreLastCanonical /\ ~DropJudgedAndSend
    BY <2>1 DEF StoreLastCanonical, DropJudgedAndSend
  <2> QED BY <1>9, <2>1, <2>2, <2>3, <2>4 DEF Notified
<1>10. CASE ProcStep /\ ~Receive
  <2>1. UNCHANGED <<chain, notes, committed, queue, canonPc>>
    BY <1>10, ProcMovesNone
  <2>2. ~StoreLastCanonical /\ ~DropJudgedAndSend
    BY <2>1 DEF StoreLastCanonical, DropJudgedAndSend
  <2> QED BY <1>7, <1>10, <2>1, <2>2
<1>11. ~Lagged
  BY DEF Lagged
<1> QED BY <1>3, <1>4, <1>5, <1>6, <1>8, <1>9, <1>10, <1>11 DEF Next, CanonStep

\* CanonicalUpdateOutstanding, in terms of Notified.
LEMMA Outstanding == CanonicalUpdateOutstanding <=> Notified \/ update.kind = "canonical"
BY DEF CanonicalUpdateOutstanding, Notified, CanonicalPlaces

\* Nothing is served at first.
LEMMA InitFresh == Init => FreshInv
BY NoSnapshotType DEF Init, FreshInv, StaleOnlyUntilNotified, Stale

\* With a canonical block on its way a snapshot may be stale.
LEMMA FreshNotified ==
    ASSUME Notified', pc' # "idle" => pending' = prev' \/ ~IsSome(pending')
    PROVE  FreshInv'
<1>1. CanonicalUpdateOutstanding'
  BY Outstanding DEF CanonicalUpdateOutstanding, Notified, CanonicalPlaces
<1> QED BY <1>1 DEF FreshInv, StaleOnlyUntilNotified

\* The snapshot loaded and the snapshot served, in every step.
LEMMA ServedIsLoaded ==
    ASSUME [Next]_vars, pc # "idle" => pending = prev \/ ~IsSome(pending)
    PROVE  pc' # "idle" => pending' = prev' \/ ~IsSome(pending')
<1> USE DEF publishedVars, nodeVars
<1>1. CASE UNCHANGED <<pc, prev>> /\ (pending' = pending \/ pending' = NoSnapshot)
  BY <1>1, NoSnapshotType
<1>2. CASE NodeStep \/ FeedStep \/ CanonStep \/ Lagged \/ UNCHANGED vars
  BY <1>1, <1>2
  DEF NodeStep, Commit, FeedStep, OnFlashblockReceived, LoseFlashblock, CanonStep,
      StoreLastCanonical, JudgePending, DropJudgedAndSend, Lagged, vars, procVars
<1>3. CASE Receive \/ ReplayNext
  BY <1>3, NoSnapshotType DEF Receive, ReplayNext, LoadPendingOrDropStale
<1>4. ASSUME NEW c, GiveUp(c) PROVE pc' = "idle"
  BY <1>4 DEF GiveUp, Done
<1>5. ASSUME NEW F, NEW b, StartBuild(F, b), pc = "decide"
      PROVE  pending' = prev' \/ ~IsSome(pending')
  BY <1>5 DEF StartBuild
<1>6. ASSUME NEW s, Resolve(s), pc = "decide"
      PROVE  pending' = prev' \/ ~IsSome(pending')
  BY <1>6 DEF Resolve
<1>7. CASE FlashblockStep
  BY <1>4, <1>5, <1>6, <1>7
  DEF FlashblockStep, SkipSuperseded, BuildFirst, CacheFollower, ExtendPending, RestartBlock,
      IgnoreDuplicate, ClearOutOfSequence, Applying, DecidingFlashblock
<1>8. CASE CanonicalStep
  BY <1>5, <1>6, <1>8
  DEF CanonicalStep, NothingToReconcile, ReconcileCanonical, ReconcileAt, DecidingCanonical
<1>9. CASE BuildStep
  BY <1>4, <1>9 DEF BuildStep, ReadAnchor, ParentMissing, Execute, BuildFails
<1>10. CASE Announce \/ Swap
  BY <1>10 DEF Announce, Swap, Done
<1> QED BY <1>2, <1>3, <1>7, <1>8, <1>9, <1>10 DEF Next, ProcStep

\* Every step keeps a snapshot fresh while no canonical block is on its way.
LEMMA NextFresh ==
    ASSUME Faults \cap {"lag", "provider"} = {}
    PROVE  IndInv /\ FreshInv /\ [Next]_vars => FreshInv'
<1> SUFFICES ASSUME IndInv, FreshInv, [Next]_vars PROVE FreshInv'
  OBVIOUS
<1> USE DEF publishedVars, nodeVars
<1>1. TypeOK /\ SequenceInv /\ "lag" \notin Faults /\ TipReads = {Best}
  BY DEF IndInv, TipReads
<1>2. /\ pc # "idle" => pending = prev \/ ~IsSome(pending)
      /\ pc' # "idle" => pending' = prev' \/ ~IsSome(pending')
  BY ServedIsLoaded DEF FreshInv
<1>3. Best \in Nat /\ Best # Unknown
  BY <1>1 DEF TypeOK, Best, Unknown
<1>4. SUFFICES ASSUME ~Notified' PROVE FreshInv'
  BY <1>2, FreshNotified
<1>5. /\ ~StoreLastCanonical /\ ~DropJudgedAndSend /\ ~NodeStep /\ ~Lagged
      /\ ~Receive => ~Notified
      /\ Receive /\ Notified => update'.kind = "canonical"
      /\ Best' = Best
  <2>1. UNCHANGED chain /\ ~StoreLastCanonical /\ ~DropJudgedAndSend /\ ~Lagged
    BY <1>1, <1>4, NotifiedSteps DEF Lagged
  <2>2. ~NodeStep
    <3>1. notes \in Seq(Seq(Block) \ {<<>>})
      BY <1>1 DEF TypeOK
    <3>2. NodeStep => \E new : notes' = Append(notes, new)
      BY DEF NodeStep, Commit
    <3>3. NodeStep => notes' # <<>>
      BY <3>1, <3>2
    <3> QED BY <1>4, <3>3 DEF Notified
  <2> QED BY <1>1, <1>4, <2>1, <2>2, NotifiedSteps DEF Best
<1>6. ASSUME ~Receive
      PROVE  Stale => update.kind = "canonical"
  BY <1>5, <1>6, Outstanding DEF FreshInv, StaleOnlyUntilNotified
<1>7. ASSUME UNCHANGED pending PROVE Stale' = Stale
  BY <1>5, <1>7 DEF Stale
<1>8. ASSUME UNCHANGED <<pending, update>>, ~Receive
      PROVE  StaleOnlyUntilNotified'
  BY <1>6, <1>7, <1>8 DEF StaleOnlyUntilNotified, CanonicalUpdateOutstanding
<1>9. ASSUME UNCHANGED <<pending, update, pc, prev, result>>, ~Receive
      PROVE  FreshInv'
  BY <1>2, <1>5, <1>8, <1>9 DEF FreshInv
<1>10. CASE FeedStep \/ JudgePending \/ UNCHANGED vars
  <2>1. UNCHANGED <<pending, update, pc, prev, result>>
    BY <1>10
    DEF FeedStep, OnFlashblockReceived, LoseFlashblock, JudgePending, vars, procVars
  <2>2. ~Receive
    BY <2>1 DEF Receive, LoadPendingOrDropStale
  <2> QED BY <1>9, <2>1, <2>2
<1>11. ASSUME ProcStep, ~Receive, pc # "idle",
              pc' = "decide" \/ pc' = "anchor" \/ pc' = "execute" \/ pc' = "publish",
              UNCHANGED <<pending, update, prev>>,
              pc' \in {"anchor", "execute"} /\ update.kind = "canonical" =>
                  LatestBlock(prev.fbs) > Best
       PROVE  FreshInv'
  BY <1>2, <1>5, <1>8, <1>11 DEF FreshInv
<1>12. ASSUME NEW c, GiveUp(c), ~Receive, pc # "idle",
              update.kind # "canonical" \/ pc \in {"anchor", "execute"}
       PROVE  FreshInv'
  <2>1. UNCHANGED pending /\ pc' = "idle"
    BY <1>12 DEF GiveUp, Done
  <2>2. ~Stale
    <3>1. SUFFICES ASSUME Stale PROVE FALSE
      OBVIOUS
    <3>2. update.kind = "canonical" /\ pc \in {"anchor", "execute"}
      BY <1>6, <1>12, <3>1
    <3>3. pending = prev /\ IsSome(prev)
      BY <1>2, <1>12, <3>1 DEF Stale
    <3>4. IsAnchoredNear(prev.fbs, Best) /\ LatestBlock(prev.fbs) > Best
      BY <1>5, <1>12, <3>2, <3>3 DEF FreshInv
    <3> QED BY <3>1, <3>3, <3>4 DEF Stale, ExtendsCanonicalTip
  <2>3. StaleOnlyUntilNotified'
    BY <1>7, <2>1, <2>2 DEF StaleOnlyUntilNotified
  <2> QED BY <2>1, <2>3 DEF FreshInv
<1>13. ASSUME pc # "idle" PROVE ~Receive
  BY <1>13 DEF Receive
<1>14. CASE Receive \/ ReplayNext
  <2>1. /\ pc = "idle" /\ pc' = "decide"
        /\ IF ~IsSome(pending) \/ Best = Unknown \/ IsAnchoredNear(pending.fbs, Best)
           THEN prev' = pending /\ pending' = pending
           ELSE prev' = NoSnapshot /\ pending' = NoSnapshot
    BY <1>1, <1>14 DEF Receive, ReplayNext, LoadPendingOrDropStale
  <2>2. IsSome(prev') => IsAnchoredNear(prev'.fbs, Best)
    BY <1>3, <2>1, NoSnapshotType
  <2>3. StaleOnlyUntilNotified'
    <3>1. SUFFICES ASSUME Stale' PROVE CanonicalUpdateOutstanding'
      BY DEF StaleOnlyUntilNotified
    <3>2. pending' = pending /\ Stale
      <4>1. IsSome(pending')
        BY <3>1 DEF Stale
      <4> QED BY <1>7, <2>1, <3>1, <4>1, NoSnapshotType
    <3>3. Notified
      <4>1. update.kind # "canonical"
        BY <1>1, <2>1 DEF TypeOK, NoUpdate
      <4> QED BY <3>2, <4>1, Outstanding DEF FreshInv, StaleOnlyUntilNotified
    <3> QED BY <1>5, <3>3 DEF CanonicalUpdateOutstanding
  <2> QED BY <1>2, <1>5, <2>1, <2>2, <2>3 DEF FreshInv
<1>15. CASE FlashblockStep
  <2> USE DEF Applying, DecidingFlashblock
  <2>1. pc = "decide" /\ update.kind = "flashblock" /\ ProcStep /\ ~Receive
    BY <1>15, <1>13
    DEF FlashblockStep, SkipSuperseded, BuildFirst, CacheFollower, ExtendPending,
        RestartBlock, IgnoreDuplicate, ClearOutOfSequence, ProcStep
  <2>2. ASSUME NEW c, GiveUp(c) PROVE FreshInv'
    BY <1>12, <2>1, <2>2
  <2>3. ASSUME NEW F, NEW b, StartBuild(F, b) PROVE FreshInv'
    BY <1>11, <2>1, <2>3 DEF StartBuild
  <2>4. ASSUME NEW s, Resolve(s) PROVE FreshInv'
    BY <1>11, <2>1, <2>4 DEF Resolve
  <2> QED
    BY <1>15, <2>2, <2>3, <2>4
    DEF FlashblockStep, SkipSuperseded, BuildFirst, CacheFollower, ExtendPending,
        RestartBlock, IgnoreDuplicate, ClearOutOfSequence
<1>16. CASE CanonicalStep
  <2>1. pc = "decide" /\ update.kind = "canonical" /\ ProcStep /\ ~Receive
    BY <1>13, <1>16
    DEF CanonicalStep, NothingToReconcile, ReconcileCanonical, DecidingCanonical, ProcStep
  <2>2. ASSUME NEW s, Resolve(s) PROVE FreshInv'
    BY <1>11, <2>1, <2>2 DEF Resolve
  <2>3. CASE NothingToReconcile
    BY <2>2, <2>3 DEF NothingToReconcile
  <2>4. CASE ReconcileCanonical
    <3>1. IsSome(prev) /\ ReconcileAt(Best)
      BY <1>1, <2>4 DEF ReconcileCanonical
    <3>2. PICK n : n = EffectiveCanonical(update.block.number, Best)
      OBVIOUS
    <3>3. n \in Nat /\ n >= Best
      <4>1. update.block.number \in Nat
        BY <1>1, <2>1, NumbersAreNats
      <4> QED BY <1>3, <3>2, <4>1 DEF EffectiveCanonical
    <3>4. CASE Strategy(n) = "CatchUp"
      BY <2>2, <3>1, <3>2, <3>4 DEF ReconcileAt
    <3>5. CASE Strategy(n) # "CatchUp"
      <4>1. ~(LatestBlock(prev.fbs) <= n)
        BY <3>5 DEF Strategy, Reconcile
      <4>2. LatestBlock(prev.fbs) \in Nat
        BY <1>1, <3>1, LatestIsLast, FlashblocksAssumption
        DEF TypeOK, Snapshot, SequenceInv, IsSome, LatestBlock
      <4>3. LatestBlock(prev.fbs) > Best
        BY <1>3, <3>3, <4>1, <4>2
      <4>4. \E F, b : StartBuild(F, b)
        BY <3>1, <3>2, <3>5 DEF ReconcileAt
      <4> QED BY <1>11, <2>1, <4>3, <4>4 DEF StartBuild
    <3> QED BY <3>4, <3>5
  <2> QED BY <1>16, <2>3, <2>4 DEF CanonicalStep
<1>17. CASE BuildStep
  <2>1. pc \in {"anchor", "execute"} /\ ProcStep /\ ~Receive
    BY <1>13, <1>17 DEF BuildStep, ReadAnchor, ParentMissing, Execute, BuildFails, ProcStep
  <2>2. CASE ReadAnchor \/ Execute
    <3>1. /\ pc' \in {"execute", "publish"} /\ UNCHANGED <<pending, update, prev>>
      BY <2>2 DEF ReadAnchor, Execute
    <3>2. update.kind = "canonical" => LatestBlock(prev.fbs) > Best
      BY <1>5, <2>1 DEF FreshInv
    <3> QED BY <1>11, <2>1, <3>1, <3>2
  <2>3. CASE ParentMissing \/ BuildFails
    BY <1>12, <2>1, <2>3 DEF ParentMissing, BuildFails
  <2> QED BY <1>17, <2>2, <2>3 DEF BuildStep
<1>18. CASE Announce
  <2>1. /\ pc = "publish" /\ pc' = "swap" /\ UNCHANGED <<pending, update, prev>>
        /\ result' = Publishable(result, Best)
    BY <1>1, <1>18 DEF Announce
  <2>2. IsSome(result') => ExtendsCanonicalTip(result'.fbs, Best)
    BY <2>1, NoSnapshotType DEF Publishable
  <2> QED BY <1>2, <1>5, <1>8, <1>13, <2>1, <2>2 DEF FreshInv
<1>19. CASE Swap
  <2>1. pc = "swap" /\ pc' = "idle" /\ pending' = result
    BY <1>19 DEF Swap, Done
  <2>2. ~Stale'
    <3>1. IsSome(result) => ExtendsCanonicalTip(result.fbs, Best)
      BY <1>5, <1>13, <2>1 DEF FreshInv
    <3> QED BY <1>5, <2>1, <3>1 DEF Stale
  <2> QED BY <2>1, <2>2 DEF FreshInv, StaleOnlyUntilNotified
<1> QED
  BY <1>5, <1>10, <1>14, <1>15, <1>16, <1>17, <1>18, <1>19 DEF Next, CanonStep, ProcStep

\* The contract of publishable: when every notification arrives and every read
\* of the provider succeeds, the snapshot served extends the node's tip and is
\* anchored near it, or a canonical block that will replace it is on its way,
\* through any reorg, failed execution or disordered stream.
THEOREM StaleIsNotified ==
    ASSUME Faults \cap {"lag", "provider"} = {}
    PROVE  Spec => []StaleOnlyUntilNotified
<1>1. IndInv /\ FreshInv /\ [Next]_vars => FreshInv'
  BY NextFresh
<1>2. FreshInv => StaleOnlyUntilNotified
  BY DEF FreshInv
<1> QED BY <1>1, <1>2, InitFresh, Invariance, PTL DEF Spec

-----------------------------------------------------------------------------
(***************************************************************************)
(* Flashblocks in the cache are drained                                    *)
(***************************************************************************)

\* A canonical block is on its way exactly when some number is awaited.
LEMMA AwaitedNotified == TypeOK => (Notified <=> Awaited # {})
<1> SUFFICES ASSUME TypeOK PROVE Notified <=> Awaited # {}
  OBVIOUS
<1>1. notes \in Seq(Seq(Block) \ {<<>>}) /\ committed \in Seq(Block)
  BY DEF TypeOK
<1>2. CanonicalPlaces(queue) # {} <=> NumbersQueued(queue) # {}
  BY DEF NumbersQueued
<1>3. ASSUME NEW s \in Seq(Block)
      PROVE  s # <<>> <=> NumbersIn(s) # {}
  BY DEF NumbersIn
<1>4. notes # <<>> <=> NumbersNoted(notes) # {}
  <2>1. ASSUME notes # <<>> PROVE NumbersNoted(notes) # {}
    <3>1. 1 \in DOMAIN notes /\ notes[1] \in Seq(Block) \ {<<>>}
      BY <1>1, <2>1
    <3>2. PICK x : x \in NumbersIn(notes[1])
      BY <1>3, <3>1
    <3> QED BY <3>1, <3>2 DEF NumbersNoted
  <2>2. ASSUME notes = <<>> PROVE NumbersNoted(notes) = {}
    BY <2>2 DEF NumbersNoted
  <2> QED BY <2>1, <2>2
<1> QED BY <1>1, <1>2, <1>3, <1>4 DEF Notified, Awaited

\* What a step leaves of the canonical blocks on their way, but for a commit, a
\* lag and the step that takes one.
LEMMA AwaitedKept ==
    ASSUME TypeOK, OrderInv, [Next]_vars, ~NodeStep, ~Receive, ~missed'
    PROVE  /\ UNCHANGED chain /\ Awaited' = Awaited
           /\ update' = update \/ update'.kind # "canonical"
<1> USE DEF nodeVars, canonVars
<1>1. CASE FeedStep
  BY <1>1, FeedOrder DEF FeedStep, OnFlashblockReceived, LoseFlashblock, procVars
<1>2. CASE StoreLastCanonical \/ DropJudgedAndSend
  BY <1>2, StoreOrder, SendOrder DEF StoreLastCanonical, DropJudgedAndSend, procVars
<1>3. CASE JudgePending
  BY <1>3, UnmovedOrder DEF JudgePending, procVars
<1>4. CASE UNCHANGED vars
  BY <1>4, UnmovedOrder DEF vars, procVars
<1>5. CASE ProcStep
  BY <1>5, ProcMovesNone, UnmovedOrder
<1> QED BY <1>1, <1>2, <1>3, <1>4, <1>5 DEF Next, CanonStep, Lagged

\* A canonical block the processor has taken is finished by its swap, which drains
\* the cache, or missed.
LEMMA FinishedOrMissed ==
    ASSUME TypeOK, [Next]_vars, update.kind = "canonical", update'.kind # "canonical",
           ~missed'
    PROVE  Swap
<1> USE DEF publishedVars, nodeVars
<1>1. pc # "idle"
  BY DEF TypeOK, NoUpdate
<1>2. CASE NodeStep \/ FeedStep \/ CanonStep \/ Lagged \/ UNCHANGED vars
  BY <1>2
  DEF NodeStep, Commit, FeedStep, OnFlashblockReceived, LoseFlashblock, CanonStep,
      StoreLastCanonical, JudgePending, DropJudgedAndSend, Lagged, vars, procVars
<1>3. CASE Receive \/ ReplayNext
  BY <1>1, <1>3 DEF Receive, ReplayNext
<1>4. CASE FlashblockStep
  BY <1>4
  DEF FlashblockStep, SkipSuperseded, BuildFirst, CacheFollower, ExtendPending, RestartBlock,
      IgnoreDuplicate, ClearOutOfSequence, Applying, DecidingFlashblock
<1>5. CASE CanonicalStep
  BY <1>5
  DEF CanonicalStep, NothingToReconcile, ReconcileCanonical, ReconcileAt, StartBuild, Resolve
<1>6. CASE ReadAnchor \/ Execute \/ Announce
  BY <1>6 DEF ReadAnchor, Execute, Announce
<1>7. CASE ParentMissing \/ BuildFails
  BY <1>7 DEF ParentMissing, BuildFails, GiveUp
<1> QED
  BY <1>2, <1>3, <1>4, <1>5, <1>6, <1>7 DEF Next, ProcStep, BuildStep

\* Nothing is cached and nothing is on its way at first.
LEMMA InitTip == Init => TipInv
<1> SUFFICES ASSUME Init PROVE TipInv
  OBVIOUS
<1>1. ~CanonicalUpdateOutstanding /\ cache.entries = {}
  BY DEF Init, CanonicalUpdateOutstanding, NoUpdate, NewCache
<1> QED BY <1>1 DEF TipInv, NoneWaitsAlone

\* Every step leaves the tip the last block awaited, and drains what it must.
LEMMA NextTip ==
    ASSUME GrowingStep, ~missed'
    PROVE  IndInv /\ AnchorInv /\ OrderInv /\ TipInv /\ [Next]_vars => TipInv'
<1> SUFFICES ASSUME IndInv, AnchorInv, OrderInv, TipInv, [Next]_vars PROVE TipInv'
  OBVIOUS
<1>1. TypeOK /\ TypeOK'
  BY NextInv DEF IndInv
<1>3. /\ CanonicalUpdateOutstanding <=> Awaited # {} \/ update.kind = "canonical"
      /\ Best \in Nat /\ Awaited \subseteq Nat /\ cache \in Caches
      /\ update.kind = "canonical" => update.block.number \in Nat
  BY <1>1, Outstanding, AwaitedNotified, NumbersAreNats DEF TypeOK, Caches
<1>4. CanonicalUpdateOutstanding' <=> Awaited' # {} \/ update'.kind = "canonical"
  <2>1. (Notified <=> Awaited # {})'
    BY <1>1, AwaitedNotified, PTL
  <2>2. (CanonicalUpdateOutstanding <=> Notified \/ update.kind = "canonical")'
    BY Outstanding, PTL
  <2> QED BY <2>1, <2>2
<1>5. CASE NodeStep
  <2>1. Best' \in Awaited'
    BY <1>1, <1>5, CommitOrder
  <2> QED BY <1>4, <2>1 DEF TipInv, NoneWaitsAlone
<1>6. CASE Receive
  <2>1. /\ update.kind # "canonical" /\ Best' = Best /\ cache' = cache
    BY <1>1, <1>6
    DEF Receive, LoadPendingOrDropStale, TypeOK, NoUpdate, nodeVars, Best
  <2>2. /\ update'.kind = "canonical" => Awaited = Awaited' \cup {update'.block.number}
        /\ update'.kind # "canonical" => Awaited' = Awaited
    BY <1>1, <1>6, ReceiveOrder
  <2>3. Awaited # {} => Best \in Awaited
    BY <1>3, <2>1 DEF TipInv
  <2>4. /\ CanonicalUpdateOutstanding => CanonicalUpdateOutstanding'
        /\ CanonicalUpdateOutstanding' =>
              Best' \in Awaited' \/ (update'.kind = "canonical" /\ update'.block.number = Best')
    BY <1>3, <1>4, <2>1, <2>2, <2>3
  <2>5. NoneWaitsAlone'
    BY <2>1, <2>4 DEF TipInv, NoneWaitsAlone
  <2> QED BY <2>4, <2>5 DEF TipInv
<1>7. CASE ~NodeStep /\ ~Receive
  <2>1. /\ Best' = Best /\ Awaited' = Awaited
        /\ update' = update \/ update'.kind # "canonical"
    BY <1>1, <1>7, AwaitedKept DEF Best
  <2>2. CanonicalUpdateOutstanding' =>
           Best' \in Awaited' \/ (update'.kind = "canonical" /\ update'.block.number = Best')
    <3>1. CASE update' = update
      BY <1>3, <1>4, <2>1, <3>1 DEF TipInv
    <3>2. CASE update'.kind # "canonical"
      <4>1. SUFFICES ASSUME Awaited # {} PROVE Best \in Awaited
        BY <1>4, <2>1, <3>2
      <4>2. SUFFICES ASSUME update.kind = "canonical", update.block.number = Best
                     PROVE  Best \in Awaited
        BY <1>3, <4>1 DEF TipInv
      <4>3. \A x \in Awaited : Best <= x /\ x <= Best
        BY <4>2 DEF OrderInv
      <4>4. PICK x \in Awaited : TRUE
        BY <4>1
      <4>5. x \in Nat /\ Best \in Nat
        BY <1>3
      <4>6. x = Best
        BY <4>3, <4>5
      <4> QED BY <4>6
    <3> QED BY <2>1, <3>1, <3>2
  <2>3. ASSUME CanonicalUpdateOutstanding, ~Swap \/ update.kind # "canonical"
        PROVE  CanonicalUpdateOutstanding'
    <3>1. CASE Awaited # {}
      BY <1>4, <2>1, <3>1
    <3>2. CASE update.kind = "canonical"
      BY <1>1, <1>4, <2>3, <3>2, FinishedOrMissed
    <3> QED BY <1>3, <2>3, <3>1, <3>2
  <2>4. ASSUME NEW f \in cache.entries, f.block <= Best + 1, ~Swap \/ update.kind # "canonical"
        PROVE  CanonicalUpdateOutstanding'
    BY <2>3, <2>4 DEF TipInv, NoneWaitsAlone
  <2>5. NoneWaitsAlone'
    <3>1. SUFFICES ASSUME NEW f \in cache'.entries, f.block <= Best' + 1
                   PROVE  CanonicalUpdateOutstanding'
      BY DEF NoneWaitsAlone
    <3>2. CASE ~Swap \/ update.kind # "canonical"
      <4>1. CASE cache' = cache
        BY <2>1, <2>4, <3>1, <3>2, <4>1
      <4>2. ASSUME NEW fb \in Flashblocks, cache' = Insert(cache, fb),
                   \/ fb.index = 0 /\ fb.block > Best + 1
                   \/ HasFlashblock(cache, fb.block, fb.index - 1)
            PROVE  CanonicalUpdateOutstanding'
        <5>1. f \in cache.entries \/ f = fb
          BY <1>3, <3>1, <4>2, InsertKeeps
        <5>2. fb.block \in Nat
          BY FlashblocksAssumption
        <5>3. \E g \in cache.entries : g.block <= Best + 1
          BY <1>3, <2>1, <3>1, <4>2, <5>1, <5>2 DEF HasFlashblock
        <5> QED BY <2>4, <3>2, <5>3
      <4> QED BY <3>2, <4>1, <4>2, CacheChanges
    <3>3. CASE Swap /\ update.kind = "canonical"
      <4>1. PICK n \in Nat : n = update.block.number
        BY <1>3, <3>3
      <4>2. cache' = AfterDrain(UpdateCanonical(cache, n), n + 1)
        BY <3>3, <4>1 DEF Swap
      <4>3. f \in cache.entries /\ f.block > n + 1
        BY <1>3, <3>1, <4>2, DrainKeeps
      <4>4. n # Best
        <5>1. f.block \in Nat
          BY <1>3, <4>3, FlashblocksAssumption DEF Caches
        <5> QED BY <1>3, <2>1, <3>1, <4>3, <5>1
      <4>5. Best \in Awaited
        BY <1>3, <3>3, <4>1, <4>4 DEF TipInv
      <4> QED BY <1>4, <2>1, <4>5
    <3> QED BY <3>2, <3>3
  <2> QED BY <2>2, <2>5 DEF TipInv
<1> QED BY <1>5, <1>6, <1>7

-----------------------------------------------------------------------------
(***************************************************************************)
(* What holds until the first reorg                                        *)
(***************************************************************************)
THEOREM GrownInvariance == Spec => []GrownInv
<1>1. Init => GrownInv
  <2> SUFFICES ASSUME Init PROVE GrownInv
    OBVIOUS
  <2>1. minted >= Best
    <3>1. Best = StartHeight /\ StartHeight \in Nat /\ minted = StartHeight
      BY HeightAssumption DEF Init, Best, FirstBlocks
    <3> QED BY <3>1
  <2> QED BY <2>1, InitAnchor, InitOrder, InitWindow, InitTip DEF GrownInv
<1>2. IndInv /\ GrownInv /\ [Next]_vars => GrownInv'
  <2> SUFFICES ASSUME IndInv, GrownInv, [Next]_vars PROVE GrownInv'
    OBVIOUS
  <2>1. TypeOK
    BY DEF IndInv
  <2>2. minted' >= Best' /\ (ChainOnlyGrew' => ChainOnlyGrew)
    BY <2>1, NextMinted DEF GrownInv
  <2>3. ASSUME ChainOnlyGrew'
        PROVE  AnchorInv' /\ OrderInv' /\ WindowInv' /\ Replayable(cache)'
    <3>1. GrowingStep /\ AnchorInv /\ OrderInv /\ WindowInv /\ Replayable(cache)
      BY <2>2, <2>3 DEF GrowingStep, GrownInv
    <3> QED BY <2>1, <3>1, NextAnchor, NextOrder, NextWindow, NextReplayable
  <2>4. ASSUME ChainOnlyGrew', ~missed'
        PROVE  TipInv'
    <3>1. ~missed
      BY <2>4, ChainOfStep
    <3>2. GrowingStep /\ AnchorInv /\ OrderInv /\ TipInv
      BY <2>2, <2>4, <3>1 DEF GrowingStep, GrownInv
    <3> QED BY <2>4, <3>2, NextTip
  <2> QED BY <2>2, <2>3, <2>4 DEF GrownInv
<1> QED BY <1>1, <1>2, Invariance, PTL DEF Spec

(***************************************************************************)
(* The bundle of the snapshot served was computed on one canonical block,  *)
(* and that is the one with_anchor recorded, although the header and the   *)
(* state are two reads: until a reorg no commit between them, nor a        *)
(* failing read, a loss or a lag, mixes two bases.                         *)
(***************************************************************************)
THEOREM ServedHasOneBase == Spec => []AnchorIsBase
<1>1. GrownInv => AnchorIsBase
  BY DEF GrownInv, AnchorInv, Anchored, AnchorIsBase
<1> QED BY <1>1, GrownInvariance, PTL

(***************************************************************************)
(* It is the parent of the earliest block served, and on the chain.        *)
(***************************************************************************)
THEOREM ServedOnCanonicalParent == Spec => []AnchorIsCanonicalParent
<1>1. GrownInv => AnchorIsCanonicalParent
  BY DEF GrownInv, AnchorInv, Anchored, AnchorIsCanonicalParent
<1> QED BY <1>1, GrownInvariance, PTL

\* The buffer of cache.rs is bounded: until a reorg it holds flashblocks of
\* MAX_CACHE_AHEAD_BLOCKS + 1 blocks above the last canonical block processed, at
\* most one per position, however the stream is lost, disordered or repeated and
\* however the canonical stream lags.
THEOREM CacheIsBounded == Spec => []CacheBounded
<1>1. GrownInv => CacheBounded
  BY DEF GrownInv, WindowInv, Windowed, CacheBounded
<1> QED BY <1>1, GrownInvariance, PTL

\* Every flashblock process_flashblock caches can be replayed from the first one
\* of its block: until a reorg no step, not even an eviction by insert, leaves a
\* cached flashblock without its predecessor.
THEOREM CacheIsReplayable == Spec => []CacheReplayable
<1>1. GrownInv => CacheReplayable
  BY DEF GrownInv, Replayable, CacheReplayable
<1> QED BY <1>1, GrownInvariance, PTL

\* A flashblock cached for want of its parent is not forgotten: once the parent
\* is canonical, a canonical block whose processing drains it is on its way,
\* through any loss and disorder of the stream and any failure of a flashblock's
\* own build, until the first reorg or the first canonical block that is missed.
THEOREM CachedIsDrained == Spec => []NoFlashblockStranded
<1>1. GrownInv => NoFlashblockStranded
  BY DEF GrownInv, TipInv, NoneWaitsAlone, NoFlashblockStranded
<1> QED BY <1>1, GrownInvariance, PTL

-----------------------------------------------------------------------------
(***************************************************************************)
(* No canonical block is missed for a reason of the code's own             *)
(***************************************************************************)

\* A canonical block cuts the snapshot at the tip, so the parent of what is left
\* exists.
LEMMA CutHasParent ==
    ASSUME TypeOK, NEW G \in SUBSET Flashblocks, G # {}, GapFree(G),
           EarliestBlock(G) - 1 <= Best,
           NEW F, F = {f \in G : f.block > Best}, F # {}
    PROVE  EarliestBlock(F) - 1 <= Best
<1>1. /\ Best \in Nat /\ F \in SUBSET Flashblocks
      /\ \A f \in G : f.block \in Nat
  BY FlashblocksAssumption DEF TypeOK, Best
<1>2. PICK e \in G : e.block = EarliestBlock(G)
  BY EarliestBlockIsLeast
<1>3. PICK f \in G : f.block > Best
  OBVIOUS
<1>4. EarliestBlock(F) \in Nat /\ \A g \in F : EarliestBlock(F) <= g.block
  BY <1>1, EarliestBlockIsLeast
<1>5. PICK h \in G : h.block = Best + 1
  <2>1. e.block \in Nat /\ f.block \in Nat /\ e.block - 1 <= Best
    BY <1>1, <1>2
  <2>2. Best + 1 \in e.block .. f.block
    BY <1>1, <1>3, <2>1
  <2> QED BY <2>2 DEF GapFree
<1>6. h \in F
  BY <1>1, <1>5
<1>7. EarliestBlock(F) <= Best + 1
  BY <1>4, <1>5, <1>6
<1> QED BY <1>1, <1>4, <1>7

\* A canonical block's build keeps its parent: the chain only grows, and a cut is at the tip.
LEMMA NextParent ==
    ASSUME "provider" \notin Faults, GrowingStep
    PROVE  IndInv /\ AnchorInv /\ OrderInv /\ ParentInv /\ [Next]_vars => ParentInv'
<1> SUFFICES ASSUME IndInv, AnchorInv, OrderInv, ParentInv, [Next]_vars,
                    pc' \in {"anchor", "execute"}, update'.kind = "canonical"
             PROVE  HasHeader(ParentNumber)'
  BY DEF ParentInv
<1> USE DEF publishedVars, nodeVars
<1>1. TypeOK /\ SequenceInv /\ TipReads = {Best}
  BY DEF IndInv, TipReads
<1>2. Best \in Nat /\ Best' \in Nat /\ Best' >= Best
  BY <1>1, AwaitedSources DEF TypeOK, Best
<1>3. ASSUME pc \in {"anchor", "execute"}, UNCHANGED <<update, target>>
      PROVE  HasHeader(ParentNumber)'
  <2>1. ParentNumber \in Nat /\ ParentNumber <= Best
    BY <1>1, <1>3, ParentIsNat DEF ParentInv, HasHeader
  <2>2. ParentNumber' = ParentNumber
    BY <1>3 DEF ParentNumber
  <2> QED BY <1>2, <2>1, <2>2 DEF HasHeader
<1>4. CASE NodeStep \/ FeedStep \/ CanonStep \/ Lagged \/ UNCHANGED vars
  BY <1>3, <1>4
  DEF NodeStep, Commit, FeedStep, OnFlashblockReceived, LoseFlashblock, CanonStep,
      StoreLastCanonical, JudgePending, DropJudgedAndSend, Lagged, vars, procVars, buildVars
<1>5. CASE Receive \/ ReplayNext \/ Announce \/ Swap
  BY <1>5 DEF Receive, ReplayNext, LoadPendingOrDropStale, Announce, Swap, Done
<1>6. CASE FlashblockStep
  <2>1. update.kind = "flashblock" /\ (update' = update \/ update' = NoUpdate)
    BY <1>6
    DEF FlashblockStep, SkipSuperseded, BuildFirst, CacheFollower, ExtendPending,
        RestartBlock, IgnoreDuplicate, ClearOutOfSequence, Applying, DecidingFlashblock,
        GiveUp, Done, StartBuild, Resolve
  <2> QED BY <2>1 DEF NoUpdate
<1>7. CASE BuildStep
  <2>1. ASSUME NEW c, GiveUp(c) PROVE FALSE
    BY <2>1 DEF GiveUp, Done
  <2> QED
    BY <1>3, <1>7, <2>1
    DEF BuildStep, ReadAnchor, ParentMissing, Execute, BuildFails, buildVars
<1>8. CASE CanonicalStep
  <2>1. ASSUME NEW s, Resolve(s) PROVE FALSE
    BY <2>1 DEF Resolve
  <2>2. /\ DecidingCanonical /\ IsSome(prev) /\ ReconcileAt(Best)
    BY <1>1, <1>8, <2>1 DEF CanonicalStep, NothingToReconcile, ReconcileCanonical
  <2>3. EffectiveCanonical(update.block.number, Best) = Best
    <3>1. update.block.number \in Nat /\ update.block.number <= Best
      BY <1>1, <2>2, NumbersAreNats DEF DecidingCanonical, OrderInv
    <3> QED BY <1>2, <3>1 DEF EffectiveCanonical, Unknown
  <2>4. PICK F, b : /\ StartBuild(F, b)
                    /\ F = prev.fbs \/ F = {f \in prev.fbs : f.block > Best}
    BY <2>1, <2>2, <2>3 DEF ReconcileAt
  <2>5. F # {} /\ target' = F /\ Best' = Best
    BY <2>4 DEF StartBuild, Best
  <2>6. /\ prev.fbs \in SUBSET Flashblocks /\ prev.fbs # {} /\ GapFree(prev.fbs)
        /\ EarliestBlock(prev.fbs) - 1 <= Best
    BY <1>1, <2>2 DEF TypeOK, Snapshot, IsSome, SequenceInv, Sequenced, AnchorInv, Anchored
  <2>7. EarliestBlock(F) - 1 <= Best
    BY <1>1, <2>4, <2>5, <2>6, CutHasParent
  <2> QED BY <2>5, <2>7 DEF HasHeader, ParentNumber
<1> QED BY <1>4, <1>5, <1>6, <1>7, <1>8 DEF Next, ProcStep

\* A canonical block the processor has taken is finished only by its swap, which
\* drains the cache.
LEMMA CanonicalFinishes ==
    ASSUME Faults \cap {"provider", "execution"} = {},
           IndInv, SingleInv, ParentInv, [Next]_vars,
           update.kind = "canonical", update'.kind # "canonical"
    PROVE  Swap
<1> USE DEF publishedVars, nodeVars
<1>1. TypeOK /\ SequenceInv /\ pc # "idle"
  BY DEF IndInv, TypeOK, NoUpdate
<1>2. CASE NodeStep \/ FeedStep \/ CanonStep \/ Lagged \/ UNCHANGED vars
  BY <1>2
  DEF NodeStep, Commit, FeedStep, OnFlashblockReceived, LoseFlashblock, CanonStep,
      StoreLastCanonical, JudgePending, DropJudgedAndSend, Lagged, vars, procVars
<1>3. CASE Receive \/ ReplayNext
  BY <1>1, <1>3 DEF Receive, ReplayNext
<1>4. CASE FlashblockStep
  BY <1>4
  DEF FlashblockStep, SkipSuperseded, BuildFirst, CacheFollower, ExtendPending, RestartBlock,
      IgnoreDuplicate, ClearOutOfSequence, Applying, DecidingFlashblock
<1>5. CASE CanonicalStep
  BY <1>5
  DEF CanonicalStep, NothingToReconcile, ReconcileCanonical, ReconcileAt, StartBuild, Resolve
<1>6. CASE ReadAnchor \/ Execute \/ Announce
  BY <1>6 DEF ReadAnchor, Execute, Announce
<1>7. CASE ParentMissing \/ BuildFails
  <2>1. pc \in {"anchor", "execute"} /\ HasHeader(ParentNumber)
    BY <1>7 DEF ParentMissing, BuildFails, ParentInv
  <2>2. target \subseteq prev.fbs
    BY <1>1, <2>1 DEF SequenceInv, BuildOf, UpperPart
  <2>3. ~HasDuplicateTransaction(target)
    <3>1. ~HasDuplicateTransaction(prev.fbs)
      BY DEF SingleInv, Single
    <3> QED BY <2>2, <3>1 DEF HasDuplicateTransaction
  <2> QED BY <1>7, <2>1, <2>3 DEF ParentMissing, BuildFails
<1> QED
  BY <1>2, <1>3, <1>4, <1>5, <1>6, <1>7 DEF Next, ProcStep, BuildStep

\* What is missed was skipped, or failed.
LEMMA MissedHow ==
    ASSUME [Next]_vars, "lag" \notin Faults, ~missed, missed'
    PROVE  update.kind = "canonical" /\ update'.kind # "canonical"
<1> USE DEF publishedVars, nodeVars
<1>1. ~(NodeStep \/ FeedStep \/ CanonStep \/ Lagged \/ UNCHANGED vars)
  BY DEF NodeStep, Commit, FeedStep, OnFlashblockReceived, LoseFlashblock, CanonStep,
         StoreLastCanonical, JudgePending, DropJudgedAndSend, Lagged, vars
<1>2. ~(Receive \/ ReplayNext \/ Announce \/ Swap)
  BY DEF Receive, ReplayNext, LoadPendingOrDropStale, Announce, Swap
<1>3. ~CanonicalStep
  BY DEF CanonicalStep, NothingToReconcile, ReconcileCanonical, ReconcileAt, StartBuild, Resolve
<1>4. ASSUME NEW c, GiveUp(c)
      PROVE  update.kind = "canonical" /\ update'.kind # "canonical"
  BY <1>4 DEF GiveUp, Done, NoUpdate
<1>5. CASE FlashblockStep
  BY <1>4, <1>5
  DEF FlashblockStep, SkipSuperseded, BuildFirst, CacheFollower, ExtendPending, RestartBlock,
      IgnoreDuplicate, ClearOutOfSequence, StartBuild, Resolve
<1>6. CASE BuildStep
  BY <1>4, <1>6 DEF BuildStep, ReadAnchor, ParentMissing, Execute, BuildFails
<1> QED BY <1>1, <1>2, <1>3, <1>5, <1>6 DEF Next, ProcStep

\* With no fault to fail it process_canonical_block never fails: on a chain that
\* only grows a rebuild has the parent of what it keeps and no transaction twice.
\* So every canonical block is processed to its end and drains the cache.
THEOREM NoneIsMissed ==
    ASSUME Faults \cap {"reorg", "lag", "provider", "execution"} = {}
    PROVE  Spec => []~missed
<1> DEFINE NoneInv == ChainOnlyGrew /\ SingleInv /\ ParentInv /\ ~missed
<1>1. Init => NoneInv
  <2> SUFFICES ASSUME Init PROVE NoneInv
    OBVIOUS
  <2>1. ChainOnlyGrew
    <3>1. Best = StartHeight /\ minted = StartHeight
      BY HeightAssumption DEF Init, Best, FirstBlocks
    <3> QED BY <3>1 DEF ChainOnlyGrew
  <2>2. SingleInv /\ ParentInv /\ ~missed
    BY NoneSingle DEF Init, SingleInv, ParentInv
  <2> QED BY <2>1, <2>2
<1>2. IndInv /\ GrownInv /\ NoneInv /\ [Next]_vars => NoneInv'
  <2> SUFFICES ASSUME IndInv, GrownInv, NoneInv, [Next]_vars PROVE NoneInv'
    OBVIOUS
  <2>1. TypeOK /\ AnchorInv /\ OrderInv
    BY DEF IndInv, GrownInv
  <2>2. ChainOnlyGrew'
    <3>1. CASE NodeStep
      <4>1. PICK keep \in 0..Best, k \in 1..MaxCommit :
               \E bodies \in BodyLists(keep, k) : Commit(keep, bodies)
        BY <3>1 DEF NodeStep
      <4>2. Best' = keep + k /\ minted' = minted + k /\ keep = Best
        BY <2>1, <4>1, CommitCounts DEF Commit
      <4> QED BY <4>2 DEF ChainOnlyGrew
    <3>2. CASE ~NodeStep
      BY <3>2, ChainOfStep DEF ChainOnlyGrew, Best
    <3> QED BY <3>1, <3>2
  <2>3. SingleInv' /\ ParentInv'
    BY <2>1, <2>2, NextSingle, NextParent DEF GrowingStep
  <2>4. ~missed'
    <3>1. ASSUME missed' PROVE update.kind = "canonical" /\ update'.kind # "canonical"
      BY <3>1, MissedHow
    <3>2. ASSUME missed' PROVE Swap
      BY <3>1, <3>2, CanonicalFinishes
    <3>3. Swap => missed' = missed
      BY DEF Swap
    <3> QED BY <3>2, <3>3
  <2> QED BY <2>2, <2>3, <2>4
<1>3. NoneInv => ~missed
  OBVIOUS
<1> HIDE DEF NoneInv
<1> QED BY <1>1, <1>2, <1>3, Invariance, GrownInvariance, PTL DEF Spec
=============================================================================
