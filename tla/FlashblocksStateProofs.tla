----------------------- MODULE FlashblocksStateProofs -----------------------
(***************************************************************************)
(* Proofs about FlashblocksState, for every set of flashblocks, every      *)
(* bound, every depth limit and every combination of faults.               *)
(***************************************************************************)
EXTENDS FlashblocksState, DataProofs

(***************************************************************************)
(* Facts about the operators                                               *)
(***************************************************************************)

\* A non-empty set of natural numbers has a least element, and Min is it.
LEMMA MinOfNats ==
    ASSUME NEW S \in SUBSET Nat, S # {}
    PROVE  Min(S) \in S /\ \A y \in S : Min(S) <= y
<1>1. \E x \in S : \A y \in S : x <= y
  BY LeastNat
<1> QED BY <1>1, Zenon DEF Min

\* earliest_block_number of a non-empty build is the block of one of its
\* flashblocks, and below every other.
LEMMA EarliestBlockIsLeast ==
    ASSUME NEW F \in SUBSET Flashblocks, F # {}
    PROVE  /\ EarliestBlock(F) \in Nat \ {0}
           /\ \E f \in F : f.block = EarliestBlock(F)
           /\ \A f \in F : EarliestBlock(F) <= f.block
<1> DEFINE S == {f.block : f \in F}
<1>1. S \in SUBSET Nat /\ S # {}
  BY FlashblocksAssumption
<1>2. Min(S) \in S /\ \A y \in S : Min(S) <= y
  <2> HIDE DEF S
  <2> QED BY <1>1, MinOfNats
<1> QED BY <1>2, FlashblocksAssumption DEF EarliestBlock

\* A header that exists has an identity.
LEMMA HeaderIdType ==
    ASSUME TypeOK, NEW F \in SUBSET Flashblocks, F # {},
           HasHeader(EarliestBlock(F) - 1)
    PROVE  HeaderId(EarliestBlock(F) - 1) \in BlockIds
<1> DEFINE n == EarliestBlock(F) - 1
<1>1. n \in Nat
  BY EarliestBlockIsLeast
<1>2. chain \in Seq(Block) /\ n <= Len(chain)
  BY DEF TypeOK, HasHeader, Best
<1> HIDE DEF n
<1>3. n # 0 => chain[n] \in Block
  BY <1>1, <1>2
<1>4. HeaderId(n) \in BlockIds
  BY <1>3 DEF HeaderId, Block, BlockIds
<1> QED BY <1>4 DEF n

\* Caching keeps the type of the cache.
LEMMA InsertType ==
    ASSUME NEW c \in [entries : SUBSET Flashblocks, latest : Nat],
           NEW fb \in Flashblocks
    PROVE  Insert(c, fb) \in [entries : SUBSET Flashblocks, latest : Nat]
BY DEF Insert

-----------------------------------------------------------------------------
(***************************************************************************)
(* Type correctness                                                        *)
(***************************************************************************)
LEMMA InitType == Init => TypeOK
<1> SUFFICES ASSUME Init PROVE TypeOK
  OBVIOUS
<1>1. chain \in Seq(Block)
  <2>1. <<>> \in TxLists
    BY DEF TxLists
  <2>2. \A n \in 1..StartHeight :
            [number |-> n, id |-> n, txs |-> <<>>] \in Block
    BY <2>1, HeightAssumption DEF Block, BlockIds
  <2>3. chain = [n \in 1..StartHeight |-> [number |-> n, id |-> n, txs |-> <<>>]]
    BY DEF Init, FirstBlocks
  <2>4. chain \in [1..StartHeight -> Block]
    BY <2>2, <2>3
  <2> QED BY <2>4, HeightAssumption
<1>2. cache \in [entries : SUBSET Flashblocks, latest : Nat]
  BY HeightAssumption DEF Init, NewCache
<1>3. NoSnapshot \in Snapshot
  BY DEF NoSnapshot, Snapshot, BlockIds
<1>4. /\ notes \in Seq(Seq(Block) \ {<<>>})
      /\ queue \in Seq(Update)
      /\ committed \in Seq(Block)
      /\ announced \in Seq(Flashblocks)
  BY DEF Init
<1>5. /\ minted \in Nat
      /\ sent \in Nat
      /\ lastCanonical \in Nat
      /\ inclusionFee \in Nat
      /\ anchor \in BlockIds
  BY HeightAssumption DEF Init, BlockIds
<1>6. pending \in Snapshot /\ prev \in Snapshot /\ result \in Snapshot
  BY <1>3 DEF Init
<1> QED
  BY <1>1, <1>2, <1>4, <1>5, <1>6 DEF Init, TypeOK

\* A commit keeps the types.
LEMMA NodeType == TypeOK /\ NodeStep => TypeOK'
<1> SUFFICES ASSUME TypeOK,
                    NEW keep \in 0..Best, NEW k \in 1..MaxCommit,
                    NEW bodies \in BodyLists(keep, k),
                    Commit(keep, bodies)
             PROVE  TypeOK'
  BY DEF NodeStep
<1> DEFINE new == NewBlocks(keep, minted, bodies)
<1>1. bodies \in [1..k -> TxLists] /\ k \in Nat \ {0}
  BY ChainBoundsAssumption DEF BodyLists
<1>2. keep \in Nat /\ minted \in Nat /\ chain \in Seq(Block) /\ keep <= Len(chain)
  BY DEF TypeOK, Best
<1>3. new \in Seq(Block) \ {<<>>}
  <2>1. new \in [1..k -> Block]
    BY <1>1, <1>2 DEF Block, BlockIds, NewBlocks
  <2> QED BY <2>1, <1>1
<1>4. SubSeq(chain, 1, keep) \in Seq(Block)
  BY <1>2
<1> HIDE DEF new
<1>5. chain' \in Seq(Block)
  BY <1>3, <1>4 DEF Commit, new
<1>6. notes' \in Seq(Seq(Block) \ {<<>>})
  BY <1>3 DEF Commit, TypeOK, new
<1>7. Len(bodies) \in Nat
  BY <1>1
<1>8. minted' \in Nat
  BY <1>2, <1>7 DEF Commit
<1> QED
  BY <1>5, <1>6, <1>8
  DEF Commit, TypeOK, feedVars, canonVars, procVars, buildVars

\* So do the builder and the feed,
LEMMA FeedType == TypeOK /\ FeedStep => TypeOK'
<1> SUFFICES ASSUME TypeOK, NEW fb \in Flashblocks,
                    OnFlashblockReceived(fb) \/ LoseFlashblock(fb)
             PROVE  TypeOK'
  BY DEF FeedStep
<1> USE DEF TypeOK, Stream, nodeVars, canonVars, procVars, buildVars
<1>1. CASE OnFlashblockReceived(fb)
  <2>1. [kind |-> "flashblock", fb |-> fb] \in Update
    BY DEF Update
  <2>2. queue' \in Seq(Update) /\ inclusionFee' \in Nat
    <3>1. CASE fb.block <= lastCanonical
      BY <1>1, <3>1 DEF OnFlashblockReceived
    <3>2. CASE ~(fb.block <= lastCanonical)
      <4>1. queue' = Append(queue, [kind |-> "flashblock", fb |-> fb])
        BY <1>1, <3>2 DEF OnFlashblockReceived
      <4>2. inclusionFee' = IF fb.fee THEN fb.block ELSE 0
        BY <1>1, <3>2 DEF OnFlashblockReceived
      <4>3. fb.block \in Nat
        BY FlashblocksAssumption
      <4>4. inclusionFee' \in Nat
        BY <4>2, <4>3, Zenon DEF TypeOK
      <4>5. queue' \in Seq(Update)
        BY <4>1, <2>1
      <4> QED BY <4>4, <4>5
    <3> QED BY <3>1, <3>2
  <2> QED BY <1>1, <2>2 DEF OnFlashblockReceived
<1>2. CASE LoseFlashblock(fb)
  BY <1>2 DEF LoseFlashblock
<1> QED BY <1>1, <1>2

\* and the canonical task.
LEMMA CanonType == TypeOK /\ (CanonStep \/ Lagged) => TypeOK'
<1> SUFFICES ASSUME TypeOK, CanonStep \/ Lagged PROVE TypeOK'
  OBVIOUS
<1> USE DEF TypeOK, nodeVars, feedVars, canonVars, procVars, buildVars
<1>1. CASE StoreLastCanonical
  <2>1. notes # <<>> => /\ Head(notes) \in Seq(Block) \ {<<>>}
                        /\ Tail(notes) \in Seq(Seq(Block) \ {<<>>})
    OBVIOUS
  <2>2. /\ committed' \in Seq(Block) /\ committed' # <<>>
        /\ notes' \in Seq(Seq(Block) \ {<<>>})
    BY <1>1, <2>1 DEF StoreLastCanonical
  <2>3. Head(committed') \in Block
    BY <2>2
  <2>4. lastCanonical' \in Nat
    BY <1>1, <2>3 DEF StoreLastCanonical, Block
  <2> QED BY <1>1, <2>2, <2>4 DEF StoreLastCanonical
<1>2. CASE JudgePending
  BY <1>2 DEF JudgePending
<1>3. CASE DropJudgedAndSend
  <2>1. Head(committed) \in Block /\ Tail(committed) \in Seq(Block)
    BY <1>3 DEF DropJudgedAndSend
  <2>2. [kind |-> "canonical", block |-> Head(committed)] \in Update
    BY <2>1 DEF Update
  <2>3. queue' \in Seq(Update)
    BY <1>3, <2>2 DEF DropJudgedAndSend
  <2>4. pending' \in Snapshot
    BY <1>3 DEF DropJudgedAndSend, NoSnapshot, Snapshot, BlockIds
  <2> QED BY <1>3, <2>1, <2>3, <2>4 DEF DropJudgedAndSend
<1>4. CASE Lagged
  BY <1>4 DEF Lagged
<1> QED BY <1>1, <1>2, <1>3, <1>4 DEF CanonStep

(***************************************************************************)
(* The processor: the steps its handlers are made of, then the handlers.   *)
(***************************************************************************)

\* A flashblock update carries a flashblock, a canonical one a block.
LEMMA UpdatePayload ==
    ASSUME TypeOK
    PROVE  /\ update.kind = "flashblock" => update.fb \in Flashblocks
           /\ update.kind = "canonical" => update.block \in Block
BY DEF TypeOK, Update, NoUpdate

\* The absent snapshot is a snapshot.
LEMMA NoSnapshotType == NoSnapshot \in Snapshot /\ ~IsSome(NoSnapshot)
BY DEF NoSnapshot, Snapshot, BlockIds, IsSome

\* load_pending_or_drop_stale, whatever the rest of the step took.
LEMMA LoadType ==
    ASSUME TypeOK, LoadPendingOrDropStale,
           update' \in Update, queue' \in Seq(Update),
           replay' \in SUBSET Flashblocks
    PROVE  TypeOK'
<1>1. prev' \in Snapshot /\ pending' \in Snapshot /\ judged' \in BOOLEAN
  BY NoSnapshotType DEF LoadPendingOrDropStale, TypeOK
<1>2. update' # NoUpdate
  BY DEF Update, NoUpdate
<1> QED
  BY <1>1, <1>2
  DEF LoadPendingOrDropStale, TypeOK, nodeVars, feedVars, canonVars, buildVars

\* A build begins,
LEMMA StartBuildType ==
    ASSUME TypeOK, pc = "decide", NEW F \in SUBSET Flashblocks,
           NEW b \in BOOLEAN, StartBuild(F, b)
    PROVE  TypeOK'
<1>1. reuse' \in BOOLEAN /\ target' \in SUBSET Flashblocks
  BY DEF StartBuild
<1>2. /\ pc' \in {"anchor", "publish"}
      /\ pc' \in {"anchor", "execute"} => target' # {}
  BY DEF StartBuild
<1> QED
  BY <1>1, <1>2
  DEF StartBuild, TypeOK, publishedVars, nodeVars, feedVars, canonVars

\* an update needs none,
LEMMA ResolveType ==
    ASSUME TypeOK, pc = "decide", NEW s \in Snapshot, Resolve(s)
    PROVE  TypeOK'
BY DEF Resolve, TypeOK, publishedVars, nodeVars, feedVars, canonVars, buildVars

\* or processing stops with an error.
LEMMA GiveUpType ==
    ASSUME TypeOK, NEW c \in [entries : SUBSET Flashblocks, latest : Nat],
           GiveUp(c)
    PROVE  TypeOK'
BY NoSnapshotType
DEF GiveUp, Done, TypeOK, publishedVars, nodeVars, feedVars, canonVars, BlockIds

\* The processor takes an update or replays a flashblock.
LEMMA ReceiveType == TypeOK /\ (Receive \/ ReplayNext) => TypeOK'
<1> SUFFICES ASSUME TypeOK, Receive \/ ReplayNext PROVE TypeOK'
  OBVIOUS
<1>1. CASE Receive
  <2>1. queue # <<>> /\ queue \in Seq(Update)
    BY <1>1 DEF Receive, TypeOK
  <2>2. Head(queue) \in Update /\ Tail(queue) \in Seq(Update)
    BY <2>1
  <2>3. /\ update' \in Update /\ queue' \in Seq(Update)
        /\ replay' \in SUBSET Flashblocks
    BY <1>1, <2>2 DEF Receive, TypeOK
  <2> QED BY <1>1, <2>3, LoadType DEF Receive
<1>2. CASE ReplayNext
  <2>1. /\ update' \in Update /\ queue' \in Seq(Update)
        /\ replay' \in SUBSET Flashblocks
    BY <1>2 DEF ReplayNext, TypeOK, Update
  <2> QED BY <1>2, <2>1, LoadType DEF ReplayNext
<1> QED BY <1>1, <1>2

\* It decides on a flashblock,
LEMMA FlashblockType == TypeOK /\ FlashblockStep => TypeOK'
<1> SUFFICES ASSUME TypeOK, FlashblockStep PROVE TypeOK'
  OBVIOUS
<1> USE DEF Applying, DecidingFlashblock
<1>1. pc = "decide" /\ update.fb \in Flashblocks
  BY UpdatePayload
  DEF FlashblockStep, SkipSuperseded, BuildFirst, CacheFollower, ExtendPending,
      RestartBlock, IgnoreDuplicate, ClearOutOfSequence
<1>2. /\ cache \in [entries : SUBSET Flashblocks, latest : Nat]
      /\ prev \in Snapshot /\ prev.fbs \in SUBSET Flashblocks
  BY DEF TypeOK, Snapshot
<1>3. CASE SkipSuperseded
  BY <1>2, <1>3, GiveUpType DEF SkipSuperseded
<1>4. CASE BuildFirst
  BY <1>1, <1>4, StartBuildType DEF BuildFirst
<1>5. CASE CacheFollower
  <2>1. Insert(cache, update.fb) \in [entries : SUBSET Flashblocks, latest : Nat]
    BY <1>1, <1>2, InsertType
  <2> QED BY <1>2, <1>5, <2>1, GiveUpType DEF CacheFollower
<1>6. CASE ExtendPending
  BY <1>1, <1>2, <1>6, StartBuildType DEF ExtendPending
<1>7. CASE RestartBlock
  BY <1>1, <1>7, StartBuildType DEF RestartBlock
<1>8. CASE IgnoreDuplicate
  BY <1>1, <1>2, <1>8, ResolveType DEF IgnoreDuplicate
<1>9. CASE ClearOutOfSequence
  BY <1>1, <1>9, ResolveType, NoSnapshotType DEF ClearOutOfSequence
<1> QED
  BY <1>3, <1>4, <1>5, <1>6, <1>7, <1>8, <1>9 DEF FlashblockStep

\* on a canonical block,
LEMMA CanonicalType == TypeOK /\ CanonicalStep => TypeOK'
<1> SUFFICES ASSUME TypeOK, CanonicalStep PROVE TypeOK'
  OBVIOUS
<1>1. pc = "decide"
  BY DEF CanonicalStep, NothingToReconcile, ReconcileCanonical, DecidingCanonical
<1>2. prev.fbs \in SUBSET Flashblocks
  BY DEF TypeOK, Snapshot
<1>3. CASE NothingToReconcile
  BY <1>1, <1>3, ResolveType, NoSnapshotType DEF NothingToReconcile
<1>4. ASSUME NEW tip, ReconcileAt(tip) PROVE TypeOK'
  <2> DEFINE canonical == EffectiveCanonical(update.block.number, tip)
             kept == {f \in prev.fbs : f.block > canonical}
  <2>1. \/ Resolve(NoSnapshot)
        \/ StartBuild(kept, FALSE)
        \/ StartBuild(prev.fbs, TRUE)
    BY <1>4 DEF ReconcileAt
  <2>2. kept \in SUBSET Flashblocks
    BY <1>2
  <2> HIDE DEF kept
  <2> QED BY <1>1, <1>2, <2>1, <2>2, ResolveType, StartBuildType, NoSnapshotType
<1> QED BY <1>3, <1>4 DEF CanonicalStep, ReconcileCanonical

\* and builds.
LEMMA BuildType == TypeOK /\ BuildStep => TypeOK'
<1> SUFFICES ASSUME TypeOK, BuildStep PROVE TypeOK'
  OBVIOUS
<1>1. pc \in {"anchor", "execute"} /\ target # {} /\ target \in SUBSET Flashblocks
  BY DEF BuildStep, ReadAnchor, ParentMissing, Execute, BuildFails, TypeOK
<1>2. HasHeader(ParentNumber) => HeaderId(ParentNumber) \in BlockIds
  BY <1>1, HeaderIdType DEF ParentNumber
<1>3. cache \in [entries : SUBSET Flashblocks, latest : Nat]
  BY DEF TypeOK
<1>4. CASE ReadAnchor
  <2>1. anchor' \in BlockIds
    BY <1>2, <1>4 DEF ReadAnchor
  <2> QED
    BY <1>1, <1>4, <2>1
    DEF ReadAnchor, TypeOK, publishedVars, nodeVars, feedVars, canonVars
<1>5. CASE ParentMissing
  <2>1. update.kind = "flashblock" =>
          Insert(cache, update.fb) \in [entries : SUBSET Flashblocks, latest : Nat]
    BY <1>3, InsertType, UpdatePayload
  <2> QED BY <1>3, <1>5, <2>1, GiveUpType DEF ParentMissing
<1>6. CASE Execute
  <2>1. result' \in Snapshot
    BY <1>1, <1>2, <1>6 DEF Execute, TypeOK, Snapshot
  <2> QED
    BY <1>1, <1>6, <2>1
    DEF Execute, TypeOK, publishedVars, nodeVars, feedVars, canonVars, buildVars
<1>7. CASE BuildFails
  BY <1>3, <1>7, GiveUpType DEF BuildFails
<1> QED BY <1>4, <1>5, <1>6, <1>7 DEF BuildStep

-----------------------------------------------------------------------------
(***************************************************************************)
(* The inductive invariant.                                                *)
(*                                                                         *)
(* TypeOK is not inductive by itself: `announced' receives the latest      *)
(* flashblock of a snapshot, which an infinite set need not have.          *)
(* PendingGapFree and AnnouncedIsServed speak of the published snapshot    *)
(* only, and what is published comes from the snapshot loaded at the start *)
(* of the update (prev) through a build (target, result).  The invariant   *)
(* therefore says how a build relates to prev, and that the canonical task *)
(* can only remove the snapshot in the meantime.                           *)
(***************************************************************************)

\* g is at or before f in the order of a snapshot's list.
AtOrBefore(g, f) == g.block < f.block \/ (g.block = f.block /\ g.index <= f.index)

\* Gap-free, with a last flashblock unless it is empty.
Sequenced(F) ==
    /\ GapFree(F)
    /\ F # {} => \E f \in F : \A g \in F : AtOrBefore(g, f)

\* F is what remains of G when the blocks up to some height are cut off.
UpperPart(F, G) ==
    /\ F \subseteq G
    /\ \A f \in F, g \in G : g.block >= f.block => g \in F

\* F is what the update in hand builds from the snapshot loaded for it.
BuildOf(F) ==
    \/ /\ update.kind = "flashblock"
       /\ update.fb.index = 0
       /\ F = {update.fb}
    \/ /\ update.kind = "flashblock"
       /\ IsSome(prev)
       /\ Validate(LatestFlashblock(prev.fbs), update.fb)
              \in {"NextInSequence", "FirstOfNextBlock"}
       /\ F = prev.fbs \cup {update.fb}
    \/ /\ update.kind = "canonical"
       /\ UpperPart(F, prev.fbs)

SequenceInv ==
    /\ Sequenced(pending.fbs)
    /\ Sequenced(prev.fbs)
    /\ pc \in {"idle", "decide", "anchor", "execute"} => ~IsSome(result)
    /\ pc \in {"anchor", "execute"} => BuildOf(target)
    /\ pc = "publish" =>
          ~IsSome(result) \/ result = prev \/ BuildOf(result.fbs)
    /\ pc = "swap" => Sequenced(result.fbs)

AnnouncedInv ==
    /\ pc # "swap" /\ IsSome(pending) => StreamedOnce(announced, pending.fbs)
    /\ pc # "swap" /\ IsSome(prev) => StreamedOnce(announced, prev.fbs)
    /\ pc = "swap" /\ IsSome(result) => StreamedOnce(announced, result.fbs)

IndInv == TypeOK /\ SequenceInv /\ AnnouncedInv

-----------------------------------------------------------------------------
(***************************************************************************)
(* Lemmas on sequenced sets of flashblocks                                 *)
(***************************************************************************)

\* LatestFlashblock is the last flashblock, and the only one.
LEMMA LatestIsLast ==
    ASSUME NEW F \in SUBSET Flashblocks, F # {}, Sequenced(F)
    PROVE  /\ LatestFlashblock(F) \in F
           /\ \A g \in F : AtOrBefore(g, LatestFlashblock(F))
           /\ \A f \in F : (\A g \in F : AtOrBefore(g, f)) => f = LatestFlashblock(F)
<1>1. PICK f \in F : \A g \in F : AtOrBefore(g, f)
  BY DEF Sequenced
<1>2. /\ LatestFlashblock(F) \in F
      /\ \A g \in F : AtOrBefore(g, LatestFlashblock(F))
  BY <1>1, Zenon DEF LatestFlashblock, AtOrBefore
<1>3. ASSUME NEW h \in F, \A g \in F : AtOrBefore(g, h)
      PROVE  h = LatestFlashblock(F)
  <2> DEFINE l == LatestFlashblock(F)
  <2> HIDE DEF l
  <2>1. l \in F /\ AtOrBefore(l, h) /\ AtOrBefore(h, l)
    BY <1>2, <1>3 DEF l
  <2>2. h.block = l.block /\ h.index = l.index
    BY <2>1, FlashblocksAssumption DEF AtOrBefore
  <2>3. h = l
    BY <2>1, <2>2 DEF Sequenced, GapFree
  <2> QED BY <2>3 DEF l
<1> QED BY <1>2, <1>3

\* A first flashblock alone.
LEMMA SingletonSequenced ==
    ASSUME NEW f \in Flashblocks, f.index = 0
    PROVE  Sequenced({f})
<1>1. f.block \in Nat /\ f.index \in Nat
  BY FlashblocksAssumption
<1> QED BY <1>1 DEF Sequenced, GapFree, AtOrBefore

\* Appending what the validator accepts as the next flashblock.
LEMMA ExtensionSequenced ==
    ASSUME NEW F \in SUBSET Flashblocks, F # {}, Sequenced(F),
           NEW f \in Flashblocks,
           Validate(LatestFlashblock(F), f) \in {"NextInSequence", "FirstOfNextBlock"}
    PROVE  /\ Sequenced(F \cup {f})
           /\ LatestFlashblock(F \cup {f}) = f
<1> DEFINE l == LatestFlashblock(F)
<1>1. l \in F /\ \A g \in F : AtOrBefore(g, l)
  BY LatestIsLast
<1>2. \/ f.block = l.block /\ f.index = l.index + 1
      \/ f.block = l.block + 1 /\ f.index = 0
  BY DEF Validate
<1> HIDE DEF l
<1>3. \A g \in F \cup {f} : g.block \in Nat /\ g.index \in Nat
  BY FlashblocksAssumption
<1>4. \A g \in F : AtOrBefore(g, f) /\ ~(g.block = f.block /\ g.index = f.index)
  BY <1>1, <1>2, <1>3 DEF AtOrBefore
<1>5. AtOrBefore(f, f)
  BY <1>3 DEF AtOrBefore
<1>6. \A g, h \in F \cup {f} : g.block = h.block /\ g.index = h.index => g = h
  BY <1>4 DEF Sequenced, GapFree
<1>7. \A g \in F \cup {f} : g.index > 0 =>
         \E h \in F \cup {f} : h.block = g.block /\ h.index = g.index - 1
  <2> SUFFICES ASSUME NEW g \in F \cup {f}, g.index > 0
               PROVE  \E h \in F \cup {f} : h.block = g.block /\ h.index = g.index - 1
    OBVIOUS
  <2>1. CASE g \in F
    BY <2>1 DEF Sequenced, GapFree
  <2>2. CASE g = f
    BY <1>1, <1>2, <1>3, <2>2
  <2> QED BY <2>1, <2>2
<1>8. \A g, h \in F \cup {f} : \A n \in g.block..h.block :
         \E k \in F \cup {f} : k.block = n /\ k.index = 0
  <2> SUFFICES ASSUME NEW g \in F \cup {f}, NEW h \in F \cup {f},
                      NEW n \in g.block..h.block
               PROVE  \E k \in F \cup {f} : k.block = n /\ k.index = 0
    OBVIOUS
  <2>1. n \in Nat /\ g.block <= n /\ n <= h.block
    BY <1>3
  <2>2. h.block <= f.block
    BY <1>3, <1>4 DEF AtOrBefore
  <2>3. CASE n <= l.block
    <3>1. \E a \in F : a.block <= n
      BY <1>1, <1>2, <1>3, <2>1, <2>3
    <3>2. PICK a \in F : a.block <= n
      BY <3>1
    <3>3. n \in a.block..l.block
      BY <1>1, <1>3, <2>1, <2>3, <3>2
    <3> QED BY <1>1, <3>3 DEF Sequenced, GapFree
  <2>4. CASE ~(n <= l.block)
    BY <1>1, <1>2, <1>3, <2>1, <2>2, <2>4
  <2> QED BY <2>3, <2>4
<1>9. Sequenced(F \cup {f})
  BY <1>4, <1>5, <1>6, <1>7, <1>8 DEF Sequenced, GapFree
<1>10. \A g \in F \cup {f} : AtOrBefore(g, f)
  BY <1>4, <1>5
<1>11. F \cup {f} \in SUBSET Flashblocks /\ F \cup {f} # {}
  OBVIOUS
<1>12. f = LatestFlashblock(F \cup {f})
  BY <1>9, <1>10, <1>11, LatestIsLast
<1> QED BY <1>9, <1>12

\* Cutting at a block boundary keeps the latest flashblock and its block.
LEMMA UpperPartSequenced ==
    ASSUME NEW G \in SUBSET Flashblocks, Sequenced(G),
           NEW F \in SUBSET Flashblocks, UpperPart(F, G)
    PROVE  /\ Sequenced(F)
           /\ F # {} => /\ LatestFlashblock(F) = LatestFlashblock(G)
                        /\ OfBlock(F, LatestBlock(F)) = OfBlock(G, LatestBlock(G))
<1>1. CASE F = {}
  BY <1>1 DEF Sequenced, GapFree
<1>2. CASE F # {}
  <2> DEFINE l == LatestFlashblock(G)
  <2>1. G # {}
    BY <1>2 DEF UpperPart
  <2>2. l \in G /\ \A g \in G : AtOrBefore(g, l)
    BY <2>1, LatestIsLast
  <2> HIDE DEF l
  <2>3. \A g \in G : g.block \in Nat /\ g.index \in Nat
    BY FlashblocksAssumption
  <2>4. l \in F /\ \A g \in F : AtOrBefore(g, l)
    BY <1>2, <2>2, <2>3 DEF UpperPart, AtOrBefore
  <2>5. \A f, g \in F : f.block = g.block /\ f.index = g.index => f = g
    BY DEF UpperPart, Sequenced, GapFree
  <2>6. \A f \in F : f.index > 0 =>
           \E g \in F : g.block = f.block /\ g.index = f.index - 1
    <3> SUFFICES ASSUME NEW f \in F, f.index > 0
                 PROVE  \E g \in F : g.block = f.block /\ g.index = f.index - 1
      OBVIOUS
    <3>1. f \in G
      BY DEF UpperPart
    <3>2. PICK g \in G : g.block = f.block /\ g.index = f.index - 1
      BY <3>1 DEF Sequenced, GapFree
    <3>3. g \in F
      BY <2>3, <3>1, <3>2 DEF UpperPart
    <3> QED BY <3>2, <3>3
  <2>7. \A f, g \in F : \A n \in f.block..g.block :
           \E h \in F : h.block = n /\ h.index = 0
    <3> SUFFICES ASSUME NEW f \in F, NEW g \in F, NEW n \in f.block..g.block
                 PROVE  \E h \in F : h.block = n /\ h.index = 0
      OBVIOUS
    <3>1. f \in G /\ g \in G
      BY DEF UpperPart
    <3>2. PICK h \in G : h.block = n /\ h.index = 0
      BY <3>1 DEF Sequenced, GapFree
    <3>3. h.block >= f.block
      BY <2>3, <3>1, <3>2
    <3>4. h \in F
      BY <3>2, <3>3 DEF UpperPart
    <3> QED BY <3>2, <3>4
  <2>8. Sequenced(F)
    BY <2>4, <2>5, <2>6, <2>7 DEF Sequenced, GapFree
  <2>9. l = LatestFlashblock(F)
    BY <1>2, <2>4, <2>8, LatestIsLast
  <2>10. OfBlock(F, l.block) = OfBlock(G, l.block)
    BY <2>3, <2>4 DEF OfBlock, UpperPart
  <2> QED BY <2>8, <2>9, <2>10 DEF l, LatestBlock
<1> QED BY <1>1, <1>2

\* What an update builds is sequenced when the snapshot it started from is.
LEMMA BuildSequenced ==
    ASSUME TypeOK, Sequenced(prev.fbs),
           NEW F \in SUBSET Flashblocks, BuildOf(F)
    PROVE  Sequenced(F)
<1>1. prev.fbs \in SUBSET Flashblocks
  BY DEF TypeOK, Snapshot
<1>2. CASE update.kind = "flashblock" /\ update.fb.index = 0 /\ F = {update.fb}
  BY <1>2, UpdatePayload, SingletonSequenced
<1>3. CASE /\ update.kind = "flashblock"
           /\ IsSome(prev)
           /\ Validate(LatestFlashblock(prev.fbs), update.fb)
                  \in {"NextInSequence", "FirstOfNextBlock"}
           /\ F = prev.fbs \cup {update.fb}
  BY <1>1, <1>3, UpdatePayload, ExtensionSequenced DEF IsSome
<1>4. CASE update.kind = "canonical" /\ UpperPart(F, prev.fbs)
  BY <1>1, <1>4, UpperPartSequenced
<1> QED BY <1>2, <1>3, <1>4 DEF BuildOf

\* A block's first flashblock starts what subscribers were streamed over.
LEMMA FirstStreamed ==
    ASSUME NEW F \in SUBSET Flashblocks, F # {}, Sequenced(F),
           LatestFlashblock(F).index = 0
    PROVE  StreamedOnce(<<LatestFlashblock(F)>>, F)
<1> DEFINE l == LatestFlashblock(F)
<1>1. l \in F /\ l.index = 0
  BY LatestIsLast
<1>2. LatestBlock(F) = l.block
  BY DEF LatestBlock
<1> HIDE DEF l
<1>3. /\ Len(<<l>>) = l.index + 1
      /\ \A i \in 1..Len(<<l>>) :
            <<l>>[i] \in OfBlock(F, l.block) /\ <<l>>[i].index = i - 1
  BY <1>1 DEF OfBlock
<1> QED BY <1>2, <1>3 DEF StreamedOnce, l

\* The next flashblock of the same block continues it.
LEMMA NextStreamed ==
    ASSUME NEW F \in SUBSET Flashblocks, F # {}, Sequenced(F),
           NEW f \in Flashblocks,
           f.block = LatestFlashblock(F).block,
           f.index = LatestFlashblock(F).index + 1,
           LatestFlashblock(F \cup {f}) = f,
           NEW s \in Seq(Flashblocks), StreamedOnce(s, F)
    PROVE  StreamedOnce(Append(s, f), F \cup {f})
<1> DEFINE l == LatestFlashblock(F)
           t == Append(s, f)
<1>1. l \in F /\ l.block \in Nat /\ l.index \in Nat
  BY LatestIsLast, FlashblocksAssumption
<1>2. Len(s) = l.index + 1
  BY DEF StreamedOnce
<1>3. \A i \in 1..Len(s) : s[i] \in OfBlock(F, l.block) /\ s[i].index = i - 1
  BY DEF StreamedOnce, LatestBlock
<1>4. f.block = l.block /\ f.index = l.index + 1
  OBVIOUS
<1> HIDE DEF l
<1>5. Len(t) = f.index + 1
  BY <1>1, <1>2, <1>4
<1>6. \A i \in 1..Len(t) : t[i] \in OfBlock(F \cup {f}, f.block) /\ t[i].index = i - 1
  BY <1>1, <1>2, <1>3, <1>4 DEF OfBlock
<1> HIDE DEF t
<1>7. StreamedOnce(t, F \cup {f})
  BY <1>5, <1>6 DEF StreamedOnce, LatestBlock
<1> QED BY <1>7 DEF t

(***************************************************************************)
(* Broadcasting a snapshot that was built keeps subscribers in step, and a *)
(* canonical block's rebuild leaves them in step without one.              *)
(***************************************************************************)
LEMMA BroadcastInStep ==
    ASSUME TypeOK, Sequenced(prev.fbs),
           IsSome(prev) => StreamedOnce(announced, prev.fbs),
           NEW s \in Snapshot, IsSome(s), BuildOf(s.fbs)
    PROVE  /\ update.kind = "flashblock" =>
                 StreamedOnce(ApplyBatch(announced, s), s.fbs)
           /\ update.kind = "canonical" => StreamedOnce(announced, s.fbs)
<1>1. /\ prev.fbs \in SUBSET Flashblocks
      /\ s.fbs \in SUBSET Flashblocks /\ s.fbs # {}
      /\ announced \in Seq(Flashblocks)
  BY DEF TypeOK, Snapshot, IsSome
<1>2. Sequenced(s.fbs)
  BY <1>1, BuildSequenced
<1>3. LatestFlashblock(s.fbs) \in s.fbs
  BY <1>1, <1>2, LatestIsLast
<1>4. ASSUME update.kind = "canonical" PROVE StreamedOnce(announced, s.fbs)
  <2>1. UpperPart(s.fbs, prev.fbs)
    BY <1>4 DEF BuildOf
  <2>2. prev.fbs # {}
    BY <1>1, <2>1 DEF UpperPart
  <2>3. /\ LatestFlashblock(s.fbs) = LatestFlashblock(prev.fbs)
        /\ OfBlock(s.fbs, LatestBlock(s.fbs)) = OfBlock(prev.fbs, LatestBlock(prev.fbs))
    BY <1>1, <2>1, UpperPartSequenced
  <2> QED BY <2>2, <2>3 DEF StreamedOnce, IsSome
<1>5. ASSUME update.kind = "flashblock"
      PROVE  StreamedOnce(ApplyBatch(announced, s), s.fbs)
  <2>1. update.fb \in Flashblocks
    BY <1>5, UpdatePayload
  <2>2. CASE LatestFlashblock(s.fbs).index = 0
    BY <1>1, <1>2, <2>2, FirstStreamed DEF ApplyBatch
  <2>3. CASE LatestFlashblock(s.fbs).index # 0
    <3>1. ApplyBatch(announced, s) = Append(announced, LatestFlashblock(s.fbs))
      BY <2>3 DEF ApplyBatch
    <3>2. ~(update.fb.index = 0 /\ s.fbs = {update.fb})
      BY <1>3, <2>3
    <3>3. /\ IsSome(prev)
          /\ Validate(LatestFlashblock(prev.fbs), update.fb)
                 \in {"NextInSequence", "FirstOfNextBlock"}
          /\ s.fbs = prev.fbs \cup {update.fb}
      BY <1>5, <3>2 DEF BuildOf
    <3>4. LatestFlashblock(s.fbs) = update.fb
      BY <1>1, <2>1, <3>3, ExtensionSequenced DEF IsSome
    <3>5. /\ update.fb.block = LatestFlashblock(prev.fbs).block
          /\ update.fb.index = LatestFlashblock(prev.fbs).index + 1
      BY <2>3, <3>3, <3>4 DEF Validate
    <3>6. StreamedOnce(Append(announced, update.fb), s.fbs)
      BY <1>1, <2>1, <3>3, <3>4, <3>5, NextStreamed DEF IsSome
    <3> QED BY <3>1, <3>4, <3>6
  <2> QED BY <2>2, <2>3
<1> QED BY <1>4, <1>5

-----------------------------------------------------------------------------
(***************************************************************************)
(* The invariant is inductive                                              *)
(***************************************************************************)
LEMMA EmptySequenced == Sequenced(NoSnapshot.fbs)
BY DEF Sequenced, GapFree, NoSnapshot

\* Nothing is loaded, built or streamed at first.
LEMMA InitInv == Init => IndInv
<1> SUFFICES ASSUME Init PROVE IndInv
  OBVIOUS
<1>1. TypeOK
  BY InitType
<1>2. SequenceInv
  BY EmptySequenced, NoSnapshotType DEF Init, SequenceInv
<1>3. AnnouncedInv
  BY NoSnapshotType DEF Init, AnnouncedInv
<1> QED BY <1>1, <1>2, <1>3 DEF IndInv

\* The other tasks leave the processor alone and can only drop the snapshot.
LEMMA OtherTasksKeep ==
    ASSUME SequenceInv, AnnouncedInv,
           pending' = pending \/ pending' = NoSnapshot,
           UNCHANGED <<procVars, announced>>
    PROVE  SequenceInv' /\ AnnouncedInv'
<1> USE DEF procVars, buildVars
<1>1. SequenceInv'
  BY EmptySequenced DEF SequenceInv, BuildOf
<1>2. AnnouncedInv'
  BY NoSnapshotType DEF AnnouncedInv
<1> QED BY <1>1, <1>2

\* The start of an update.
LEMMA LoadKeeps ==
    ASSUME SequenceInv, AnnouncedInv, pc = "idle", LoadPendingOrDropStale
    PROVE  SequenceInv' /\ AnnouncedInv'
<1>1. /\ pending' = pending \/ pending' = NoSnapshot
      /\ prev' = pending \/ prev' = NoSnapshot
      /\ pc' = "decide"
      /\ UNCHANGED <<result, announced>>
  BY DEF LoadPendingOrDropStale
<1>2. SequenceInv'
  BY <1>1, EmptySequenced DEF SequenceInv
<1>3. AnnouncedInv'
  BY <1>1, NoSnapshotType DEF AnnouncedInv
<1> QED BY <1>2, <1>3

\* A handler that fails or returns early.
LEMMA GiveUpKeeps ==
    ASSUME SequenceInv, AnnouncedInv, pc # "swap", NEW c, GiveUp(c)
    PROVE  SequenceInv' /\ AnnouncedInv'
<1>1. /\ pc' = "idle" /\ prev' = NoSnapshot /\ result' = NoSnapshot
      /\ UNCHANGED <<pending, announced>>
  BY DEF GiveUp, Done, publishedVars
<1>2. SequenceInv'
  BY <1>1, EmptySequenced, NoSnapshotType DEF SequenceInv
<1>3. AnnouncedInv'
  BY <1>1, NoSnapshotType DEF AnnouncedInv
<1> QED BY <1>2, <1>3

\* A handler that resolves to the snapshot it loaded, or to none.
LEMMA ResolveKeeps ==
    ASSUME SequenceInv, AnnouncedInv, pc = "decide",
           NEW s, s = prev \/ s = NoSnapshot, Resolve(s)
    PROVE  SequenceInv' /\ AnnouncedInv'
<1>1. /\ pc' = "publish" /\ result' = s
      /\ UNCHANGED <<pending, prev, announced>>
  BY DEF Resolve, publishedVars
<1>2. SequenceInv'
  BY <1>1, NoSnapshotType DEF SequenceInv
<1>3. AnnouncedInv'
  BY <1>1 DEF AnnouncedInv
<1> QED BY <1>2, <1>3

\* A handler that calls build_pending_state.
LEMMA StartBuildKeeps ==
    ASSUME SequenceInv, AnnouncedInv, pc = "decide",
           NEW F, NEW b, BuildOf(F), StartBuild(F, b)
    PROVE  SequenceInv' /\ AnnouncedInv'
<1>1. /\ pc' \in {"anchor", "publish"} /\ target' = F
      /\ UNCHANGED <<pending, update, prev, result, announced>>
  BY DEF StartBuild, publishedVars
<1>2. BuildOf(target)'
  BY <1>1 DEF BuildOf
<1>3. SequenceInv'
  BY <1>1, <1>2 DEF SequenceInv
<1>4. AnnouncedInv'
  BY <1>1 DEF AnnouncedInv
<1> QED BY <1>3, <1>4

\* What process_flashblock starts to build is a BuildOf the loaded snapshot.
LEMMA FlashblockKeeps ==
    ASSUME TypeOK, SequenceInv, AnnouncedInv, FlashblockStep
    PROVE  SequenceInv' /\ AnnouncedInv'
<1> USE DEF Applying, DecidingFlashblock
<1>1. pc = "decide" /\ update.kind = "flashblock" /\ update.fb \in Flashblocks
  BY UpdatePayload
  DEF FlashblockStep, SkipSuperseded, BuildFirst, CacheFollower, ExtendPending,
      RestartBlock, IgnoreDuplicate, ClearOutOfSequence
<1>2. CASE SkipSuperseded
  BY <1>1, <1>2, GiveUpKeeps DEF SkipSuperseded
<1>3. CASE BuildFirst
  <2>1. BuildOf({update.fb})
    BY <1>1, <1>3 DEF BuildFirst, BuildOf
  <2> QED BY <1>1, <1>3, <2>1, StartBuildKeeps DEF BuildFirst
<1>4. CASE CacheFollower
  BY <1>1, <1>4, GiveUpKeeps DEF CacheFollower
<1>5. CASE ExtendPending
  <2>1. BuildOf(prev.fbs \cup {update.fb})
    BY <1>1, <1>5 DEF ExtendPending, BuildOf, Verdict
  <2> QED BY <1>1, <1>5, <2>1, StartBuildKeeps DEF ExtendPending
<1>6. CASE RestartBlock
  <2>1. update.fb.index = 0
    BY <1>6 DEF RestartBlock, Verdict, Validate
  <2>2. BuildOf({update.fb})
    BY <1>1, <2>1 DEF BuildOf
  <2> QED BY <1>1, <1>6, <2>2, StartBuildKeeps DEF RestartBlock
<1>7. CASE IgnoreDuplicate
  BY <1>1, <1>7, ResolveKeeps DEF IgnoreDuplicate
<1>8. CASE ClearOutOfSequence
  BY <1>1, <1>8, ResolveKeeps DEF ClearOutOfSequence
<1> QED
  BY <1>2, <1>3, <1>4, <1>5, <1>6, <1>7, <1>8 DEF FlashblockStep

\* So is what process_canonical_block rebuilds.
LEMMA CanonicalKeeps ==
    ASSUME TypeOK, SequenceInv, AnnouncedInv, CanonicalStep
    PROVE  SequenceInv' /\ AnnouncedInv'
<1>1. pc = "decide" /\ update.kind = "canonical" /\ update.block \in Block
  BY UpdatePayload
  DEF CanonicalStep, NothingToReconcile, ReconcileCanonical, DecidingCanonical
<1>2. \A f \in prev.fbs : f.block \in Nat
  BY FlashblocksAssumption DEF TypeOK, Snapshot
<1>3. CASE NothingToReconcile
  BY <1>1, <1>3, ResolveKeeps DEF NothingToReconcile
<1>4. ASSUME NEW tip \in TipReads, ReconcileAt(tip)
      PROVE  SequenceInv' /\ AnnouncedInv'
  <2> DEFINE canonical == EffectiveCanonical(update.block.number, tip)
             kept == {f \in prev.fbs : f.block > canonical}
  <2>1. \/ Resolve(NoSnapshot)
        \/ StartBuild(kept, FALSE)
        \/ StartBuild(prev.fbs, TRUE)
    BY <1>4 DEF ReconcileAt
  <2>2. canonical \in Int
    <3>1. Len(chain) \in Nat
      BY DEF TypeOK
    <3>2. tip \in Int
      BY <3>1 DEF TipReads, Best, Unknown
    <3> QED BY <1>1, <3>2 DEF EffectiveCanonical, Block
  <2> HIDE DEF canonical
  <2>3. UpperPart(kept, prev.fbs) /\ UpperPart(prev.fbs, prev.fbs)
    BY <1>2, <2>2 DEF UpperPart
  <2> HIDE DEF kept
  <2>4. BuildOf(kept) /\ BuildOf(prev.fbs)
    BY <1>1, <2>3 DEF BuildOf
  <2> QED BY <1>1, <2>1, <2>4, ResolveKeeps, StartBuildKeeps
<1> QED BY <1>3, <1>4 DEF CanonicalStep, ReconcileCanonical

\* build_pending_state changes neither the target nor the loaded snapshot.
LEMMA BuildKeeps ==
    ASSUME SequenceInv, AnnouncedInv, BuildStep
    PROVE  SequenceInv' /\ AnnouncedInv'
<1>1. CASE ReadAnchor
  <2>1. /\ pc = "anchor" /\ pc' = "execute"
        /\ UNCHANGED <<pending, update, prev, target, result, announced>>
    BY <1>1 DEF ReadAnchor, publishedVars
  <2> QED BY <2>1 DEF SequenceInv, AnnouncedInv, BuildOf
<1>2. CASE ParentMissing
  BY <1>2, GiveUpKeeps DEF ParentMissing
<1>3. CASE Execute
  <2>1. /\ pc = "execute" /\ pc' = "publish" /\ result'.fbs = target
        /\ UNCHANGED <<pending, update, prev, target, announced>>
    BY <1>3 DEF Execute, publishedVars, buildVars
  <2> QED BY <2>1 DEF SequenceInv, AnnouncedInv, BuildOf
<1>4. CASE BuildFails
  BY <1>4, GiveUpKeeps DEF BuildFails
<1> QED BY <1>1, <1>2, <1>3, <1>4 DEF BuildStep

\* The broadcast brings subscribers in step with what is stored next.
LEMMA AnnounceKeeps ==
    ASSUME TypeOK, SequenceInv, AnnouncedInv, Announce
    PROVE  TypeOK' /\ SequenceInv' /\ AnnouncedInv'
<1>1. /\ pc = "publish" /\ pc' = "swap"
      /\ UNCHANGED <<nodeVars, feedVars, lastCanonical, inclusionFee, queue, pending,
                     canonVars, judged, update, prev, buildVars, replay, cache>>
  BY DEF Announce
<1>2. result' = result \/ result' = NoSnapshot
  BY DEF Announce, Publishable
<1>3. announced' = IF update.kind = "flashblock" /\ IsSome(result') /\ result' # prev
                   THEN ApplyBatch(announced, result')
                   ELSE announced
  BY DEF Announce
<1>4. update.kind \in {"flashblock", "canonical"}
  BY <1>1 DEF TypeOK, Update
<1>5. result' \in Snapshot /\ announced \in Seq(Flashblocks) /\ prev \in Snapshot
  BY <1>2, NoSnapshotType DEF TypeOK
<1>6. IsSome(result') => result' = prev \/ BuildOf(result'.fbs)
  BY <1>1, <1>2, NoSnapshotType DEF SequenceInv
<1>7. Sequenced(prev.fbs) /\ Sequenced(pending.fbs)
  BY DEF SequenceInv
<1>8. Sequenced(result'.fbs)
  <2>1. CASE IsSome(result')
    <3>1. result'.fbs \in SUBSET Flashblocks
      BY <1>5 DEF Snapshot
    <3> QED BY <1>6, <1>7, <2>1, <3>1, BuildSequenced
  <2>2. CASE ~IsSome(result')
    BY <2>2 DEF IsSome, Sequenced, GapFree
  <2> QED BY <2>1, <2>2
<1>9. announced' \in Seq(Flashblocks)
  <2>1. CASE IsSome(result')
    <3>1. result'.fbs \in SUBSET Flashblocks /\ result'.fbs # {}
      BY <1>5, <2>1 DEF Snapshot, IsSome
    <3>2. LatestFlashblock(result'.fbs) \in Flashblocks
      BY <1>8, <3>1, LatestIsLast
    <3>3. ApplyBatch(announced, result') \in Seq(Flashblocks)
      BY <1>5, <3>2 DEF ApplyBatch
    <3> QED BY <1>3, <1>5, <3>3
  <2>2. CASE ~IsSome(result')
    BY <1>3, <1>5, <2>2
  <2> QED BY <2>1, <2>2
<1>10. ASSUME IsSome(result') PROVE StreamedOnce(announced', result'.fbs)
  <2>1. IsSome(prev) => StreamedOnce(announced, prev.fbs)
    BY <1>1 DEF AnnouncedInv
  <2>2. CASE result' = prev
    <3>1. announced' = announced
      BY <1>3, <2>2
    <3> QED BY <1>10, <2>1, <2>2, <3>1
  <2>3. CASE result' # prev
    <3>1. BuildOf(result'.fbs)
      BY <1>6, <1>10, <2>3
    <3>2. /\ update.kind = "flashblock" =>
                StreamedOnce(ApplyBatch(announced, result'), result'.fbs)
          /\ update.kind = "canonical" => StreamedOnce(announced, result'.fbs)
      BY <1>5, <1>7, <1>10, <2>1, <3>1, BroadcastInStep
    <3> QED BY <1>3, <1>4, <1>10, <2>3, <3>2
  <2> QED BY <2>2, <2>3
<1>11. TypeOK'
  BY <1>1, <1>5, <1>9
  DEF TypeOK, nodeVars, feedVars, canonVars, buildVars
<1>12. SequenceInv'
  BY <1>1, <1>7, <1>8 DEF SequenceInv
<1>13. AnnouncedInv'
  BY <1>1, <1>10 DEF AnnouncedInv
<1> QED BY <1>11, <1>12, <1>13

\* The store brings the served snapshot in step with the broadcast.
LEMMA SwapKeeps ==
    ASSUME TypeOK, SequenceInv, AnnouncedInv, Swap
    PROVE  TypeOK' /\ SequenceInv' /\ AnnouncedInv'
<1> DEFINE Cache == [entries : SUBSET Flashblocks, latest : Nat]
<1>1. /\ pc = "swap" /\ pending' = result
      /\ pc' = "idle" /\ prev' = NoSnapshot /\ result' = NoSnapshot
      /\ UNCHANGED announced
  BY DEF Swap, Done
<1>2. cache' \in Cache /\ replay' \in SUBSET Flashblocks
  <2>1. cache \in Cache /\ replay \in SUBSET Flashblocks
    BY DEF TypeOK
  <2>2. CASE update.kind = "canonical"
    <3> DEFINE number == update.block.number
               updated == UpdateCanonical(cache, number)
    <3>1. number \in Nat
      BY <2>2, UpdatePayload DEF Block
    <3>2. updated \in Cache
      BY <2>1, <3>1 DEF UpdateCanonical
    <3>3. /\ cache' = AfterDrain(updated, number + 1)
          /\ replay' = Drained(updated, number + 1)
      BY <2>2 DEF Swap
    <3> HIDE DEF updated, number
    <3> QED BY <3>2, <3>3 DEF AfterDrain, Drained
  <2>3. CASE update.kind # "canonical"
    BY <2>1, <2>3 DEF Swap
  <2> QED BY <2>2, <2>3
<1>3. judged' \in BOOLEAN
  BY DEF Swap
<1>4. TypeOK'
  BY <1>1, <1>2, <1>3, NoSnapshotType
  DEF Swap, Done, TypeOK, nodeVars, feedVars, canonVars, BlockIds
<1>5. SequenceInv'
  BY <1>1, EmptySequenced, NoSnapshotType DEF SequenceInv
<1>6. AnnouncedInv'
  BY <1>1, NoSnapshotType DEF AnnouncedInv
<1> QED BY <1>4, <1>5, <1>6

\* Every step keeps the invariant.
LEMMA NextInv == IndInv /\ [Next]_vars => IndInv'
<1> SUFFICES ASSUME IndInv, [Next]_vars PROVE IndInv'
  OBVIOUS
<1>1. TypeOK /\ SequenceInv /\ AnnouncedInv
  BY DEF IndInv
<1>2. CASE NodeStep
  <2>1. UNCHANGED <<pending, procVars, announced>>
    BY <1>2 DEF NodeStep, Commit
  <2> QED BY <1>1, <1>2, <2>1, NodeType, OtherTasksKeep DEF IndInv
<1>3. CASE FeedStep
  <2>1. UNCHANGED <<pending, procVars, announced>>
    BY <1>3 DEF FeedStep, OnFlashblockReceived, LoseFlashblock
  <2> QED BY <1>1, <1>3, <2>1, FeedType, OtherTasksKeep DEF IndInv
<1>4. CASE CanonStep \/ Lagged
  <2>1. /\ pending' = pending \/ pending' = NoSnapshot
        /\ UNCHANGED <<procVars, announced>>
    BY <1>4 DEF CanonStep, StoreLastCanonical, JudgePending, DropJudgedAndSend, Lagged
  <2> QED BY <1>1, <1>4, <2>1, CanonType, OtherTasksKeep DEF IndInv
<1>5. CASE Receive \/ ReplayNext
  <2>1. pc = "idle" /\ LoadPendingOrDropStale
    BY <1>5 DEF Receive, ReplayNext
  <2> QED BY <1>1, <1>5, <2>1, ReceiveType, LoadKeeps DEF IndInv
<1>6. CASE FlashblockStep
  BY <1>1, <1>6, FlashblockType, FlashblockKeeps DEF IndInv
<1>7. CASE CanonicalStep
  BY <1>1, <1>7, CanonicalType, CanonicalKeeps DEF IndInv
<1>8. CASE BuildStep
  BY <1>1, <1>8, BuildType, BuildKeeps DEF IndInv
<1>9. CASE Announce
  BY <1>1, <1>9, AnnounceKeeps DEF IndInv
<1>10. CASE Swap
  BY <1>1, <1>10, SwapKeeps DEF IndInv
<1>11. CASE UNCHANGED vars
  BY <1>11
  DEF vars, nodeVars, feedVars, canonVars, procVars, buildVars, IndInv, TypeOK,
      SequenceInv, AnnouncedInv, BuildOf
<1> QED
  BY <1>2, <1>3, <1>4, <1>5, <1>6, <1>7, <1>8, <1>9, <1>10, <1>11
  DEF Next, ProcStep

\* The inductive invariant holds in every state: what every task of the code
\* may rely on when it takes its next step.
THEOREM Invariance == Spec => []IndInv
BY InitInv, NextInv, PTL DEF Spec

-----------------------------------------------------------------------------
(***************************************************************************)
(* The variables of the node, the feed, the canonical task and the         *)
(* processor keep their types whatever faults occur.                       *)
(***************************************************************************)
THEOREM TypeCorrect == Spec => []TypeOK
<1>1. IndInv => TypeOK
  BY DEF IndInv
<1> QED BY <1>1, Invariance, PTL

(***************************************************************************)
(* The snapshot the node serves never has a gap: process_flashblock        *)
(* appends in sequence and process_canonical_block cuts at a block         *)
(* boundary, for any stream, any chain and any failing read.               *)
(***************************************************************************)
THEOREM ServedIsGapFree == Spec => []PendingGapFree
<1>1. IndInv => PendingGapFree
  BY DEF IndInv, SequenceInv, Sequenced, PendingGapFree
<1> QED BY <1>1, Invariance, PTL

(***************************************************************************)
(* A subscriber was streamed exactly the flashblocks of the latest block   *)
(* the node serves, once each and in order: apply_flashblock broadcasts    *)
(* each extension once and process_canonical_block keeps the latest block. *)
(***************************************************************************)
THEOREM StreamedIsServed == Spec => []AnnouncedIsServed
<1>1. IndInv => AnnouncedIsServed
  BY DEF IndInv, AnnouncedInv, AnnouncedIsServed
<1> QED BY <1>1, Invariance, PTL

-----------------------------------------------------------------------------
(***************************************************************************)
(* No snapshot holds a transaction twice: with_transaction refuses it.     *)
(***************************************************************************)
Single(F) == ~HasDuplicateTransaction(F)

SingleInv == Single(pending.fbs) /\ Single(prev.fbs) /\ Single(result.fbs)

\* The absent snapshot holds none.
LEMMA NoneSingle == Single(NoSnapshot.fbs)
BY DEF Single, HasDuplicateTransaction, NoSnapshot

\* Every snapshot that appears is one of these, absent, or what Execute let pass.
LEMMA NextSingle == SingleInv /\ [Next]_vars => SingleInv'
<1> SUFFICES ASSUME SingleInv, [Next]_vars PROVE SingleInv'
  OBVIOUS
<1> USE DEF publishedVars, nodeVars
<1>1. ASSUME pending' \in {pending, prev, result, NoSnapshot},
             prev' \in {pending, prev, result, NoSnapshot},
             result' \in {pending, prev, result, NoSnapshot}
      PROVE  SingleInv'
  <2>1. \A s \in {pending, prev, result, NoSnapshot} : Single(s.fbs)
    BY NoneSingle DEF SingleInv
  <2> QED BY <1>1, <2>1 DEF SingleInv
<1>2. CASE NodeStep \/ FeedStep \/ CanonStep \/ Lagged \/ UNCHANGED vars
  BY <1>1, <1>2
  DEF NodeStep, Commit, FeedStep, OnFlashblockReceived, LoseFlashblock, CanonStep,
      StoreLastCanonical, JudgePending, DropJudgedAndSend, Lagged, vars, procVars
<1>3. CASE Receive \/ ReplayNext
  BY <1>1, <1>3 DEF Receive, ReplayNext, LoadPendingOrDropStale
<1>4. ASSUME NEW c, GiveUp(c) PROVE SingleInv'
  BY <1>1, <1>4 DEF GiveUp, Done
<1>5. ASSUME NEW F, NEW b, StartBuild(F, b) PROVE SingleInv'
  BY <1>1, <1>5 DEF StartBuild
<1>6. ASSUME NEW s, Resolve(s), s = prev \/ s = NoSnapshot PROVE SingleInv'
  BY <1>1, <1>6 DEF Resolve
<1>7. CASE FlashblockStep
  BY <1>4, <1>5, <1>6, <1>7
  DEF FlashblockStep, SkipSuperseded, BuildFirst, CacheFollower, ExtendPending, RestartBlock,
      IgnoreDuplicate, ClearOutOfSequence
<1>8. CASE CanonicalStep
  BY <1>5, <1>6, <1>8 DEF CanonicalStep, NothingToReconcile, ReconcileCanonical, ReconcileAt
<1>9. CASE ReadAnchor \/ ParentMissing \/ BuildFails
  BY <1>1, <1>4, <1>9 DEF ReadAnchor, ParentMissing, BuildFails
<1>10. CASE Execute
  <2>1. UNCHANGED <<pending, prev>> /\ result'.fbs = target /\ Single(target)
    BY <1>10 DEF Execute, Single
  <2> QED BY <2>1 DEF SingleInv
<1>11. CASE Announce
  BY <1>1, <1>11 DEF Announce, Publishable
<1>12. CASE Swap
  BY <1>1, <1>12 DEF Swap, Done
<1> QED
  BY <1>2, <1>3, <1>7, <1>8, <1>9, <1>10, <1>11, <1>12 DEF Next, ProcStep, BuildStep

\* Neither does any that PendingBlocksBuilder builds, under any interleaving.
LEMMA SingleInvariance == Spec => []SingleInv
<1>1. Init => SingleInv
  BY NoneSingle DEF Init, SingleInv
<1> QED BY <1>1, NextSingle, PTL DEF Spec

-----------------------------------------------------------------------------
(***************************************************************************)
(* FlashblocksState implements Publisher: every step of the three tasks is *)
(* a step of the contract that readers are checked against, or changes     *)
(* nothing they can see.                                                   *)
(***************************************************************************)

(***************************************************************************)
(* The contract's copies of the operators on snapshots are the ones of     *)
(* FlashblocksState: the instance renames no constant.                     *)
(***************************************************************************)
LEMMA SameGapFree == ASSUME NEW F PROVE Contract!GapFree(F) = GapFree(F)
BY DEF Contract!GapFree, GapFree

\* So is the last flashblock,
LEMMA SameLatest ==
    ASSUME NEW F
    PROVE  Contract!LatestFlashblock(F) = LatestFlashblock(F)
BY DEF Contract!LatestFlashblock, LatestFlashblock

\* the comparison of what was streamed with a snapshot,
LEMMA SameStreamedOnce ==
    ASSUME NEW s, NEW F
    PROVE  Contract!StreamedOnce(s, F) = StreamedOnce(s, F)
BY SameLatest
DEF Contract!StreamedOnce, StreamedOnce, Contract!OfBlock, OfBlock,
    Contract!LatestBlock, LatestBlock

\* and what a client holds after a broadcast.
LEMMA SameApplyBatch ==
    ASSUME NEW held, NEW snapshot, NEW view, snapshot.fbs = view.fbs
    PROVE  Contract!ApplyBatch(held, view) = ApplyBatch(held, snapshot)
BY SameLatest DEF Contract!ApplyBatch, ApplyBatch

\* The check for a transaction that occurs twice is the same, too.
LEMMA SameHasDuplicate ==
    ASSUME NEW F
    PROVE  Contract!HasDuplicateTransaction(F) = HasDuplicateTransaction(F)
BY DEF Contract!HasDuplicateTransaction, HasDuplicateTransaction

-----------------------------------------------------------------------------
(***************************************************************************)
(* The steps, by what readers see of them                                  *)
(***************************************************************************)

\* Most steps of the processor: no snapshot is decided on before or after.
LEMMA Invisible ==
    ASSUME UNCHANGED <<chain, minted, pending, announced>>,
           \/ pc # "swap" /\ pc' # "swap"
           \/ UNCHANGED <<pc, result>>
    PROVE  UNCHANGED Contract!publisherVars
BY DEF Contract!publisherVars, Contract!chainVars

\* A commit is a step of the contract's chain.
LEMMA CommitImplements == NodeStep => Contract!Next
<1> SUFFICES ASSUME NodeStep PROVE Contract!ChainStep
  BY DEF Contract!Next
<1>1. PICK keep \in 0..Best, k \in 1..MaxCommit :
         \E b \in BodyLists(keep, k) : Commit(keep, b)
  BY DEF NodeStep
<1>2. PICK b \in BodyLists(keep, k) : Commit(keep, b)
  BY <1>1
<1>3. b \in Contract!BodyLists(keep, k)
  BY <1>2 DEF BodyLists, Contract!BodyLists, TxLists, Contract!TxLists
<1>4. Contract!NewBlocks(keep, minted, b) = NewBlocks(keep, minted, b)
  BY DEF Contract!NewBlocks, NewBlocks
<1>5. UNCHANGED <<pending, pc, result, announced>>
  BY <1>2 DEF Commit, procVars
<1>6. /\ minted + Len(b) <= MaxMinted
      /\ chain' = SubSeq(chain, 1, keep) \o Contract!NewBlocks(keep, minted, b)
      /\ minted' = minted + Len(b)
  BY <1>2, <1>4 DEF Commit
<1>7. Contract!Commit(keep, b)
  BY <1>5, <1>6 DEF Contract!Commit
<1> QED BY <1>3, <1>7 DEF Contract!ChainStep, Best

\* A snapshot dropped by either task, or kept.
LEMMA DropImplements ==
    ASSUME pending' = pending \/ pending' = NoSnapshot,
           UNCHANGED <<chain, minted, announced>>,
           \/ pc # "swap" /\ pc' # "swap"
           \/ UNCHANGED <<pc, result>>
    PROVE  Contract!Next \/ UNCHANGED Contract!publisherVars
<1>1. CASE pending' = pending
  BY <1>1, Invisible
<1>2. CASE pending' = NoSnapshot
  <2>1. Contract!Drop
    BY <1>2
    DEF Contract!Drop, Contract!chainVars, Contract!NoView, ViewOf, NoSnapshot
  <2> QED BY <2>1 DEF Contract!Next
<1> QED BY <1>1, <1>2

\* The broadcast, or the decision to store without one.
LEMMA AnnounceImplements ==
    ASSUME IndInv, SingleInv', Announce
    PROVE  Contract!Next
<1> DEFINE told == update.kind = "flashblock" /\ IsSome(result') /\ result' # prev
           view == ViewOf(result')
<1>1. pc = "publish" /\ pc' = "swap" /\ UNCHANGED <<chain, minted, pending>>
  BY DEF Announce, nodeVars
<1>2. announced' = IF told THEN ApplyBatch(announced, result') ELSE announced
  BY DEF Announce
<1>3. TypeOK' /\ SequenceInv' /\ AnnouncedInv'
  BY AnnounceKeeps DEF IndInv
<1>4. /\ result' \in Snapshot
      /\ GapFree(result'.fbs)
      /\ IsSome(result') => StreamedOnce(announced', result'.fbs)
  BY <1>1, <1>3 DEF TypeOK, SequenceInv, Sequenced, AnnouncedInv
<1>5. view.fbs = result'.fbs /\ view \in Contract!View
  BY <1>4 DEF ViewOf, Contract!View, Snapshot, BlockIds, Contract!BlockIds
<1>6. Contract!IsSome(view) <=> IsSome(result')
  BY <1>5 DEF Contract!IsSome, IsSome
<1>7. Contract!ApplyBatch(announced, view) = ApplyBatch(announced, result')
  BY <1>5, SameApplyBatch
<1>8. /\ Contract!GapFree(view.fbs)
      /\ ~Contract!HasDuplicateTransaction(view.fbs)
      /\ IsSome(result') => Contract!StreamedOnce(announced', view.fbs)
  BY <1>4, <1>5, SameGapFree, SameHasDuplicate, SameStreamedOnce DEF SingleInv, Single
<1>9. PICK t \in BOOLEAN : t = told
  OBVIOUS
<1> HIDE DEF told, view
<1>10. /\ t => Contract!IsSome(view)
       /\ announced' = IF t THEN Contract!ApplyBatch(announced, view) ELSE announced
  BY <1>2, <1>6, <1>7, <1>9 DEF told
<1>11. <<view>> \in Seq(Contract!View) /\ Len(<<view>>) = 1 /\ <<view>>[1] = view
  BY <1>5
<1>12. /\ (IF pc = "swap" THEN <<ViewOf(result)>> ELSE <<>>) = <<>>
       /\ (IF pc' = "swap" THEN <<ViewOf(result')>> ELSE <<>>) = <<view>>
  BY <1>1 DEF view
<1>13. Contract!Publish(t)
  BY <1>1, <1>6, <1>8, <1>10, <1>11, <1>12 DEF Contract!Publish, Contract!chainVars
<1> QED BY <1>13 DEF Contract!Next

\* The store.
LEMMA SwapImplements == ASSUME Swap PROVE Contract!Next
<1>1. /\ pc = "swap" /\ pc' = "idle" /\ pending' = result
      /\ UNCHANGED <<chain, minted, announced>>
  BY DEF Swap, Done, nodeVars
<1>2. Contract!Store
  BY <1>1 DEF Contract!Store, Contract!chainVars
<1> QED BY <1>2 DEF Contract!Next

-----------------------------------------------------------------------------
\* Nothing is served at first, in either.
LEMMA InitImplements == Init => Contract!Init
BY DEF Init, Contract!Init, Contract!NoView, ViewOf, NoSnapshot, FirstBlocks,
       Contract!FirstBlocks

\* Every step is a step of the contract, or one readers cannot see.
LEMMA StepImplements ==
    IndInv /\ SingleInv' /\ [Next]_vars => [Contract!Next]_(Contract!publisherVars)
<1> SUFFICES ASSUME IndInv, SingleInv', [Next]_vars
             PROVE  Contract!Next \/ UNCHANGED Contract!publisherVars
  OBVIOUS
<1>1. CASE NodeStep
  BY <1>1, CommitImplements
<1>2. CASE FeedStep
  <2>1. UNCHANGED <<chain, minted, pending, announced, pc, result>>
    BY <1>2
    DEF FeedStep, OnFlashblockReceived, LoseFlashblock, nodeVars, procVars
  <2> QED BY <2>1, Invisible
<1>3. CASE CanonStep \/ Lagged
  <2>1. /\ pending' = pending \/ pending' = NoSnapshot
        /\ UNCHANGED <<chain, minted, announced, pc, result>>
    BY <1>3
    DEF CanonStep, StoreLastCanonical, JudgePending, DropJudgedAndSend, Lagged,
        nodeVars, procVars
  <2> QED BY <2>1, DropImplements
<1>4. CASE Receive \/ ReplayNext
  <2>1. /\ pending' = pending \/ pending' = NoSnapshot
        /\ UNCHANGED <<chain, minted, announced>>
        /\ pc = "idle" /\ pc' = "decide"
    BY <1>4 DEF Receive, ReplayNext, LoadPendingOrDropStale, nodeVars
  <2> QED BY <2>1, DropImplements
<1>5. CASE FlashblockStep \/ CanonicalStep
  <2>1. /\ UNCHANGED <<chain, minted, pending, announced>>
        /\ pc = "decide" /\ pc' # "swap"
    BY <1>5
    DEF FlashblockStep, SkipSuperseded, BuildFirst, CacheFollower, ExtendPending,
        RestartBlock, IgnoreDuplicate, ClearOutOfSequence, Applying,
        DecidingFlashblock, CanonicalStep, NothingToReconcile, ReconcileCanonical,
        ReconcileAt, DecidingCanonical, GiveUp, Resolve, StartBuild, Done,
        publishedVars, nodeVars
  <2> QED BY <2>1, Invisible
<1>6. CASE BuildStep
  <2>1. /\ UNCHANGED <<chain, minted, pending, announced>>
        /\ pc # "swap" /\ pc' # "swap"
    BY <1>6
    DEF BuildStep, ReadAnchor, ParentMissing, Execute, BuildFails, GiveUp, Done,
        publishedVars, nodeVars
  <2> QED BY <2>1, Invisible
<1>7. CASE Announce
  BY <1>7, AnnounceImplements
<1>8. CASE Swap
  BY <1>8, SwapImplements
<1>9. CASE UNCHANGED vars
  <2>1. UNCHANGED <<chain, minted, pending, announced, pc, result>>
    BY <1>9 DEF vars, nodeVars, procVars
  <2> QED BY <2>1, Invisible
<1> QED
  BY <1>1, <1>2, <1>3, <1>4, <1>5, <1>6, <1>7, <1>8, <1>9 DEF Next, ProcStep

(***************************************************************************)
(* What readers see of the receiver, the canonical task and the processor  *)
(* is a behaviour of Publisher, for every stream, chain, bound and fault:  *)
(* the store follows the broadcast of that very snapshot and every other   *)
(* change is a drop.  What is checked of the RPC methods on top of         *)
(* Publisher thus holds on top of the tasks.                               *)
(***************************************************************************)
THEOREM TasksImplementPublisher == Spec => ImplementsPublisher
BY Invariance, SingleInvariance, InitImplements, StepImplements, PTL
DEF Spec, ImplementsPublisher, Contract!Spec
=============================================================================
