----------------------------- MODULE Publisher ------------------------------
(***************************************************************************)
(* What FlashblocksState promises to those that read it beside a chain     *)
(* that grows and reorgs: a snapshot is published in two steps, an optional *)
(* broadcast and then the store; it can be dropped at any moment; and a    *)
(* snapshot that is published has no gap, holds no transaction twice and   *)
(* is what was broadcast.                                                  *)
(*                                                                         *)
(* The RPC methods are checked on top of this module, so what holds there  *)
(* holds for every behaviour of the processor and the canonical task.      *)
(***************************************************************************)
EXTENDS Integers, Sequences, Canonical, PendingBlocks

VARIABLES
    chain,      \* canonical blocks 1..best
    minted,     \* number of blocks committed so far
    pending,    \* the snapshot served
    next,       \* <<>>, or the snapshot that was broadcast and not yet stored
    announced   \* flashblocks of the latest block, as broadcast

chainVars == <<chain, minted>>
publisherVars == <<chainVars, pending, next, announced>>

-----------------------------------------------------------------------------
\* What a reader can tell of a snapshot: its flashblocks and its anchor.
View == [fbs : SUBSET Flashblocks, anchor : BlockIds]
NoView == [fbs |-> {}, anchor |-> 0]

Init ==
    /\ chain = FirstBlocks
    /\ minted = StartHeight
    /\ pending = NoView
    /\ next = <<>>
    /\ announced = <<>>

\* A commit above `keep'; one below the tip is a reorg.
Commit(keep, bodies) ==
    /\ minted + Len(bodies) <= MaxMinted
    /\ chain' = SubSeq(chain, 1, keep) \o NewBlocks(keep, minted, bodies)
    /\ minted' = minted + Len(bodies)
    /\ UNCHANGED <<pending, next, announced>>

ChainStep ==
    \E keep \in 0..Len(chain), k \in 1..MaxCommit :
        \E bodies \in BodyLists(keep, k) : Commit(keep, bodies)

\* The next snapshot, or none, is decided on; one that is told is broadcast.
Publish(told) ==
    /\ next = <<>>
    /\ next' \in Seq(View) /\ Len(next') = 1
    /\ told => IsSome(next'[1])
    /\ announced' = IF told THEN ApplyBatch(announced, next'[1]) ELSE announced
    /\ IsSome(next'[1]) =>
          /\ GapFree(next'[1].fbs)
          /\ ~HasDuplicateTransaction(next'[1].fbs)
          /\ StreamedOnce(announced', next'[1].fbs)
    /\ UNCHANGED <<chainVars, pending>>

Store ==
    /\ next # <<>>
    /\ pending' = next[1]
    /\ next' = <<>>
    /\ UNCHANGED <<chainVars, announced>>

\* Either task drops a snapshot that fell behind the chain.
Drop ==
    /\ pending' = NoView
    /\ UNCHANGED <<chainVars, next, announced>>

Next == ChainStep \/ (\E told \in BOOLEAN : Publish(told)) \/ Store \/ Drop

Spec == Init /\ [][Next]_publisherVars
=============================================================================
