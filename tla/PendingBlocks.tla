---------------------------- MODULE PendingBlocks ----------------------------
(***************************************************************************)
(* The pending snapshot of flashblocks/src/pending_blocks.rs.              *)
(*                                                                         *)
(* A flashblock is a record with the fields block (metadata.block_number,  *)
(* which its base payload repeats), index, payload and txs, the sequence   *)
(* of its transaction hashes.  A snapshot lists its flashblocks in block   *)
(* order and, within a block, in index order, so the set of them is all    *)
(* that the list holds as long as no (block, index) occurs twice.          *)
(*                                                                         *)
(*   fbs     the flashblocks; the empty set is the absent snapshot (None)  *)
(*   anchor  identity of the canonical header recorded by with_anchor      *)
(*   bases   identities of the canonical blocks whose state the bundle was *)
(*           computed from: the state opened by the build, and those of    *)
(*           the previous bundle when it was reused as the prestate        *)
(***************************************************************************)
EXTENDS Integers, Sequences, FiniteSets, SequencesExt, FiniteSetsExt, Canonical,
        Validation

(***************************************************************************)
(* The flashblocks a builder can stream: messages of limited size with     *)
(* fields of fixed width, so they are finitely many.  None is for block 0: *)
(* no height is below 0, so on_flashblock_received always drops it.        *)
(***************************************************************************)
CONSTANT Flashblocks

ASSUME FlashblocksAssumption ==
    \A f \in Flashblocks : f.block \in Nat \ {0} /\ f.index \in Nat
ASSUME StreamAssumption ==
    IsFiniteSet(Flashblocks) /\ \A f \in Flashblocks : f.txs \in Seq(Range(f.txs))

Snapshot == [fbs : SUBSET Flashblocks, anchor : BlockIds, bases : SUBSET BlockIds]

\* Option::None.  A built snapshot is never empty, so no other value is needed.
NoSnapshot == [fbs |-> {}, anchor |-> 0, bases |-> {}]

IsSome(snapshot) == snapshot.fbs # {}

-----------------------------------------------------------------------------
\* earliest_block_number: first key of the map the build groups by.
EarliestBlock(fbs) == Min({f.block : f \in fbs})

\* The last flashblock of the list: latest block, highest index in it.
LatestFlashblock(fbs) ==
    CHOOSE f \in fbs :
        \A g \in fbs : \/ g.block < f.block
                       \/ g.block = f.block /\ g.index <= f.index

\* latest_block_number.
LatestBlock(fbs) == LatestFlashblock(fbs).block

OfBlock(fbs, number) == {f \in fbs : f.block = number}

BeforeFlashblock(f, g) ==
    \/ f.block < g.block
    \/ f.block = g.block /\ f.index < g.index

\* The list of flashblocks: the i-th is the one with i - 1 others before it.
InOrder(fbs) ==
    [i \in 1..Cardinality(fbs) |->
        CHOOSE f \in fbs : Cardinality({g \in fbs : BeforeFlashblock(g, f)}) = i - 1]

\* transactions, the list the build filled flashblock by flashblock.
Transactions(fbs) == FlattenSeq([i \in 1..Cardinality(fbs) |-> InOrder(fbs)[i].txs])

\* get_transactions_for_block: the transactions tracked for one block.
TransactionsForBlock(fbs, number) == Transactions(OfBlock(fbs, number))

-----------------------------------------------------------------------------
(***************************************************************************)
(* What the RPC methods and the subscriptions read of a snapshot.  Every   *)
(* transaction has a receipt with one log, so a log is a transaction at a  *)
(* place: its block and its index in it.                                   *)
(***************************************************************************)
\* get_receipt, get_transaction_by_hash and has_transaction_hash.
HoldsTransaction(fbs, tx) == \E f \in fbs : \E i \in DOMAIN f.txs : f.txs[i] = tx

\* get_latest_block and get_latest_block_receipts; get_latest_block_transaction
\* is one entry of it.
LatestBlockTransactions(fbs) == TransactionsForBlock(fbs, LatestBlock(fbs))

LogsOf(txs, number, sealed) ==
    {[block |-> number, index |-> i - 1, tx |-> txs[i], sealed |-> sealed] :
        i \in DOMAIN txs}

\* get_pending_logs, with a filter that matches everything.
PendingLogs(fbs) ==
    UNION {LogsOf(TransactionsForBlock(fbs, n), n, FALSE) : n \in {f.block : f \in fbs}}

\* Mutant of PreviousTxCount: only the flashblocks of the latest block count.
PreviousTxCountOfBlock(fbs) ==
    MapThenSumSet(LAMBDA f : Len(f.txs),
                  OfBlock(fbs, LatestBlock(fbs)) \ {LatestFlashblock(fbs)})

\* previous_flashblocks_tx_count.
PreviousTxCount(fbs) ==
    MapThenSumSet(LAMBDA f : Len(f.txs), fbs \ {LatestFlashblock(fbs)})

\* get_latest_flashblock_{transactions_with_logs, transaction_hashes, logs}: what
\* the latest flashblock added.
LatestDelta(fbs) ==
    LET txs == Transactions(fbs)
    IN  SubSeq(txs, PreviousTxCount(fbs) + 1, Len(txs))

-----------------------------------------------------------------------------
\* with_transaction defers an error when a hash is added a second time.
HasDuplicateTransaction(fbs) ==
    \E f, g \in fbs :
        \E i \in DOMAIN f.txs, j \in DOMAIN g.txs :
            <<f, i>> # <<g, j>> /\ f.txs[i] = g.txs[j]

(***************************************************************************)
(* What a subscriber that has received every broadcast was streamed for    *)
(* the latest block once snapshot is broadcast: a broadcast carries only   *)
(* what the latest flashblock added (get_latest_flashblock_batch), and     *)
(* index 0 starts the block over.                                          *)
(***************************************************************************)
ApplyBatch(held, snapshot) ==
    LET latest == LatestFlashblock(snapshot.fbs)
    IN  IF latest.index = 0 THEN <<latest>> ELSE Append(held, latest)

(***************************************************************************)
(* A gap-free run of flashblocks: it covers an interval of blocks, each    *)
(* block from index 0 to its highest index, and no (block, index) twice.   *)
(***************************************************************************)
GapFree(fbs) ==
    /\ \A f, g \in fbs : f.block = g.block /\ f.index = g.index => f = g
    /\ \A f \in fbs : f.index > 0 =>
          \E g \in fbs : g.block = f.block /\ g.index = f.index - 1
    /\ \A f, g \in fbs : \A n \in f.block..g.block :
          \E h \in fbs : h.block = n /\ h.index = 0

\* `streamed' is each flashblock of the latest block of fbs, once, in order.
StreamedOnce(streamed, fbs) ==
    /\ Len(streamed) = LatestFlashblock(fbs).index + 1
    /\ \A i \in 1..Len(streamed) :
          /\ streamed[i] \in OfBlock(fbs, LatestBlock(fbs))
          /\ streamed[i].index = i - 1
=============================================================================
