------------------------- MODULE MCFlashblocksState -------------------------
(***************************************************************************)
(* Small instances of FlashblocksState for TLC.                            *)
(***************************************************************************)
EXTENDS FlashblocksState

\* One flashblock; its position names its transactions.
Fb(block, index, payload, txs) ==
    [block |-> block, index |-> index, payload |-> payload, txs |-> txs, fee |-> TRUE]

(***************************************************************************)
(* Every block has a first flashblock with one transaction and a second,   *)
(* empty one; block 2 is also built a second time, and its second payload  *)
(* holds the same transaction.                                             *)
(***************************************************************************)
MCFlashblocks ==
    {Fb(n, 0, 1, <<n>>) : n \in 1..3} \cup {Fb(n, 1, 1, <<>>) : n \in 1..3}
        \cup {Fb(2, 0, 2, <<2>>), Fb(2, 1, 2, <<20>>)}

\* A shorter stream, for the runs in which the chain reorgs.
MCReorgFlashblocks ==
    {Fb(n, 0, 1, <<n>>) : n \in 1..3} \cup {Fb(2, 1, 1, <<>>)}

\* The same, with block 2 built a second time.
MCRestartedFlashblocks == MCReorgFlashblocks \cup {Fb(2, 0, 2, <<2>>)}

\* A block is sealed as it was streamed, or with the builder's payout (99).
MCBodies == [n \in 1..3 |-> {<<n>>, <<n, 99>>}]
=============================================================================
