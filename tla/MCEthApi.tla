------------------------------ MODULE MCEthApi ------------------------------
(***************************************************************************)
(* A small instance of EthApi for TLC: block 1 in two flashblocks, block 2 *)
(* in one; block 1 is sealed as it was streamed or without the second      *)
(* transaction.                                                            *)
(***************************************************************************)
EXTENDS EthApi

Fb(block, index, txs) ==
    [block |-> block, index |-> index, payload |-> block, txs |-> txs]

MCFlashblocks == {Fb(1, 0, <<1>>), Fb(1, 1, <<2>>), Fb(2, 0, <<3>>)}

MCBodies == <<{<<1, 2>>, <<4>>}, {<<3>>}>>
=============================================================================
