----------------------------- MODULE Canonical ------------------------------
(***************************************************************************)
(* The node's canonical chain, as the flashblocks crates see it through    *)
(* reth's provider: blocks 1..best above the genesis block.  A block has   *)
(* an identity (its hash), a number and its transactions.                  *)
(***************************************************************************)
EXTENDS Integers, Sequences

CONSTANTS
    StartHeight,    \* height of the node at the start
    Bodies,         \* Bodies[n]: transaction lists block n may be sealed with
    MaxCommit,      \* bound: blocks in one canonical notification
    MaxMinted       \* bound: blocks ever committed

ASSUME HeightAssumption == StartHeight \in Nat
ASSUME ChainBoundsAssumption == MaxCommit \in Nat /\ MaxMinted \in Nat

BlockIds == Nat         \* identity of a canonical block (its hash)

TxLists == (UNION {Bodies[n] : n \in DOMAIN Bodies}) \cup {<<>>}
Block == [number : Nat, id : BlockIds, txs : TxLists]

FirstBlocks == [n \in 1..StartHeight |-> [number |-> n, id |-> n, txs |-> <<>>]]

\* The transaction lists for k blocks committed above `keep'.
BodyLists(keep, k) ==
    {b \in [1..k -> TxLists] :
        \A i \in 1..k : keep + i \in DOMAIN Bodies /\ b[i] \in Bodies[keep + i]}

\* The blocks one notification commits above `keep', the base-th and later ones.
NewBlocks(keep, base, bodies) ==
    [i \in DOMAIN bodies |->
        [number |-> keep + i, id |-> base + i, txs |-> bodies[i]]]
=============================================================================
