------------------------------ MODULE MCPubSub ------------------------------
(***************************************************************************)
(* Small instances of PubSub for TLC: one connection with a newFlashblocks *)
(* subscription and two per-item ones.                                     *)
(***************************************************************************)
EXTENDS PubSub, TLC

CONSTANTS c1, latest, item1, item2

MCConnectionOf == [s \in Subs |-> c1]
MCKindOf == [s \in Subs |-> IF s = latest THEN "NewFlashblocks" ELSE "PerItem"]

\* The cap leaves no room for both per-item subscriptions.
OneEach == [k \in SlotKinds |-> 1]
TwoPerItem == [NewFlashblocks |-> 1, PerItem |-> 2]

PerItemSymmetry == Permutations({item1, item2})
=============================================================================
