------------------------------ MODULE Payment -------------------------------
(***************************************************************************)
(* The proposer payment checks of the simulator (validation/mod.rs,        *)
(* payment.rs).  A block, as far as they look at it, is a record           *)
(*                                                                         *)
(*   before, after  the recipient's balance in the parent and in the block *)
(*   withdrawn      the block's withdrawals to the recipient               *)
(*   txs            its transactions with their receipts                   *)
(*                                                                         *)
(* A transaction is a record: whom it calls (to), the shape of its         *)
(* calldata (input), its value, the entries of its batch, whether the      *)
(* batch is a delegatecall, whether executing it moved those entries, its  *)
(* receipt's status, whether it names this chain's id, and its effective   *)
(* tip.  The checks see all of it but what the batch moved.                *)
(***************************************************************************)
EXTENDS Integers, Sequences, SequencesExt, FiniteSetsExt

PaidTransaction ==
    [to : {"recipient", "forwarder", "other"},
     input : {"empty", "forwards", "batch", "other"},
     value : Nat, entries : Seq([to : {"recipient", "other"}, value : Nat]),
     delegate : BOOLEAN, moves : BOOLEAN, status : BOOLEAN, chain : BOOLEAN, tip : Nat]

PaidDirectly(tx) == tx.to = "recipient" /\ tx.input = "empty"

\* payment_forwarder_recipient is the recipient.
Forwards(tx) == tx.to = "forwarder" /\ tx.input = "forwards"

\* The forwarder was found, with its code, in the state of the latest block: not in
\* that of the parent, on which the block was executed.
PaidViaForwarder(tx, found) == Forwards(tx) /\ found

\* multisend_paid_amount; `entries' are those multisend_entries yields.  Neither what
\* the Safe calls nor whether its inner call succeeded is looked at.
MultisendPaidAmount(tx) ==
    IF tx.input = "batch" /\ tx.delegate
    THEN FoldLeft(LAMBDA sum, e : IF e.to = "recipient" THEN sum + e.value ELSE sum,
                  0, tx.entries)
    ELSE 0

\* The recipient's balance grew by the value, withdrawals aside.
BalanceCovers(block, value) == block.after >= block.before + block.withdrawn + value

EnsurePayment(block, value, found) ==
    \/ BalanceCovers(block, value)
    \/ /\ block.txs # <<>>
       /\ LET tx == Last(block.txs)
          IN  /\ tx.status
              /\ tx.chain
              /\ PaidDirectly(tx) \/ PaidViaForwarder(tx, found)
              /\ tx.value = value
              /\ tx.tip = 0

\* recognized_payment_at; positions count from 0.
RecognizedPaymentAt(block, found, ix) ==
    IF ix >= Len(block.txs)
    THEN 0
    ELSE LET tx == block.txs[ix + 1]
             contributed == IF PaidDirectly(tx) \/ PaidViaForwarder(tx, found)
                            THEN tx.value
                            ELSE MultisendPaidAmount(tx)
         IN  IF tx.status /\ tx.chain /\ tx.tip = 0 THEN contributed ELSE 0

\* Mutant of EnsureMergedPayment: the base payment is added also when it is the
\* last transaction.
EnsureMergedPaymentTwice(block, value, found, base) ==
    \/ BalanceCovers(block, value)
    \/ /\ block.txs # <<>>
       /\ RecognizedPaymentAt(block, "last" \in found, Len(block.txs) - 1)
              + RecognizedPaymentAt(block, "base" \in found, base) >= value

\* `found' has the positions for which the forwarder was found: each reads it anew.
EnsureMergedPayment(block, value, found, base) ==
    \/ BalanceCovers(block, value)
    \/ /\ block.txs # <<>>
       /\ LET last == Len(block.txs) - 1
              total == RecognizedPaymentAt(block, "last" \in found, last)
                           + IF base # last
                             THEN RecognizedPaymentAt(block, "base" \in found, base)
                             ELSE 0
          IN  total >= value

-----------------------------------------------------------------------------
\* What executing a transaction moves to the recipient: nothing when it fails, and
\* nothing through a forwarder that was not there in the parent.
Credits(tx, deployed) ==
    IF ~tx.status
    THEN 0
    ELSE (IF tx.to = "recipient" \/ (Forwards(tx) /\ deployed) THEN tx.value ELSE 0)
             + (IF tx.moves THEN MultisendPaidAmount(tx) ELSE 0)

\* The block's transactions together move the value to the recipient, or its
\* balance shows it.
PaidInFull(block, value, deployed) ==
    \/ BalanceCovers(block, value)
    \/ MapThenSumSet(LAMBDA i : Credits(block.txs[i], deployed), DOMAIN block.txs) >= value
=============================================================================
