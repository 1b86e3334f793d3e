------------------------ MODULE MCInclusionProducer -------------------------
(***************************************************************************)
(* A small instance of InclusionProducer for TLC: transactions of two      *)
(* sizes, the larger one beyond the limit of a list.                       *)
(***************************************************************************)
EXTENDS InclusionProducer

MCEncodedLength == [t \in Txs |-> IF t = "large" THEN 3 ELSE 1]
=============================================================================
