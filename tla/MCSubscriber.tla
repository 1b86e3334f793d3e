---------------------------- MODULE MCSubscriber ----------------------------
(***************************************************************************)
(* A small instance of Subscriber for TLC: a mailbox of one, a message     *)
(* that decodes with two unknown keys and one that does not decode.        *)
(***************************************************************************)
EXTENDS Subscriber

MCKeys == {"envelope.a", "diff.b"}

MCShapes ==
    {[encoding |-> "json", defect |-> "none", unknown |-> MCKeys],
     [encoding |-> "brotli", defect |-> "utf8", unknown |-> {}]}
=============================================================================
