-------------------------------- MODULE Feed --------------------------------
(***************************************************************************)
(* What the flashblocks state may assume of the feed, whatever connections *)
(* come and go below it: flashblocks are handed over in the order they     *)
(* were streamed and none is handed over twice, but any may be missing.    *)
(*                                                                         *)
(* Flashblocks are numbered in the order the builder streams them.         *)
(***************************************************************************)
EXTENDS Integers

VARIABLES
    sent,       \* number of flashblocks streamed
    last,       \* the flashblock handed over last, 0 before the first
    handed      \* how often a flashblock was handed over

feedVars == <<sent, last, handed>>

Init == sent = 0 /\ last = 0 /\ handed = 0

Stream == sent' = sent + 1 /\ UNCHANGED <<last, handed>>

HandOver ==
    /\ last' \in last + 1 .. sent
    /\ handed' = handed + 1
    /\ UNCHANGED sent

Next == Stream \/ HandOver

Spec == Init /\ [][Next]_feedVars
=============================================================================
