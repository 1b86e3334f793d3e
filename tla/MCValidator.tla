---------------------------- MODULE MCValidator -----------------------------
(***************************************************************************)
(* A small instance of Validator for TLC: blocks that pay in each of the   *)
(* recognised ways or too little, that name or read a listed address, that *)
(* leave out transactions of the list, and one for each class of defect.   *)
(***************************************************************************)
EXTENDS Validator, TLC

Tx(to, input, value) ==
    [to |-> to, input |-> input, value |-> value, entries |-> <<>>, delegate |-> TRUE,
     moves |-> TRUE, status |-> TRUE, chain |-> TRUE, tip |-> 0]

Paying(txs) == [before |-> 1, after |-> 1, withdrawn |-> 1, txs |-> txs]

Batch == [Tx("other", "batch", 0) EXCEPT
             !.entries = <<[to |-> "recipient", value |-> 1], [to |-> "other", value |-> 2]>>]

Plain ==
    [version |-> "v5", merged |-> FALSE, base |-> 0, parent |-> 0, defect |-> "none",
     apply |-> TRUE, named |-> {}, accessed |-> {}, list |-> <<>>, value |-> 2,
     block |-> Paying(<<Tx("recipient", "empty", 2)>>)]

Merged(txs) == [Plain EXCEPT !.merged = TRUE, !.version = "v6", !.block = Paying(txs)]

Entry(included, valid) ==
    [included |-> included, decodes |-> TRUE, valid |-> valid]

MCSubmissions ==
    {[Plain EXCEPT !.version = "v4", !.defect = "size", !.named = {"a"}, !.accessed = {"a"}],
     [Plain EXCEPT !.accessed = {"a", "b"}, !.parent = 1],
     [Plain EXCEPT !.list = <<Entry(FALSE, FALSE), Entry(FALSE, TRUE)>>],
     [Plain EXCEPT !.block = Paying(<<Tx("forwarder", "forwards", 2)>>)],
     [Plain EXCEPT !.defect = "execution"],
     Merged(<<Tx("recipient", "empty", 1), Batch>>),
     Merged(<<[Batch EXCEPT !.moves = FALSE], Tx("recipient", "empty", 1)>>),
     Merged(<<Tx("recipient", "empty", 1)>>)}

Symmetry == Permutations(Requests)
=============================================================================
