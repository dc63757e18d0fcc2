----------------------------- MODULE MCTxnSearch ------------------------------
(***************************************************************************)
(* Instances of TxnSearch for TLC.                                         *)
(***************************************************************************)
EXTENDS TxnSearch

Tree(h, s) == [hit |-> h, inner |-> s]
Leaf(h)    == Tree(h, <<>>)

(* With and without inner transactions, at either depth, matched by the    *)
(* root, by inner transactions only, or not at all.                        *)
Top     == {Leaf(TRUE), Tree(FALSE, <<Leaf(TRUE), Leaf(TRUE)>>),
            Tree(TRUE, <<Tree(FALSE, <<Leaf(TRUE)>>)>>),
            Tree(FALSE, <<Tree(FALSE, <<Leaf(FALSE)>>), Leaf(FALSE)>>)}
Paysets == {<<>>} \cup {<<a, b>> : a \in Top, b \in Top}

SomeBlocks == [payset : Paysets, payout : {"none", "hit", "miss"}]
=============================================================================
