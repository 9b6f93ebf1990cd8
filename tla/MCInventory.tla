----------------------------- MODULE MCInventory -----------------------------
(* Instances of Inventory small enough to explore: two or three sessions.    *)
EXTENDS Inventory, TLC

MCQty == {1, 2}

\* Sessions are only told apart by their name.
MCSymmetry == Permutations(Req)
=============================================================================
