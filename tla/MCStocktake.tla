----------------------------- MODULE MCStocktake -----------------------------
(* Instances of Stocktake: sessions of both kinds, two counted items.        *)
EXTENDS Stocktake, TLC

MCOneQty == {1}
MCActual == {0, 1}

\* Stocktakes, sessions and items are only told apart by their names.
MCSymmetry == Permutations(Req) \union Permutations(StReq)
                  \union Permutations(St) \union Permutations(Item)
=============================================================================
