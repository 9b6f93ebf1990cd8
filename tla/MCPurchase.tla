------------------------------ MODULE MCPurchase ------------------------------
(* Instances of Purchase: one order with two lines of different products.    *)
EXTENDS Purchase, TLC

CONSTANTS p1, p2, o1

MCLine         == {1, 2}
MCProduct      == {p1, p2}
MCOrderOf(l)   == o1
MCProductOf(l) == IF l = 1 THEN p1 ELSE p2
MCOrdered(l)   == l
\* Receipts for one of the products each, and for both.
MCDelivery     == {p1 :> 1 @@ p2 :> 0, p1 :> 0 @@ p2 :> 2}
MCFull         == {p1 :> 1 @@ p2 :> 2}

MCSymmetry == Permutations(Req) \union Permutations(Receipt)
=============================================================================
