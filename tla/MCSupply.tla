------------------------------- MODULE MCSupply -------------------------------
(* The supply chain in one run: purchases, suppliers, warehouses and their   *)
(* migration from V4.  They share no row but the warehouses, so that their   *)
(* interleavings add nothing: `part` says which of them moves in a behaviour.*)
EXTENDS Purchase, Migration, Suppliers, TLC

CONSTANTS p1, p2, o1

VARIABLE part

MCLine         == {1, 2}
MCProduct      == {p1, p2}
MCOrderOf(l)   == o1
MCProductOf(l) == IF l = 1 THEN p1 ELSE p2
MCOrdered(l)   == l
\* Receipts for one of the products each.
MCDelivery     == {p1 :> 1 @@ p2 :> 0, p1 :> 0 @@ p2 :> 2}

MCTier == {"approved", "preferred", "strategic"}

\* Rows of V4.  A row that is not good raises when it is transformed.
V4Row(table, id, refs, parent, level, good, amount) ==
    [table |-> table, id |-> id, code |-> id, refs |-> refs, parent |-> parent,
     level |-> level, good |-> good, fits |-> TRUE, amount |-> amount]

InW1 == {<<"warehouse", "w1">>}
V4Warehouse(good) == V4Row("warehouse", "w1", {}, NoKey, "", good, 0)
V4Zone(good)      == V4Row("location", "z1", InW1, NoKey, "zone", good, 0)
V4Aisle           == V4Row("location", "a1", InW1, <<"location", "z1">>, "aisle", TRUE, 0)
V4Supplier(good)  == V4Row("supplier", "s1", {}, NoKey, "", good, 0)
V4Order(good)     == V4Row("order", "o1", {<<"supplier", "s1">>}, NoKey, "", good, 2)
V4Line(of, good)  == V4Row("line", "l1", of, NoKey, "", good, 0)
V4Count(of, good) == V4Row("count", "n1", of, NoKey, "", good, 0)
V4Stock           == <<V4Row("inventory", "i1", InW1, NoKey, "", TRUE, 3),
                       V4Row("move", "v1", InW1, NoKey, "", TRUE, 3),
                       V4Row("stocktake", "t1", InW1, NoKey, "", TRUE, 0)>>

V4(g, places, h, k, line) ==
    <<V4Warehouse(g)>> \o places \o <<V4Supplier(h), V4Order(k), line>> \o V4Stock

V4LineOf(good) == V4Line({<<"order", "o1">>}, good)

\* One row more: a count that is good, bad, of no stocktake that is there, or
\* unreadable; a warehouse with the code of another; a supplier that violates a
\* column; and a row of a table that is not loaded.
V4Extra ==
    {V4Count({<<"stocktake", "t1">>}, TRUE), V4Count({<<"stocktake", "t1">>}, FALSE),
     V4Count({<<"stocktake", "t9">>}, TRUE), V4Count({}, TRUE),
     [V4Warehouse(TRUE) EXCEPT !.id = "w2"],
     [V4Supplier(TRUE) EXCEPT !.id = "s2", !.code = "s2", !.fits = FALSE],
     V4Row("request", "r1", {}, NoKey, "", TRUE, 0)}

\* A zone and its aisle in either order, or no aisle; a line of the order, a bad
\* line, a line of an order that is not there, and a line of none.
MCSource ==
    {V4(g, places, h, k, line) :
        g \in BOOLEAN, h \in BOOLEAN, k \in BOOLEAN,
        places \in UNION {{<<V4Zone(z), V4Aisle>>, <<V4Aisle, V4Zone(z)>>, <<V4Zone(z)>>} :
                              z \in BOOLEAN},
        line \in {V4LineOf(TRUE), V4LineOf(FALSE), V4Line({<<"order", "o9">>}, TRUE),
                  V4Line({}, TRUE)}}
    \union
    {V4(TRUE, <<V4Zone(TRUE), V4Aisle>>, TRUE, TRUE, V4LineOf(TRUE)) \o <<extra>> :
        extra \in V4Extra}

MCInit ==
    /\ Init
    /\ SupplierInit
    /\ WarehouseInit
    /\ MigrationInit
    /\ part \in {"purchases", "suppliers", "warehouses", "migration"}
    \* One source is enough where nothing is migrated.
    /\ part # "migration" => prior = {} /\ v4 = CHOOSE s \in MCSource : TRUE

MCNext ==
    /\ UNCHANGED part
    /\ \/ part = "purchases" /\ Next /\ UNCHANGED <<supplierVars, warehouseVars, migrationVars>>
       \/ part = "suppliers" /\ SupplierNext /\ UNCHANGED <<vars, warehouseVars, migrationVars>>
       \/ part = "warehouses" /\ WarehouseNext /\ UNCHANGED <<vars, supplierVars, migrationVars>>
       \/ /\ part = "migration" /\ MigrationNext
          /\ UNCHANGED <<vars, supplierVars>>
       \* Locations are added to what has been migrated.
       \/ /\ part = "migration" /\ outcome # "running" /\ WarehouseNext
          /\ UNCHANGED <<vars, supplierVars, migrationVars>>

MCSpec == MCInit /\ [][MCNext]_<<vars, supplierVars, warehouseVars, migrationVars, part>>

\* The parts use the same requests.
MCSymmetry == Permutations(Req) \union Permutations(Receipt)
=============================================================================
