------------------------------- MODULE Warehouses -------------------------------
(***************************************************************************)
(* Warehouses with their tree of locations (services/warehouse_service.py, *)
(* models/warehouse.py).                                                   *)
(*                                                                         *)
(* A location is checked against its parent before it is inserted; level   *)
(* and parent never change afterwards.  The tree of a warehouse is built   *)
(* from the list of its locations: one whose parent is not in that list    *)
(* becomes a root.                                                         *)
(***************************************************************************)
EXTENDS Naturals, FiniteSets

CONSTANTS
    Warehouse,
    Place       \* primary keys of locations

VARIABLES
    warehouses, \* rows of warehouses
    locations   \* rows of locations, as [id, warehouse, level, parent]

warehouseVars == <<warehouses, locations>>

Level == {"zone", "aisle", "bin"}

NoParent == "none"

\* Primary keys are UUIDs, and NULL is none of them.
ASSUME PlaceAssumption == IsFiniteSet(Place) /\ NoParent \notin Place

VALID_PARENT_LEVEL == [zone |-> NoParent, aisle |-> "zone", bin |-> "aisle"]

LocationRow == [id : Place, warehouse : Warehouse, level : Level, parent : Place \union {NoParent}]

WarehouseInit == warehouses = {} /\ locations = {}

CreateWarehouse(w) ==
    /\ w \notin warehouses
    /\ warehouses' = warehouses \union {w}
    /\ UNCHANGED locations

\* Mutant: any parent will do as long as there is one.
MutantValidHierarchy(level, parents) ==
    (VALID_PARENT_LEVEL[level] = NoParent) <=> (parents = {})

\* validate_location_hierarchy; no parent or the row of one.
ValidHierarchy(level, parents) ==
    IF VALID_PARENT_LEVEL[level] = NoParent THEN parents = {}
    ELSE \E p \in parents : p.level = VALID_PARENT_LEVEL[level]

CreateLocation(id, w, level, parent) ==
    LET parents == {l \in locations : l.id = parent}
    IN  /\ w \in warehouses
        /\ \A l \in locations : l.id # id
        /\ parent # NoParent => parents # {} /\ \A p \in parents : p.warehouse = w
        /\ ValidHierarchy(level, parents)
        /\ locations' = locations \union
               {[id |-> id, warehouse |-> w, level |-> level, parent |-> parent]}
        /\ UNCHANGED warehouses

WarehouseNext ==
    \/ \E w \in Warehouse : CreateWarehouse(w)
    \/ \E id \in Place, w \in Warehouse, level \in Level, parent \in Place \union {NoParent} :
           CreateLocation(id, w, level, parent)

WarehouseSpec == WarehouseInit /\ [][WarehouseNext]_warehouseVars

-----------------------------------------------------------------------------
(* get_location_tree                                                         *)

LocationsOf(w) == {l \in locations : l.warehouse = w}

Children(w, l) == {k \in LocationsOf(w) : k.parent = l.id}

Roots(w) == {l \in LocationsOf(w) : \A p \in LocationsOf(w) : p.id # l.parent}

\* The nodes of the tree down to depth n.
Shown(w) ==
    LET Nodes[n \in Nat] == IF n = 0 THEN Roots(w)
                            ELSE Nodes[n - 1] \union UNION {Children(w, l) : l \in Nodes[n - 1]}
    IN  Nodes[Cardinality(Place)]

\* The chain of levels above a location is the one its level asks for.
WellPlaced(l) ==
    IF l.level = "zone" THEN l.parent = NoParent
    ELSE \E p \in locations : /\ p.id = l.parent
                              /\ p.warehouse = l.warehouse
                              /\ p.level = VALID_PARENT_LEVEL[l.level]
=============================================================================
