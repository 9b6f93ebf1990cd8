------------------------------- MODULE Migration -------------------------------
(***************************************************************************)
(* The migration from V4 and its reconciliation (migration/etl_loader.py,  *)
(* transforms.py, reconciliation.py), on the warehouses of this system.    *)
(*                                                                         *)
(* Seven tables are loaded one after the other, row by row, and no others, *)
(* although MAPPING.md lists more.  A row that raises is recorded as an    *)
(* error and skipped; each table ends with a flush, where the database     *)
(* checks its constraints, and which is not caught.  The new key of a row  *)
(* is drawn before the row is known to be good, so that others can refer   *)
(* to a row that was skipped.                                              *)
(*                                                                         *)
(* A source row is [table, id, code, refs, parent, level, good, fits,      *)
(* amount]: code is what a unique constraint of its table is made of, refs *)
(* are required keys, none in a line that cannot be read, and parent a key *)
(* that is only looked up; good is false where the row raises, fits where  *)
(* a column violates NOT NULL or CHECK; of an order the amount is its      *)
(* total, and of an inventory row its quantity.                            *)
(***************************************************************************)
EXTENDS Warehouses, Integers, FiniteSetsExt, SequencesExt

CONSTANTS
    Source      \* the V4 databases that may be migrated: sequences of rows

\* The order of MAPPING.md; lines are loaded with their orders and stocktakes.
Tables == <<"warehouse", "location", "supplier", "order", "inventory", "move", "stocktake">>

TableSet == {Tables[k] : k \in DOMAIN Tables}

LineTables == {"line", "count"}

Key(row) == <<row.table, row.id>>

\* The parent_id of a row that has none.
NoKey == <<"none", NoParent>>

\* V4 numbers its rows table by table; a location names its warehouse.
ASSUME SourceAssumption ==
    \A db \in Source :
        /\ DOMAIN db \subseteq Nat
        /\ \A k \in DOMAIN db : db[k].table # "none"
        /\ \A j, k \in DOMAIN db : Key(db[j]) = Key(db[k]) => j = k
        /\ \A k \in DOMAIN db : db[k].table = "location" =>
               /\ db[k].id \in Place /\ db[k].level \in Level
               /\ db[k].parent \in ({"location"} \X Place) \union {NoKey}
               /\ \E w \in Warehouse : db[k].refs = {<<"warehouse", w>>}

VARIABLES
    v4,         \* the database being migrated
    prior,      \* tables in which another tenant has a row already
    stage,      \* index of the table being loaded; beyond the last when done
    ids,        \* LegacyIdMap: keys that have been drawn
    added,      \* rows given to the session, with the parent they got
    errors,     \* rows counted as errors
    outcome     \* "running", "failed", "loaded", "passed", "rejected"

migrationVars == <<v4, prior, stage, ids, added, errors, outcome>>

MigrationInit ==
    /\ v4 \in Source
    /\ prior \in {{}} \union {{table} : table \in TableSet}
    /\ stage = 1
    /\ ids = {}
    /\ added = {}
    /\ errors = {}
    /\ outcome = "running"

LoadedTables == DOMAIN Tables

\* The lines of an order or a stocktake are built with it; one that raises takes
\* it along.
LinesFor(row) ==
    {k \in DOMAIN v4 : /\ row.table \in {"order", "stocktake"}
                       /\ v4[k].table \in LineTables
                       /\ v4[k].refs = {Key(row)}}

\* LegacyIdMap.require raises for a key that has not been drawn.
Loadable(row) == row.good /\ row.refs \subseteq ids /\ \A k \in LinesFor(row) : v4[k].good

\* The keys a row draws: its own first of all, except where a product and a
\* warehouse are looked up before.
Drawn(row) ==
    IF row.table \in {"inventory", "move"} /\ ~(row.refs \subseteq ids) THEN {} ELSE {Key(row)}

\* LegacyIdMap.get: None for a parent that has not been seen yet.
ParentGiven(row) == IF row.parent \in ids THEN row.parent ELSE NoKey

RowsOf(table) == {k \in DOMAIN v4 : v4[k].table = table}

\* Rows of the table being loaded that the loop has not come to.
Left == RowsOf(Tables[stage]) \ (errors \union {a.row : a \in added})

\* One round of the loop of a table.
LoadRow ==
    /\ outcome = "running"
    /\ stage \in LoadedTables
    /\ Left # {}
    /\ LET next == Min(Left)
           row  == v4[next]
       IN  /\ ids' = ids \union Drawn(row)
           /\ added' = IF Loadable(row)
                       THEN added \union {[row |-> next, parent |-> ParentGiven(row)]} ELSE added
           /\ errors' = IF Loadable(row) THEN errors ELSE errors \union {next}
    /\ UNCHANGED <<v4, prior, stage, outcome, warehouseVars>>

AddedKeys == {Key(v4[a.row]) : a \in added}

\* Foreign keys of what has been added, those of parents too.
KeysHold ==
    \A a \in added : /\ v4[a.row].refs \subseteq AddedKeys
                     /\ a.parent # NoKey => a.parent \in AddedKeys

\* The rows the database gets, with the lines that go along.
Given == {a.row : a \in added} \union UNION {LinesFor(v4[a.row]) : a \in added}

ColumnsHold == \A k \in Given : v4[k].fits

SameCode(j, k) == j # k /\ <<v4[j].table, v4[j].code>> = <<v4[k].table, v4[k].code>>

CodesAreUnique == \A j, k \in Given : ~SameCode(j, k)

\* Lines are grouped by what they belong to before the first order and before the
\* first stocktake, outside of any try.
LinesGrouped(lines) == \A k \in RowsOf(lines) : v4[k].refs # {}

Passes ==
    /\ KeysHold /\ ColumnsHold /\ CodesAreUnique
    /\ Tables[stage] = "supplier" => LinesGrouped("line")
    /\ Tables[stage] = "move" => LinesGrouped("count")

\* flush() at the end of a table, and the grouping of lines for the next one
Flush ==
    /\ outcome = "running"
    /\ stage \in LoadedTables
    /\ Left = {}
    /\ Passes
    /\ stage' = stage + 1
    /\ UNCHANGED <<v4, prior, ids, added, errors, outcome, warehouseVars>>

\* A constraint or the grouping fails: the exception leaves run() and everything
\* is rolled back.
FlushFails ==
    /\ outcome = "running"
    /\ stage \in LoadedTables
    /\ Left = {}
    /\ ~Passes
    /\ outcome' = "failed"
    /\ added' = {}
    /\ UNCHANGED <<v4, prior, stage, ids, errors, warehouseVars>>

MigratedPlaces ==
    {[id |-> v4[a.row].id, warehouse |-> (CHOOSE k \in v4[a.row].refs : TRUE)[2],
      level |-> v4[a.row].level, parent |-> a.parent[2]] :
        a \in {b \in added : v4[b.row].table = "location"}}

\* The caller commits; the locations were not checked by validate_location_hierarchy.
CommitMigration ==
    /\ outcome = "running"
    /\ stage \notin LoadedTables
    /\ outcome' = "loaded"
    /\ warehouses' = warehouses \union
           {v4[a.row].id : a \in {b \in added : v4[b.row].table = "warehouse"}}
    /\ locations' = locations \union MigratedPlaces
    /\ UNCHANGED <<v4, prior, stage, ids, added, errors>>

-----------------------------------------------------------------------------
(* run_reconciliation                                                        *)

AddedOf(table) == {a.row : a \in added} \intersect RowsOf(table)

AmountOf(rows) == MapThenSumSet(LAMBDA k : v4[k].amount, rows)

\* The rows of the source against those of the table, of whatever tenant.
CountsAgree ==
    \A k \in LoadedTables :
        Cardinality(RowsOf(Tables[k])) =
            Cardinality(AddedOf(Tables[k])) + Cardinality(prior \intersect {Tables[k]})

AmountsAgree ==
    \A table \in {"order", "inventory"} : AmountOf(RowsOf(table)) = AmountOf(AddedOf(table))

\* Mutant: the errors of the loader are reported but not checked.
MutantNoErrors == TRUE

NoErrors == errors = {}

\* The checks, of which that of the flow compares V4 with itself and may reject
\* anything, and those for orphans find nothing that a foreign key has let pass.
Reconcile ==
    /\ outcome = "loaded"
    /\ \/ CountsAgree /\ AmountsAgree /\ NoErrors /\ outcome' = "passed"
       \/ outcome' = "rejected"
    /\ UNCHANGED <<v4, prior, stage, ids, added, errors, warehouseVars>>

\* Locations are added once a migration is over.
UseWarehouses == outcome # "running" /\ WarehouseNext /\ UNCHANGED migrationVars

MigrationNext ==
    \/ LoadRow
    \/ Flush
    \/ FlushFails
    \/ CommitMigration
    \/ Reconcile
    \/ UseWarehouses

MigrationSpec == WarehouseInit /\ MigrationInit /\ [][MigrationNext]_<<warehouseVars, migrationVars>>

-----------------------------------------------------------------------------
\* Where a V4 row stands before the one it has as its parent, or refers to one
\* that was skipped, the tree is not what it was.
OutOfOrder ==
    \E j, k \in DOMAIN v4 : /\ v4[j].table = "location"
                            /\ v4[j].parent = Key(v4[k])
                            /\ j <= k

\* In V4 the locations of a warehouse hang where their level belongs.
PlacedInV4 ==
    \A k \in DOMAIN v4 : v4[k].table = "location" =>
        IF v4[k].level = "zone" THEN v4[k].parent = NoKey
        ELSE \E j \in DOMAIN v4 : /\ v4[k].parent = Key(v4[j])
                                  /\ v4[j].refs = v4[k].refs
                                  /\ v4[j].level = VALID_PARENT_LEVEL[v4[k].level]

\* A migration that passes the reconciliation has taken over every row of the
\* tables it loads, and every line whose order or stocktake is in the source.
\* Of the other tables of MAPPING.md it has taken over nothing, and says nothing.
PassedIsComplete ==
    outcome = "passed" =>
        /\ \A k \in LoadedTables : AddedOf(Tables[k]) = RowsOf(Tables[k])
        /\ \A lines \in LineTables : \A k \in RowsOf(lines) : v4[k].refs \subseteq AddedKeys \/
               \A o \in RowsOf("order") \union RowsOf("stocktake") : v4[k].refs # {Key(v4[o])}

\* A bad row is skipped and the rest is loaded: the load fails only where a row
\* refers to one that was skipped, where one that was not violates a constraint
\* of its table, alone or with another, or where a line cannot be read.
FailsForAReason ==
    outcome = "failed" =>
        \/ \E e \in errors, k \in DOMAIN v4 \ errors :
                Key(v4[e]) \in v4[k].refs \union {v4[k].parent}
        \/ \E k \in DOMAIN v4 \ errors : ~v4[k].fits \/ \E j \in DOMAIN v4 \ errors : SameCode(j, k)
        \/ \E lines \in LineTables : ~LinesGrouped(lines)

\* The location tree of every warehouse shows each of its locations, whether it
\* was created here or migrated.
TreeShowsAll == \A w \in Warehouse : Shown(w) = LocationsOf(w)

\* Locations hang where their level belongs, unless the migration brought them
\* from rows that did not or that were out of order, which nothing checks.
PlacedUnlessOutOfOrder ==
    (outcome \in {"running", "failed"} \/ (PlacedInV4 /\ ~OutOfOrder)) =>
        \A l \in locations : WellPlaced(l)

\* A migration leaves nothing of its tables behind unnoticed and fails for no
\* other reason.
MigrationIsWhole == PassedIsComplete /\ FailsForAReason

\* Every location is shown, and where its level belongs.
TreeIsSound == TreeShowsAll /\ PlacedUnlessOutOfOrder
=============================================================================
