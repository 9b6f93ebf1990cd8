--------------------------- MODULE ProductStructure ---------------------------
(***************************************************************************)
(* Products with their versions, bills of material, routings, CAD files    *)
(* and engineering change notices (product_service.py, bom_service.py,     *)
(* routing_service.py, ecn_service.py, cad_service.py).                    *)
(*                                                                         *)
(* A new version is written in several statements: the version is read,    *)
(* the rows marked as current are cleared, the new row is inserted and the *)
(* product updated, then BOM and routing of the old version are copied.    *)
(* A component is added after a search of everything below it.  A file     *)
(* goes to the object store before its row goes to the database.           *)
(***************************************************************************)
EXTENDS Integers, Sequences, FiniteSets, Functions

CONSTANTS
    PlmReq,             \* database sessions open at once
    Product, Ecn,       \* products, engineering change notices
    EcnProduct(_),      \* the product a notice is about
    Operation,          \* operations of a routing
    File, Content,      \* names and contents of CAD files
    FirstBom,           \* versions for which a BOM or routing is made by hand
    MaxVersion,         \* bound on the version number
    Item                \* quantities, scrap included, and unit costs of lines

\* The unit_cost of a line that has none, and the cost of a bill without any.
Unknown == -1

ASSUME EcnAssumption ==
    Ecn \intersect {"initial", "request"} = {} /\ \A e \in Ecn : EcnProduct(e) \in Product
ASSUME ProductAssumption == IsFiniteSet(Product)
ASSUME ItemAssumption == Item \subseteq [quantity : Nat \ {0}, cost : Nat \union {Unknown}]
ASSUME VersionAssumption == MaxVersion \in Nat \ {0} /\ FirstBom \subseteq 1 .. MaxVersion

VARIABLES
    current,    \* Product.current_version as a number, 0 before it is created
    versions,   \* rows of product_versions, by product in the order of commits
    boms,       \* bills of material, as <<product, version>>
    newest,     \* version of the BOM with the latest created_at, 0 if none
    parts,      \* rows of bom_items, numbered within their bill
    routings,   \* routings, as <<product, version>>
    work,       \* rows of routing_operations, as <<routing, operation>>
    ecn,        \* ECN.status
    objects,    \* the object store: contents by object key
    files,      \* rows of cad_attachments, as <<object key, checksum>>
    editing,    \* sessions at work
    crossed,    \* history: two sessions added components at the same time
    overtaken   \* history: products a version of which was made from a stale one

structureTables ==
    <<current, versions, boms, newest, parts, routings, work, ecn, objects, files>>
structureVars == <<structureTables, editing, crossed, overtaken>>

ECN_TRANSITIONS ==
    [draft |-> {"reviewing"}, reviewing |-> {"approved", "draft"},
     approved |-> {"released"}, released |-> {"effective"}, effective |-> {}]

EcnStatus == {"none"} \union DOMAIN ECN_TRANSITIONS

Bill == Product \X (1 .. MaxVersion)

VersionRow == [number : 1 .. MaxVersion, current : BOOLEAN,
               cause : {"initial", "request"} \union Ecn]

StructureInit ==
    /\ current = [p \in Product |-> 0]
    /\ versions = [p \in Product |-> <<>>]
    /\ boms = {}
    /\ newest = [p \in Product |-> 0]
    /\ parts = {}
    /\ routings = {}
    /\ work = {}
    /\ ecn = [e \in Ecn |-> "none"]
    /\ objects = <<>>
    /\ files = {}
    /\ editing = {}
    /\ crossed = FALSE
    /\ overtaken = {}

Resting(r) == \A s \in editing : s.by # r
Opens(s)   == editing' = editing \union {s}
Goes(s, t) == editing' = (editing \ {s}) \union {t}

-----------------------------------------------------------------------------
(* create_product, create_bom, create_routing, add_operation, create_ecn:    *)
(* their rows cannot be seen before the commit.                              *)

CreateProduct(p) ==
    /\ current[p] = 0
    /\ current' = [current EXCEPT ![p] = 1]
    /\ versions' = [versions EXCEPT
                        ![p] = <<[number |-> 1, current |-> TRUE, cause |-> "initial"]>>]
    /\ UNCHANGED <<boms, newest, parts, routings, work, ecn, objects, files,
                   editing, crossed, overtaken>>

\* A session that has inserted a copy holds its key in the unique index.
Inserting(b) == \E s \in editing : s.stage = "copied" /\ s.bill /\ b = <<s.product, s.saw + 1>>

\* created_at is when the transaction began, which is not the order of commits:
\* the bill that is committed may be the latest or stay behind the one that was.
Latest(b) ==
    {[newest EXCEPT ![b[1]] = v] : v \in {b[2]} \union ({newest[b[1]]} \ {0})}

CreateBom(b) ==
    /\ current[b[1]] > 0
    /\ b[2] \in FirstBom
    /\ b \notin boms
    /\ ~Inserting(b)
    /\ boms' = boms \union {b}
    /\ newest' \in Latest(b)
    /\ UNCHANGED <<current, versions, parts, routings, work, ecn, objects, files,
                   editing, crossed, overtaken>>

CreateRouting(b) ==
    /\ current[b[1]] > 0
    /\ b[2] \in FirstBom
    /\ b \notin routings
    /\ \A s \in editing : s.stage = "copied" /\ s.route => b # <<s.product, s.saw + 1>>
    /\ routings' = routings \union {b}
    /\ UNCHANGED <<current, versions, boms, newest, parts, work, ecn, objects, files,
                   editing, crossed, overtaken>>

AddOperation(b, o) ==
    /\ b \in routings
    /\ work' = work \union {<<b, o>>}
    /\ UNCHANGED <<current, versions, boms, newest, parts, routings, ecn, objects, files,
                   editing, crossed, overtaken>>

CreateEcn(e) ==
    /\ ecn[e] = "none"
    /\ current[EcnProduct(e)] > 0
    /\ ecn' = [ecn EXCEPT ![e] = "draft"]
    /\ UNCHANGED <<current, versions, boms, newest, parts, routings, work, objects, files,
                   editing, crossed, overtaken>>

-----------------------------------------------------------------------------
(* add_bom_item                                                              *)

Edges == {<<y.bill[1], y.part>> : y \in parts}

\* Mutant: only the direct components are looked at.
MutantBelow(c) == {c} \union {e[2] : e \in {d \in Edges : d[1] = c}}

\* _collect_child_product_ids, over the bills of all versions.
Below(c) ==
    LET Visited[n \in Nat] ==
            IF n = 0 THEN {c}
            ELSE Visited[n - 1] \union {e[2] : e \in {d \in Edges : d[1] \in Visited[n - 1]}}
    IN  Visited[Cardinality(Product)]

\* check_cycle
NoCycle(p, c) == c # p /\ p \notin Below(c)

BeginAddPart(r, b, c, i) ==
    /\ Resting(r)
    /\ b \in boms
    /\ current[c] > 0
    /\ NoCycle(b[1], c)
    /\ Opens([by |-> r, stage |-> "adding", bill |-> b, part |-> c, item |-> i, edges |-> Edges])
    /\ UNCHANGED <<structureTables, crossed, overtaken>>

\* Nothing forbids two lines with the same component in a bill.
NextNo(b) == Cardinality({y \in parts : y.bill = b}) + 1

CommitAddPart(s) ==
    /\ s.stage = "adding"
    /\ parts' = parts \union {[bill |-> s.bill, no |-> NextNo(s.bill), part |-> s.part,
                               quantity |-> s.item.quantity, cost |-> s.item.cost]}
    /\ crossed' = (crossed \/ s.edges # Edges)
    /\ editing' = editing \ {s}
    /\ UNCHANGED <<current, versions, boms, newest, routings, work, ecn, objects, files, overtaken>>

-----------------------------------------------------------------------------
(* transition_ecn and create_version                                         *)

\* The product is loaded with the notice, and not again when it is applied.
BeginEcn(r, e, to) ==
    /\ Resting(r)
    /\ ecn[e] # "none"
    /\ to \in ECN_TRANSITIONS[ecn[e]]
    /\ to = "effective" => current[EcnProduct(e)] < MaxVersion
    /\ Opens([by |-> r, stage |-> "moving", ecn |-> e, to |-> to, saw |-> current[EcnProduct(e)]])
    /\ UNCHANGED <<structureTables, crossed, overtaken>>

\* From its first flush on a session that applies a notice holds its row.
EcnLocked(e) == \E s \in editing : s.stage \notin {"adding", "moving", "stored"} /\ s.cause = e

CommitEcn(s) ==
    /\ s.stage = "moving"
    /\ s.to # "effective"
    /\ ~EcnLocked(s.ecn)
    /\ ecn' = [ecn EXCEPT ![s.ecn] = s.to]
    /\ editing' = editing \ {s}
    /\ UNCHANGED <<current, versions, boms, newest, parts, routings, work, objects, files,
                   crossed, overtaken>>

\* _apply_ecn
ApplyEcn(s) ==
    /\ s.stage = "moving"
    /\ s.to = "effective"
    /\ ~EcnLocked(s.ecn)
    /\ Goes(s, [by |-> s.by, stage |-> "begun", product |-> EcnProduct(s.ecn),
                cause |-> s.ecn, saw |-> s.saw])
    /\ UNCHANGED <<structureTables, crossed, overtaken>>

BeginVersion(r, p) ==
    /\ Resting(r)
    /\ current[p] \in 1 .. MaxVersion - 1
    /\ Opens([by |-> r, stage |-> "begun", product |-> p, cause |-> "request", saw |-> current[p]])
    /\ UNCHANGED <<structureTables, crossed, overtaken>>

Current(p) == {k \in DOMAIN versions[p] : versions[p][k].current}

\* The UPDATE that clears is_current sees the rows committed when it starts.
ClearCurrent(s) ==
    /\ s.stage = "begun"
    /\ Goes(s, [by |-> s.by, stage |-> "clearing", product |-> s.product, cause |-> s.cause,
                saw |-> s.saw, rows |-> Current(s.product)])
    /\ UNCHANGED <<structureTables, crossed, overtaken>>

Holds(t, p) == t.stage = "copied" /\ t.product = p

\* deep_copy_bom: the lines of the old bill.
CopiedParts(old) == {y \in parts : y.bill = old}

\* deep_copy_routing: the operations of the old routing.
CopiedWork(old) == {x[2] : x \in {y \in work : y[1] = old}}

\* After waiting for the product's row.
Copy(s) ==
    LET old  == <<s.product, s.saw>>
        bill == old \in boms
        way  == old \in routings
        new  == <<s.product, s.saw + 1>>
    IN  /\ s.stage = "clearing"
        /\ \A t \in editing : ~Holds(t, s.product)
        /\ bill => new \notin boms
        /\ way => new \notin routings
        /\ Goes(s, [by |-> s.by, stage |-> "copied", product |-> s.product, cause |-> s.cause,
                    saw |-> s.saw, rows |-> s.rows, bill |-> bill, route |-> way,
                    parts |-> CopiedParts(old), work |-> CopiedWork(old)])
        /\ UNCHANGED <<structureTables, crossed, overtaken>>

\* Mutant: the old rows stay marked as current.
MutantCleared(s) == versions[s.product]

Cleared(s) ==
    [k \in DOMAIN versions[s.product] |->
        IF k \in s.rows THEN [versions[s.product][k] EXCEPT !.current = FALSE]
        ELSE versions[s.product][k]]

CommitVersion(s) ==
    LET p   == s.product
        new == <<p, s.saw + 1>>
    IN  /\ s.stage = "copied"
        /\ versions' = [versions EXCEPT ![p] =
               Append(Cleared(s), [number |-> s.saw + 1, current |-> TRUE, cause |-> s.cause])]
        /\ current' = [current EXCEPT ![p] = s.saw + 1]
        /\ boms' = IF s.bill THEN boms \union {new} ELSE boms
        /\ IF s.bill THEN newest' \in Latest(new) ELSE newest' = newest
        /\ parts' = parts \union {[y EXCEPT !.bill = new] : y \in s.parts}
        /\ routings' = IF s.route THEN routings \union {new} ELSE routings
        /\ work' = work \union {<<new, o>> : o \in s.work}
        /\ ecn' = IF s.cause \in Ecn THEN [ecn EXCEPT ![s.cause] = "effective"] ELSE ecn
        /\ overtaken' = IF current[p] = s.saw /\ s.rows = Current(p)
                        THEN overtaken ELSE overtaken \union {p}
        /\ editing' = editing \ {s}
        /\ UNCHANGED <<objects, files, crossed>>

-----------------------------------------------------------------------------
(* upload_cad                                                                *)

Stored(k, x) == [key \in DOMAIN objects \union {k} |-> IF key = k THEN x ELSE objects[key]]

\* object_key is made of product, current version and file name.
BeginUpload(r, p, f, x) ==
    LET key == <<p, current[p], f>>
    IN  /\ Resting(r)
        /\ current[p] > 0
        /\ objects' = Stored(key, x)
        /\ Opens([by |-> r, stage |-> "stored", key |-> key, sum |-> x])
        /\ UNCHANGED <<current, versions, boms, newest, parts, routings, work, ecn, files,
                       crossed, overtaken>>

\* object_key is unique.
CommitUpload(s) ==
    /\ s.stage = "stored"
    /\ \A a \in files : a[1] # s.key
    /\ files' = files \union {<<s.key, s.sum>>}
    /\ editing' = editing \ {s}
    /\ UNCHANGED <<current, versions, boms, newest, parts, routings, work, ecn, objects,
                   crossed, overtaken>>

StructureRollback(s) ==
    /\ editing' = editing \ {s}
    /\ UNCHANGED <<structureTables, crossed, overtaken>>

StructureNext ==
    \/ \E p \in Product : CreateProduct(p)
    \/ \E b \in Bill : CreateBom(b)
    \/ \E b \in Bill : CreateRouting(b)
    \/ \E b \in Bill, o \in Operation : AddOperation(b, o)
    \/ \E e \in Ecn : CreateEcn(e)
    \/ \E r \in PlmReq, b \in Bill, c \in Product, i \in Item : BeginAddPart(r, b, c, i)
    \/ \E s \in editing : CommitAddPart(s)
    \/ \E r \in PlmReq, e \in Ecn, to \in EcnStatus : BeginEcn(r, e, to)
    \/ \E s \in editing : CommitEcn(s)
    \/ \E s \in editing : ApplyEcn(s)
    \/ \E r \in PlmReq, p \in Product : BeginVersion(r, p)
    \/ \E s \in editing : ClearCurrent(s)
    \/ \E s \in editing : Copy(s)
    \/ \E s \in editing : CommitVersion(s)
    \/ \E r \in PlmReq, p \in Product, f \in File, x \in Content : BeginUpload(r, p, f, x)
    \/ \E s \in editing : CommitUpload(s)
    \/ \E s \in editing : StructureRollback(s)

StructureSpec == StructureInit /\ [][StructureNext]_structureVars

-----------------------------------------------------------------------------
(* rollup_cost                                                               *)

\* get_bom_by_product without a version: the bill created last.
Lines(p) == {y \in parts : y.bill = <<p, newest[p]>>}

\* What one unit of a line costs: the bill of its component, else its own price.
LineCost(y, below) == IF below[y.part] # Unknown THEN below[y.part] ELSE y.cost

\* The cost of a bill from what its components cost.  A line that has no cost is
\* left out, and only where none has one is the cost unknown; the docstring
\* has it that the cost is None as soon as one leaf has no price.
BillCost(p, below) ==
    LET priced == {y \in Lines(p) : LineCost(y, below) # Unknown}
    IN  IF priced = {} THEN Unknown
        ELSE SumFunction([y \in priced |-> y.quantity * LineCost(y, below)])

\* The cost of a bill, down to n levels.
Rollup[n \in Nat] ==
    [p \in Product |-> IF n = 0 THEN Unknown ELSE BillCost(p, Rollup[n - 1])]

\* Reference: explode the structure from the top, level by level, and price
\* what is bought, which is what has no bill with a cost in it.
Depth == Cardinality(Product)
Made  == {p \in Product : Rollup[Depth][p] # Unknown}

\* How many of a component the lines of a product ask for.
Takes(m, c) == SumFunction([y \in {z \in Lines(m) : z.part = c} |-> y.quantity])

\* What it takes of each product to make some of others.
NeededFor(level) ==
    [c \in Product |-> SumFunction([m \in Made |-> level[m] * Takes(m, c)])]

\* How many of each product go into one of p, itself included.
Demand(p) ==
    LET Level[n \in Nat] ==
            IF n = 0 THEN [c \in Product |-> IF c = p THEN 1 ELSE 0] ELSE NeededFor(Level[n - 1])
    IN  [c \in Product |-> SumFunction([n \in 1 .. Depth |-> Level[n - 1][c]])]

BoughtFor(m) == {y \in Lines(m) : y.part \notin Made /\ y.cost # Unknown}

\* What is paid for the bought parts of one of m, line by line.
Purchase(m) == SumFunction([y \in BoughtFor(m) |-> y.quantity * y.cost])

-----------------------------------------------------------------------------
\* The rows of products and everything that hangs on them.
StructureTypeOK ==
    /\ current \in [Product -> 0 .. MaxVersion]
    /\ versions \in [Product -> Seq(VersionRow)]
    /\ boms \subseteq Bill
    /\ newest \in [Product -> 0 .. MaxVersion]
    /\ IsFiniteSet(parts)
    /\ parts \subseteq [bill : boms, no : Nat, part : Product, quantity : Nat \ {0},
                        cost : Nat \union {Unknown}]
    /\ routings \subseteq Bill
    /\ work \subseteq routings \X Operation
    /\ ecn \in [Ecn -> EcnStatus]
    /\ \A a \in files : a[2] \in Content
    /\ crossed \in BOOLEAN
    /\ overtaken \subseteq Product

\* No product is a part of itself at any depth and in whatever versions, unless
\* two sessions added components at the same time: of any products there is one
\* of which none of them is a component, as in a circle there is not.
NoCycleUnlessCrossed ==
    ~crossed => \A S \in SUBSET Product :
        S # {} => \E p \in S : \A e \in Edges : e[1] = p => e[2] \notin S

\* A product has exactly one current version, the one the product names, unless
\* a version was made from a reading another session had overtaken.
OneCurrentUnlessOvertaken ==
    \A p \in Product \ overtaken : current[p] > 0 =>
        \E k \in DOMAIN versions[p] :
            Current(p) = {k} /\ versions[p][k].number = current[p]

\* A notice that is effective has made a version of its product, whatever the
\* sessions at work on either did: status and version are committed together.
EffectiveHasVersion ==
    \A e \in Ecn : ecn[e] = "effective" =>
        \E k \in DOMAIN versions[EcnProduct(e)] : versions[EcnProduct(e)][k].cause = e

\* Every attachment that is listed can be fetched: the file is in the store
\* before the row is committed, and nothing removes it.
AttachmentIsStored == \A a \in files : a[1] \in DOMAIN objects

\* The rolled up cost of a product is what its structure explodes into: for each
\* product made on the way the bought lines of its bill, each at its own price.
\* Lines without a price count for nothing on both sides.
RollupIsExplosion ==
    ~crossed => \A p \in Made :
        Rollup[Depth][p] = SumFunction([m \in Made |-> Demand(p)[m] * Purchase(m)])

\* A structure can be exploded, with the cost that was rolled up.
StructureIsSound ==
    /\ StructureTypeOK
    /\ NoCycleUnlessCrossed
    /\ RollupIsExplosion

\* A product has the versions its changes made, with their files.
VersionsAreSound ==
    /\ OneCurrentUnlessOvertaken
    /\ EffectiveHasVersion
    /\ AttachmentIsStored
=============================================================================
