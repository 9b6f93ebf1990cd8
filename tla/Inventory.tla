------------------------------ MODULE Inventory ------------------------------
(***************************************************************************)
(* Stock on hand and the stock moves that justify it (supply chain lane:   *)
(* services/inventory_service.py, models/inventory.py).                    *)
(*                                                                         *)
(* Every HTTP request runs in a database session of its own, which is      *)
(* committed after the handler returns and rolled back when it raises.     *)
(* The service SELECTs the inventory row, computes in Python and flushes   *)
(* an UPDATE that sets the one column it changed to an absolute value; no  *)
(* row is locked by the SELECT and no version is compared.  A request is   *)
(* therefore two steps here: Begin... reads the row and checks the guards, *)
(* Commit... writes what was computed from that reading.                   *)
(***************************************************************************)
EXTENDS Integers

CONSTANTS
    Req,        \* database sessions that can be open at once
    Item,       \* keys (tenant, product, warehouse, batch) of inventory rows
    Qty,        \* quantities a caller may ask for
    MaxOnHand,  \* bound: no request plans an on_hand beyond it
    MaxBooked   \* bound: the signed sum of the moves of an item stays within it

\* The request schemas declare every quantity gt=0.
ASSUME QtyAssumption == Qty \subseteq Nat \ {0}
ASSUME BoundAssumption == MaxOnHand \in Nat /\ MaxBooked \in Nat

VARIABLES
    present,    \* items that have an inventory row
    on_hand,    \* Inventory.on_hand, 0 while there is no row
    reserved,   \* Inventory.reserved, 0 while there is no row
    booked,     \* signed sum of the committed StockMoves of each item
    open,       \* sessions between their SELECT and their COMMIT
    lost,       \* history: items of which a COMMIT overwrote an on_hand it had not read
    uncovered   \* history: items issued below what was reserved, or of which a
                \* reservation was computed from an old row

history == <<lost, uncovered>>
invVars == <<present, on_hand, reserved, booked, open, history>>

InboundTypes  == {"purchase_receipt", "production_receipt", "adjustment_in"}
OutboundTypes == {"sales_issue", "production_issue", "scrap", "adjustment_out"}
MoveTypes     == InboundTypes \union OutboundTypes \union {"transfer", "adjustment"}

\* What a move of this type does to on_hand.  A transfer is only taken from
\* its source row, a plain adjustment always adds.
Signed(type, qty) ==
    IF type \in InboundTypes \union {"adjustment"} THEN qty ELSE -qty

\* A session remembers the row as its SELECT saw it and the change it plans.
Session == [by : Req, kind : {"move", "reserve"}, item : Item, delta : Int,
            sawRow : BOOLEAN, sawOnHand : Int, sawReserved : Int]

Reading(r, kind, i, delta) ==
    [by |-> r, kind |-> kind, item |-> i, delta |-> delta,
     sawRow |-> i \in present, sawOnHand |-> on_hand[i], sawReserved |-> reserved[i]]

Free(r) == \A s \in open : s.by # r

\* Mutant: the property available forgets what is reserved.
MutantAvailable(i) == on_hand[i]

\* Inventory.available
Available(i) == on_hand[i] - reserved[i]

\* Mutant: _get_or_create does not add the new row to the session.
MutantWithRow(i) == present

\* _get_or_create: the rows there are once item i has been moved.
WithRow(i) == present \union {i}

InvInit ==
    /\ present = {}
    /\ on_hand = [i \in Item |-> 0]
    /\ reserved = [i \in Item |-> 0]
    /\ booked = [i \in Item |-> 0]
    /\ open = {}
    /\ lost = {}
    /\ uncovered = {}

-----------------------------------------------------------------------------
(* Handlers up to their last read.  A failed guard raises, the session is    *)
(* rolled back and nothing changes, so the step is simply not taken.         *)

Opened(s) ==
    /\ open' = open \union {s}
    /\ UNCHANGED <<present, on_hand, reserved, booked, history>>

\* Mutant: the stock check of create_move does not cover a transfer.
MutantEnough(type, i, qty) == type \in OutboundTypes => on_hand[i] >= qty

\* "Insufficient stock": checked when stock leaves the row.
Enough(type, i, qty) ==
    type \in OutboundTypes \union {"transfer"} => on_hand[i] >= qty

\* create_move.
BeginMove(r, type, i, qty) ==
    /\ Free(r)
    /\ Enough(type, i, qty)
    /\ on_hand[i] + Signed(type, qty) <= MaxOnHand
    /\ Opened(Reading(r, "move", i, Signed(type, qty)))

\* receive_stock (POST /inventory/receive) and issue_material (POST
\* /inventory/issue) are create_move with a fixed type.
ReceiveStock(r, i, qty)  == BeginMove(r, "purchase_receipt", i, qty)
IssueMaterial(r, i, qty) == BeginMove(r, "production_issue", i, qty)

BeginReserve(r, i, qty) ==
    /\ Free(r)
    /\ i \in present
    /\ Available(i) >= qty
    /\ Opened(Reading(r, "reserve", i, qty))

BeginUnreserve(r, i, qty) ==
    /\ Free(r)
    /\ i \in present
    /\ reserved[i] >= qty
    /\ Opened(Reading(r, "reserve", i, -qty))

-----------------------------------------------------------------------------
(* COMMIT, or the end of a session that failed.                              *)

\* The row is no longer what the session read.
StaleOnHand(s)   == s.sawOnHand # on_hand[s.item]
StaleReserved(s) == s.sawReserved # reserved[s.item]

Mark(items, i, cond) == IF cond THEN items \union {i} ELSE items

\* The INSERT of a missing row fails on uq_inv_tenant_prod_wh_batch when
\* another session has inserted it meanwhile.
DuplicateRow(s) == ~s.sawRow /\ s.item \in present

CommitMove(s) ==
    LET left == s.sawOnHand + s.delta
    IN  /\ s.kind = "move"
        /\ ~DuplicateRow(s)
        /\ booked[s.item] + s.delta \in -MaxBooked..MaxBooked
        /\ present' = WithRow(s.item)
        /\ on_hand' = [on_hand EXCEPT ![s.item] = left]
        /\ booked' = [booked EXCEPT ![s.item] = @ + s.delta]
        /\ open' = open \ {s}
        /\ lost' = Mark(lost, s.item, StaleOnHand(s))
        /\ uncovered' = Mark(uncovered, s.item, s.delta < 0 /\ left < reserved[s.item])
        /\ UNCHANGED reserved

\* Mutant: the UPDATE writes the whole row and not only what has changed.
MutantCommitReserve(s) ==
    /\ s.kind = "reserve"
    /\ reserved' = [reserved EXCEPT ![s.item] = s.sawReserved + s.delta]
    /\ on_hand' = [on_hand EXCEPT ![s.item] = s.sawOnHand]
    /\ open' = open \ {s}
    /\ uncovered' = Mark(uncovered, s.item, StaleOnHand(s) \/ StaleReserved(s))
    /\ UNCHANGED <<present, booked, lost>>

\* reserve and unreserve write no StockMove.
CommitReserve(s) ==
    /\ s.kind = "reserve"
    /\ reserved' = [reserved EXCEPT ![s.item] = s.sawReserved + s.delta]
    /\ open' = open \ {s}
    /\ uncovered' = Mark(uncovered, s.item, StaleOnHand(s) \/ StaleReserved(s))
    /\ UNCHANGED <<present, on_hand, booked, lost>>

\* An exception in the handler, a failed flush or a lost connection: ROLLBACK.
Rollback(s) ==
    /\ open' = open \ {s}
    /\ UNCHANGED <<present, on_hand, reserved, booked, history>>

InvNext ==
    \/ \E r \in Req, type \in MoveTypes, i \in Item, q \in Qty : BeginMove(r, type, i, q)
    \/ \E r \in Req, i \in Item, q \in Qty : ReceiveStock(r, i, q)
    \/ \E r \in Req, i \in Item, q \in Qty : IssueMaterial(r, i, q)
    \/ \E r \in Req, i \in Item, q \in Qty : BeginReserve(r, i, q)
    \/ \E r \in Req, i \in Item, q \in Qty : BeginUnreserve(r, i, q)
    \/ \E s \in open : CommitMove(s)
    \/ \E s \in open : CommitReserve(s)
    \/ \E s \in open : Rollback(s)

InvSpec == InvInit /\ [][InvNext]_invVars

-----------------------------------------------------------------------------
\* The inventory table, the sessions working on it and the history sets; no
\* quantity is kept for an item that has no row.
InvTypeOK ==
    /\ present \subseteq Item
    /\ \A i \in Item \ present : on_hand[i] = 0 /\ reserved[i] = 0
    /\ on_hand \in [Item -> Int]
    /\ reserved \in [Item -> Int]
    /\ booked \in [Item -> Int]
    /\ open \subseteq Session
    /\ lost \subseteq Item
    /\ uncovered \subseteq Item

\* No interleaving of requests drives on_hand or reserved below zero: the
\* "Insufficient stock" and "Cannot unreserve" checks are made on the value
\* that is later written, even when that value is stale.
NonNegative == \A i \in Item : on_hand[i] >= 0 /\ reserved[i] >= 0

\* Every unit on hand is explained by the committed stock moves, as the rule
\* "every stock change goes through a StockMove" of the model demands, unless
\* a session overwrote an on_hand it had not read.
LedgerUnlessLost == \A i \in Item \ lost : on_hand[i] = booked[i]

\* The stock promised by reserve() is there, unless sessions overlapped on the
\* row or a move, whose check looks at on_hand only, took reserved stock.
ReservedCoveredUnlessIssued ==
    \A i \in Item \ (lost \union uncovered) : reserved[i] <= on_hand[i]

\* What the guards of the handlers leave true of a session until it commits,
\* however old its reading has become by then.
GuardsHeld ==
    \A s \in open :
        /\ s.sawOnHand >= 0 /\ s.sawReserved >= 0
        /\ s.kind = "move" => s.sawOnHand + s.delta >= 0
        /\ s.kind = "reserve" =>
              /\ s.item \in present
              /\ s.sawReserved + s.delta >= 0
              /\ s.delta >= 0 => s.sawReserved + s.delta <= s.sawOnHand

\* Inductive: every step from a state that satisfies it leads to another one.
InvIInv ==
    /\ InvTypeOK
    /\ GuardsHeld
    /\ NonNegative
    /\ LedgerUnlessLost
    /\ ReservedCoveredUnlessIssued

\* The ledger rule without exception, as the docstring of StockMove has it:
\* each record stands for one change of the stock.
LedgerExact == \A i \in Item : on_hand[i] = booked[i]
=============================================================================
