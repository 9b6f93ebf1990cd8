------------------------------ MODULE SalesOrder ------------------------------
(***************************************************************************)
(* Sales orders of the gateway (apps/api_gateway/routers/sales.py).        *)
(*                                                                         *)
(* The handlers commit themselves.  Each reads the order, computes the     *)
(* columns it wants and commits an UPDATE of those that differ from what   *)
(* it read, so that sessions which overlap can mix their columns in one    *)
(* row.  Creating an order is two commits: the order, then its receivable, *)
(* the failure of which is swallowed.                                      *)
(***************************************************************************)
EXTENDS Integers

CONSTANTS
    Req,      \* database sessions open at once
    Order,    \* sales orders
    Total,    \* totals an order may have; without items it is 0
    Amount,   \* amounts of a payment, gt=0
    MaxPaid   \* bound: no session plans a paid_amount beyond it

ASSUME AmountAssumption ==
    Total \subseteq Nat /\ Amount \subseteq Nat \ {0} /\ MaxPaid \in Nat

VARIABLES
    row,         \* the columns of each order
    receivable,  \* orders that have an ARRecord
    creating,    \* orders committed by a create_order that is still running
    open,        \* sessions of the other handlers
    payments,    \* history: sum of the payments recorded on each order
    stale        \* history: orders committed to over a row that had changed

vars == <<row, receivable, creating, open, payments, stale>>

OrderStatus    == {"none", "draft", "confirmed", "in_progress", "completed"}
PaymentStatus  == {"unpaid", "partial", "paid"}
ShipmentStatus == {"unshipped", "shipped"}

Row == [order_status : OrderStatus, payment_status : PaymentStatus,
        shipment_status : ShipmentStatus, total_amount : Nat,
        paid_amount : Nat, balance : Nat]

NewRow(status, total) ==
    [order_status |-> status, payment_status |-> "unpaid", shipment_status |-> "unshipped",
     total_amount |-> total, paid_amount |-> 0, balance |-> total]

Free(r) == \A s \in open : s.by # r

Init ==
    /\ row = [o \in Order |-> NewRow("none", 0)]
    /\ receivable = {}
    /\ creating = {}
    /\ open = {}
    /\ payments = [o \in Order |-> 0]
    /\ stale = {}

-----------------------------------------------------------------------------
(* create_order                                                              *)

CreateOrder(o, total) ==
    /\ row[o].order_status = "none"
    /\ row' = [row EXCEPT ![o] = NewRow("draft", total)]
    /\ creating' = creating \union {o}
    /\ UNCHANGED <<receivable, open, payments, stale>>

\* "AR creation failure shouldn't block order"; nor does a crash before it.
CreateReceivable(o) ==
    /\ o \in creating
    /\ receivable' \in {receivable, receivable \union {o}}
    /\ creating' = creating \ {o}
    /\ UNCHANGED <<row, open, payments, stale>>

-----------------------------------------------------------------------------
(* What the handlers make of the row they have read.                         *)

Confirmed(x) == [x EXCEPT !.order_status = "confirmed"]

Started(x) ==
    IF x.order_status = "confirmed" THEN [x EXCEPT !.order_status = "in_progress"] ELSE x

\* Mutant: a remainder of one unit settles the order.
MutantPaid(x, a) ==
    LET due == x.total_amount - (x.paid_amount + a)
    IN  Started([x EXCEPT !.paid_amount = @ + a,
                          !.balance = IF due <= 1 THEN 0 ELSE due,
                          !.payment_status = IF due <= 1 THEN "paid" ELSE "partial"])

\* Mutant: only an exact payment settles the order.
MutantOverpaid(x, a) ==
    LET due == x.total_amount - (x.paid_amount + a)
    IN  Started([x EXCEPT !.paid_amount = @ + a,
                          !.balance = IF due <= 0 THEN 0 ELSE due,
                          !.payment_status = IF due = 0 THEN "paid" ELSE "partial"])

\* record_payment: nothing is refused, an overpayment settles the order.
Paid(x, a) ==
    LET due == x.total_amount - (x.paid_amount + a)
    IN  Started([x EXCEPT !.paid_amount = @ + a,
                          !.balance = IF due <= 0 THEN 0 ELSE due,
                          !.payment_status = IF due <= 0 THEN "paid" ELSE "partial"])

\* Mutant: a partial payment is enough to complete the order.
MutantShipped(x) ==
    LET done == [x EXCEPT !.shipment_status = "shipped"]
    IN  IF x.payment_status # "unpaid"
        THEN [done EXCEPT !.order_status = "completed"] ELSE Started(done)

\* record_shipment: everything at once, in any status.
Shipped(x) ==
    LET done == [x EXCEPT !.shipment_status = "shipped"]
    IN  IF x.payment_status = "paid"
        THEN [done EXCEPT !.order_status = "completed"] ELSE Started(done)

-----------------------------------------------------------------------------
(* confirm_order, record_payment, record_shipment                            *)

Begin(r, o, plan, amount) ==
    /\ Free(r)
    /\ row[o].order_status # "none"
    /\ open' = open \union
           {[by |-> r, order |-> o, saw |-> row[o], plan |-> plan, amount |-> amount]}
    /\ UNCHANGED <<row, receivable, creating, payments, stale>>

ConfirmOrder(r, o) ==
    /\ row[o].order_status = "draft"
    /\ Begin(r, o, Confirmed(row[o]), 0)

RecordPayment(r, o, a) ==
    /\ row[o].paid_amount + a <= MaxPaid
    /\ Begin(r, o, Paid(row[o], a), a)

RecordShipment(r, o) == Begin(r, o, Shipped(row[o]), 0)

\* The UPDATE sets the columns that have changed.
Written(s) ==
    [c \in DOMAIN s.plan |-> IF s.plan[c] # s.saw[c] THEN s.plan[c] ELSE row[s.order][c]]

Commit(s) ==
    /\ row' = [row EXCEPT ![s.order] = Written(s)]
    /\ payments' = [payments EXCEPT ![s.order] = @ + s.amount]
    /\ stale' = IF s.saw = row[s.order] THEN stale ELSE stale \union {s.order}
    /\ open' = open \ {s}
    /\ UNCHANGED <<receivable, creating>>

Rollback(s) ==
    /\ open' = open \ {s}
    /\ UNCHANGED <<row, receivable, creating, payments, stale>>

Next ==
    \/ \E o \in Order, total \in Total : CreateOrder(o, total)
    \/ \E o \in Order : CreateReceivable(o)
    \/ \E r \in Req, o \in Order : ConfirmOrder(r, o)
    \/ \E r \in Req, o \in Order, a \in Amount : RecordPayment(r, o, a)
    \/ \E r \in Req, o \in Order : RecordShipment(r, o)
    \/ \E s \in open : Commit(s)
    \/ \E s \in open : Rollback(s)

Spec == Init /\ [][Next]_vars

-----------------------------------------------------------------------------
Session == [by : Req, order : Order, saw : Row, plan : Row, amount : Nat]

\* The order table and the sessions working on it; what a session plans leaves
\* the total alone.
TypeOK ==
    /\ row \in [Order -> Row]
    /\ open \subseteq Session
    /\ \A s \in open : s.plan.total_amount = row[s.order].total_amount
    /\ receivable \subseteq Order
    /\ creating \subseteq Order
    /\ \A o \in receivable \union creating : row[o].order_status # "none"
    /\ payments \in [Order -> Nat]
    /\ stale \subseteq Order

\* An order is only ever completed when it has been shipped and the payments
\* recorded on it cover its total, even if sessions overlap and updates get
\* lost or mixed.
CompletedIsEarned ==
    \A o \in Order : row[o].order_status = "completed" =>
        row[o].shipment_status = "shipped" /\ payments[o] >= row[o].total_amount

\* Money is never counted twice: what an order counts as paid has been paid,
\* and it is only settled when its total has been.
PaidIsReceived ==
    \A o \in Order :
        /\ row[o].paid_amount <= payments[o]
        /\ row[o].payment_status = "paid" => payments[o] >= row[o].total_amount

\* What a session plans is backed by the payments made so far together with the
\* one it is about to record, and it takes no shipment back.
Backed(s) ==
    LET x   == row[s.order]
        got == payments[s.order] + s.amount
    IN  /\ x.order_status # "none" /\ s.plan.order_status # "none"
        /\ s.saw.total_amount = s.plan.total_amount
        /\ s.plan.paid_amount <= got
        /\ s.plan.payment_status = "paid" => got >= x.total_amount
        /\ s.plan.order_status = "completed" =>
              s.plan.shipment_status = "shipped" /\ got >= x.total_amount
        /\ s.saw.shipment_status = "shipped" =>
              s.plan.shipment_status = "shipped" /\ x.shipment_status = "shipped"

\* A session plans what one of the handlers makes of the row it has read.
Handled(s) ==
    \/ s.saw.order_status = "draft" /\ s.plan = Confirmed(s.saw) /\ s.amount = 0
    \/ s.plan = Paid(s.saw, s.amount) /\ s.amount > 0
    \/ s.plan = Shipped(s.saw) /\ s.amount = 0

\* A row in which the payments have been counted one after the other.
Counts(x, paid) ==
    /\ x.paid_amount = paid
    /\ x.balance = IF paid >= x.total_amount THEN 0 ELSE x.total_amount - paid
    /\ x.payment_status = CASE paid = 0                   -> "unpaid"
                            [] paid > 0 /\ x.balance > 0 -> "partial"
                            [] paid > 0 /\ x.balance = 0 -> "paid"

\* Balance and payment status follow from the payments, and every payment is
\* counted, unless sessions overlapped on the order.
RowFromPayments == \A o \in Order \ stale : Counts(row[o], payments[o])

\* Inductive, and strong enough for the invariants above and, as what every
\* commit starts from, for ForwardUnlessStale.
IInv ==
    /\ TypeOK
    /\ \A s \in open : Backed(s) /\ Handled(s)
    /\ \A o \in Order : row[o].order_status = "none" => payments[o] = 0
    /\ CompletedIsEarned
    /\ PaidIsReceived
    /\ RowFromPayments

Place(status) == CASE status = "none"        -> 0
                   [] status = "draft"       -> 1
                   [] status = "confirmed"   -> 2
                   [] status = "in_progress" -> 3
                   [] status = "completed"   -> 4

\* An order never goes back to an earlier status, unless sessions overlapped.
ForwardUnlessStale ==
    [][\A o \in Order :
          Place(row'[o].order_status) >= Place(row[o].order_status) \/ o \in stale']_vars
=============================================================================
