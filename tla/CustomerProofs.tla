-------------------------- MODULE CustomerProofs --------------------------
(***************************************************************************)
(* Theorems about modules SalesOrder, Quotes and CustomerCare for any      *)
(* number of sessions, orders, quotes and customers and any totals and     *)
(* payments.                                                               *)
(*                                                                         *)
(* SalesOrder: what a handler plans to write is covered by the payments    *)
(* made so far together with its own, and payments are only ever added.    *)
(*                                                                         *)
(* Quotes: a session knows the total and the items as it read them; a      *)
(* quote that another session changes under it is marked as it is changed. *)
(*                                                                         *)
(* CustomerCare: a status is only ever read from, and written to, the      *)
(* table of its document, and the stages of a view know what was read      *)
(* before.                                                                 *)
(***************************************************************************)
EXTENDS SalesOrder, Quotes, CustomerCare, TLAPS

\* What the handlers make of a row is a row.
LEMMA NewRowType ==
    ASSUME NEW status \in OrderStatus, NEW sum \in Nat
    PROVE  NewRow(status, sum) \in Row
  BY DEF NewRow, Row, PaymentStatus, ShipmentStatus

LEMMA ConfirmedType ==
    ASSUME NEW x \in Row
    PROVE  /\ Confirmed(x) \in Row
           /\ Confirmed(x) = [x EXCEPT !.order_status = "confirmed"]
  BY DEF Confirmed, Row, OrderStatus

LEMMA PaidType ==
    ASSUME NEW x \in Row, NEW a \in Nat
    PROVE  /\ Paid(x, a) \in Row
           /\ Paid(x, a).total_amount = x.total_amount
           /\ Paid(x, a).shipment_status = x.shipment_status
           /\ Paid(x, a).paid_amount = x.paid_amount + a
           /\ Paid(x, a).order_status = "completed" => x.order_status = "completed"
           /\ Paid(x, a).payment_status = "paid" => x.paid_amount + a >= x.total_amount
           /\ Paid(x, a).order_status = "none" => x.order_status = "none"
  <1> DEFINE rest == x.total_amount - (x.paid_amount + a)
             y == [x EXCEPT !.paid_amount = @ + a,
                            !.balance = IF rest <= 0 THEN 0 ELSE rest,
                            !.payment_status = IF rest <= 0 THEN "paid" ELSE "partial"]
  <1>1. /\ x.total_amount \in Nat /\ x.paid_amount \in Nat
        /\ x.order_status \in OrderStatus /\ x.shipment_status \in ShipmentStatus
    BY DEF Row
  <1>2. (IF rest <= 0 THEN 0 ELSE rest) \in Nat /\ x.paid_amount + a \in Nat
    BY <1>1
  <1>3. (IF rest <= 0 THEN "paid" ELSE "partial") \in PaymentStatus
    BY DEF PaymentStatus
  <1>4. /\ y \in Row
        /\ y.total_amount = x.total_amount /\ y.shipment_status = x.shipment_status
        /\ y.paid_amount = x.paid_amount + a /\ y.order_status = x.order_status
        /\ y.payment_status = IF rest <= 0 THEN "paid" ELSE "partial"
    BY <1>2, <1>3 DEF Row
  <1>5. y.payment_status = "paid" => x.paid_amount + a >= x.total_amount
    BY <1>1, <1>4
  <1>6. Paid(x, a) = Started(y)
    BY DEF Paid
  <1> HIDE DEF y
  <1> QED BY <1>4, <1>5, <1>6 DEF Started, Row, OrderStatus

LEMMA ShippedType ==
    ASSUME NEW x \in Row
    PROVE  /\ Shipped(x) \in Row
           /\ Shipped(x).total_amount = x.total_amount
           /\ Shipped(x).shipment_status = "shipped"
           /\ Shipped(x).paid_amount = x.paid_amount
           /\ Shipped(x).payment_status = x.payment_status
           /\ Shipped(x).order_status = "completed" =>
                 x.order_status = "completed" \/ x.payment_status = "paid"
           /\ Shipped(x).order_status = "none" => x.order_status = "none"
  <1> DEFINE y == [x EXCEPT !.shipment_status = "shipped"]
  <1>1. /\ y \in Row /\ y.total_amount = x.total_amount
        /\ y.shipment_status = "shipped" /\ y.paid_amount = x.paid_amount
        /\ y.payment_status = x.payment_status /\ y.order_status = x.order_status
    BY DEF Row, ShipmentStatus
  <1>2. Shipped(x) = IF x.payment_status = "paid"
                     THEN [y EXCEPT !.order_status = "completed"] ELSE Started(y)
    BY DEF Shipped
  <1> HIDE DEF y
  <1> QED BY <1>1, <1>2 DEF Started, Row, OrderStatus

\* A handler that works alone keeps the count of the payments right.
LEMMA HandlersCount ==
    ASSUME NEW x \in Row, NEW p \in Nat, Counts(x, p)
    PROVE  /\ Counts(Confirmed(x), p)
           /\ Counts(Shipped(x), p)
           /\ \A a \in Nat \ {0} : Counts(Paid(x, a), p + a)
  <1>1. /\ x.total_amount \in Nat /\ x.paid_amount = p
    BY DEF Row, Counts
  <1>2. Counts(Confirmed(x), p)
    <2>1. /\ Confirmed(x).total_amount = x.total_amount
          /\ Confirmed(x).paid_amount = x.paid_amount
          /\ Confirmed(x).balance = x.balance
          /\ Confirmed(x).payment_status = x.payment_status
      BY DEF Confirmed, Row
    <2> QED BY <2>1 DEF Counts
  <1>3. Counts(Shipped(x), p)
    <2>1. /\ Shipped(x).total_amount = x.total_amount
          /\ Shipped(x).paid_amount = x.paid_amount
          /\ Shipped(x).balance = x.balance
          /\ Shipped(x).payment_status = x.payment_status
      BY DEF Shipped, Started, Row
    <2> QED BY <2>1 DEF Counts
  <1>4. ASSUME NEW a \in Nat \ {0} PROVE Counts(Paid(x, a), p + a)
    <2> DEFINE rest == x.total_amount - (p + a)
    <2>1. /\ Paid(x, a).total_amount = x.total_amount
          /\ Paid(x, a).paid_amount = p + a
          /\ Paid(x, a).balance = IF rest <= 0 THEN 0 ELSE rest
          /\ Paid(x, a).payment_status = IF rest <= 0 THEN "paid" ELSE "partial"
      BY <1>1 DEF Paid, Started, Row
    <2>2. /\ p + a \in Nat /\ p + a > 0 /\ p + a # 0
          /\ rest <= 0 <=> p + a >= x.total_amount
          /\ ~(rest <= 0) => rest > 0
      BY <1>1
    <2>3. Paid(x, a).balance = IF p + a >= x.total_amount THEN 0
                               ELSE x.total_amount - (p + a)
      BY <2>1, <2>2
    <2>4. CASE rest <= 0
      BY <2>1, <2>2, <2>3, <2>4 DEF Counts
    <2>5. CASE ~(rest <= 0)
      BY <2>1, <2>2, <2>3, <2>5 DEF Counts
    <2> QED BY <2>4, <2>5
  <1> QED BY <1>2, <1>3, <1>4

\* A handler never plans an earlier status than the one it has read.
LEMMA HandlersForward ==
    ASSUME NEW x \in Row
    PROVE  /\ x.order_status = "draft" =>
                 Place(Confirmed(x).order_status) >= Place(x.order_status)
           /\ Place(Shipped(x).order_status) >= Place(x.order_status)
           /\ \A a \in Nat : Place(Paid(x, a).order_status) >= Place(x.order_status)
  <1>1. x.order_status \in OrderStatus
    BY DEF Row
  <1>2. x.order_status = "draft" =>
            Place(Confirmed(x).order_status) >= Place(x.order_status)
    BY DEF Confirmed, Row, Place
  <1>3. Shipped(x).order_status \in
            {x.order_status, "completed"} \union
            (IF x.order_status = "confirmed" THEN {"in_progress"} ELSE {})
    BY DEF Shipped, Started, Row
  <1>4. \A a \in Nat : Paid(x, a).order_status \in
            {x.order_status} \union
            (IF x.order_status = "confirmed" THEN {"in_progress"} ELSE {})
    BY DEF Paid, Started, Row
  <1>5. /\ Place("none") = 0 /\ Place("draft") = 1 /\ Place("confirmed") = 2
        /\ Place("in_progress") = 3 /\ Place("completed") = 4
    BY DEF Place
  <1> HIDE DEF Place
  <1> QED BY <1>1, <1>2, <1>3, <1>4, <1>5 DEF OrderStatus

-----------------------------------------------------------------------------
LEMMA InitHolds == Init => IInv
  <1> SUFFICES ASSUME Init PROVE IInv
    OBVIOUS
  <1>1. NewRow("none", 0) \in Row
    BY NewRowType DEF OrderStatus
  <1>2. \A o \in Order : row[o] = NewRow("none", 0)
    BY DEF Init
  <1>3. TypeOK
    BY <1>1 DEF Init, TypeOK
  <1>4. CompletedIsEarned /\ PaidIsReceived /\ RowFromPayments
    BY <1>2 DEF Init, CompletedIsEarned, PaidIsReceived, RowFromPayments, Counts, NewRow
  <1> QED BY <1>3, <1>4 DEF Init, IInv

LEMMA CreateOrderKeeps ==
    ASSUME IInv, NEW o \in Order, NEW sum \in Total, CreateOrder(o, sum)
    PROVE  IInv'
  <1> DEFINE new == NewRow("draft", sum)
  <1>1. /\ row[o].order_status = "none" /\ row' = [row EXCEPT ![o] = new]
        /\ creating' = creating \union {o}
        /\ UNCHANGED <<receivable, open, payments, stale>>
    BY DEF CreateOrder
  <1>2. new \in Row /\ sum \in Nat
    BY NewRowType, AmountAssumption DEF OrderStatus
  <1>3. /\ new.order_status = "draft" /\ new.payment_status = "unpaid"
        /\ new.paid_amount = 0 /\ Counts(new, 0)
    BY <1>2 DEF NewRow, Counts
  <1>4. row'[o] = new /\ \A q \in Order : q # o => row'[q] = row[q]
    BY <1>1 DEF IInv, TypeOK
  <1>5. \A s \in open : s.order \in Order /\ s.order # o
    BY <1>1 DEF IInv, Backed, TypeOK, Session
  <1> HIDE DEF new
  <1>6. TypeOK'
    BY <1>1, <1>2, <1>3, <1>4, <1>5 DEF IInv, TypeOK
  <1>7. \A s \in open' : Backed(s)' /\ Handled(s)'
    BY <1>1, <1>4, <1>5 DEF IInv, Backed, Handled
  <1>8. CompletedIsEarned'
    BY <1>1, <1>3, <1>4 DEF IInv, CompletedIsEarned
  <1>9. PaidIsReceived'
    BY <1>1, <1>3, <1>4 DEF IInv, PaidIsReceived, TypeOK
  <1>10. RowFromPayments'
    BY <1>1, <1>3, <1>4 DEF IInv, RowFromPayments
  <1>11. \A q \in Order : row'[q].order_status = "none" => payments'[q] = 0
    BY <1>1, <1>3, <1>4 DEF IInv
  <1> QED BY <1>6, <1>7, <1>8, <1>9, <1>10, <1>11 DEF IInv

LEMMA CreateReceivableKeeps ==
    ASSUME IInv, NEW o \in Order, CreateReceivable(o)
    PROVE  IInv'
  <1>1. /\ o \in creating
        /\ receivable' \in {receivable, receivable \union {o}}
        /\ creating' = creating \ {o}
        /\ UNCHANGED <<row, open, payments, stale>>
    BY DEF CreateReceivable
  <1>2. TypeOK'
    BY <1>1 DEF IInv, TypeOK
  <1>3. \A s \in open' : Backed(s)' /\ Handled(s)'
    BY <1>1 DEF IInv, Backed, Handled
  <1>4. CompletedIsEarned' /\ PaidIsReceived' /\ RowFromPayments'
    BY <1>1 DEF IInv, CompletedIsEarned, PaidIsReceived, RowFromPayments
  <1> QED BY <1>1, <1>2, <1>3, <1>4 DEF IInv

\* The three handlers differ in what they plan; this is what a plan has to
\* fulfil.
LEMMA BeginKeeps ==
    ASSUME IInv, NEW r \in Req, NEW o \in Order, NEW plan \in Row, NEW amount \in Nat,
           Begin(r, o, plan, amount),
           plan.total_amount = row[o].total_amount,
           plan.order_status # "none",
           plan.paid_amount <= payments[o] + amount,
           plan.payment_status = "paid" => payments[o] + amount >= row[o].total_amount,
           plan.order_status = "completed" =>
               plan.shipment_status = "shipped"
               /\ payments[o] + amount >= row[o].total_amount,
           row[o].shipment_status = "shipped" => plan.shipment_status = "shipped",
           \/ row[o].order_status = "draft" /\ plan = Confirmed(row[o]) /\ amount = 0
           \/ plan = Paid(row[o], amount) /\ amount > 0
           \/ plan = Shipped(row[o]) /\ amount = 0
    PROVE  IInv'
  <1> DEFINE s == [by |-> r, order |-> o, saw |-> row[o], plan |-> plan, amount |-> amount]
  <1>1. /\ row[o].order_status # "none" /\ open' = open \union {s}
        /\ UNCHANGED <<row, receivable, creating, payments, stale>>
    BY DEF Begin
  <1>2. s \in Session
    BY DEF IInv, TypeOK, Session
  <1>3. Backed(s) /\ Handled(s)
    BY <1>1 DEF Backed, Handled
  <1>4. s.plan.total_amount = row[s.order].total_amount
    OBVIOUS
  <1> HIDE DEF s
  <1>5. TypeOK'
    BY <1>1, <1>2, <1>4 DEF IInv, TypeOK
  <1>6. \A t \in open' : Backed(t)' /\ Handled(t)'
    BY <1>1, <1>3 DEF IInv, Backed, Handled
  <1>7. CompletedIsEarned' /\ PaidIsReceived' /\ RowFromPayments'
    BY <1>1 DEF IInv, CompletedIsEarned, PaidIsReceived, RowFromPayments
  <1> QED BY <1>1, <1>5, <1>6, <1>7 DEF IInv

LEMMA ConfirmOrderKeeps ==
    ASSUME IInv, NEW r \in Req, NEW o \in Order, ConfirmOrder(r, o)
    PROVE  IInv'
  <1> DEFINE x == row[o]
             plan == Confirmed(x)
  <1>1. Begin(r, o, plan, 0) /\ x.order_status = "draft"
    BY DEF ConfirmOrder
  <1>2. x \in Row /\ payments[o] \in Nat
    BY DEF IInv, TypeOK
  <1>3. /\ plan \in Row /\ plan = [x EXCEPT !.order_status = "confirmed"]
        /\ plan = Confirmed(x)
    BY <1>2, ConfirmedType
  <1>4. /\ plan.order_status = "confirmed" /\ plan.total_amount = x.total_amount
        /\ plan.paid_amount = x.paid_amount /\ plan.payment_status = x.payment_status
        /\ plan.shipment_status = x.shipment_status
    BY <1>2, <1>3 DEF Row
  <1>5. /\ x.paid_amount <= payments[o] + 0
        /\ x.payment_status = "paid" => payments[o] + 0 >= x.total_amount
    BY <1>2 DEF IInv, PaidIsReceived
  <1> HIDE DEF plan
  <1> QED BY <1>1, <1>3, <1>4, <1>5, BeginKeeps

LEMMA RecordPaymentKeeps ==
    ASSUME IInv, NEW r \in Req, NEW o \in Order, NEW a \in Amount, RecordPayment(r, o, a)
    PROVE  IInv'
  <1> DEFINE x == row[o]
             plan == Paid(x, a)
  <1>1. Begin(r, o, plan, a) /\ x.order_status # "none"
    BY DEF RecordPayment, Begin
  <1>2. x \in Row /\ payments[o] \in Nat /\ a \in Nat /\ a > 0
    BY AmountAssumption DEF IInv, TypeOK
  <1>3. /\ plan \in Row /\ plan = Paid(x, a) /\ plan.total_amount = x.total_amount
        /\ plan.shipment_status = x.shipment_status
        /\ plan.paid_amount = x.paid_amount + a
        /\ plan.order_status = "completed" => x.order_status = "completed"
        /\ plan.payment_status = "paid" => x.paid_amount + a >= x.total_amount
        /\ plan.order_status = "none" => x.order_status = "none"
    BY <1>2, PaidType
  <1>4. /\ x.paid_amount <= payments[o] /\ x.paid_amount \in Nat /\ x.total_amount \in Nat
        /\ x.order_status = "completed" =>
              x.shipment_status = "shipped" /\ payments[o] >= x.total_amount
    BY <1>2 DEF IInv, PaidIsReceived, CompletedIsEarned, Row
  <1> HIDE DEF plan
  <1>5. /\ plan.paid_amount <= payments[o] + a
        /\ plan.payment_status = "paid" => payments[o] + a >= x.total_amount
        /\ plan.order_status = "completed" =>
              plan.shipment_status = "shipped" /\ payments[o] + a >= x.total_amount
    BY <1>2, <1>3, <1>4
  <1> QED BY <1>1, <1>2, <1>3, <1>5, BeginKeeps

LEMMA RecordShipmentKeeps ==
    ASSUME IInv, NEW r \in Req, NEW o \in Order, RecordShipment(r, o)
    PROVE  IInv'
  <1> DEFINE x == row[o]
             plan == Shipped(x)
  <1>1. Begin(r, o, plan, 0) /\ x.order_status # "none"
    BY DEF RecordShipment, Begin
  <1>2. x \in Row /\ payments[o] \in Nat
    BY DEF IInv, TypeOK
  <1>3. /\ plan \in Row /\ plan = Shipped(x) /\ plan.total_amount = x.total_amount
        /\ plan.shipment_status = "shipped"
        /\ plan.paid_amount = x.paid_amount
        /\ plan.payment_status = x.payment_status
        /\ plan.order_status = "completed" =>
              x.order_status = "completed" \/ x.payment_status = "paid"
        /\ plan.order_status = "none" => x.order_status = "none"
    BY <1>2, ShippedType
  <1>4. /\ x.paid_amount <= payments[o]
        /\ x.payment_status = "paid" => payments[o] >= x.total_amount
        /\ x.order_status = "completed" => payments[o] >= x.total_amount
    BY <1>2 DEF IInv, PaidIsReceived, CompletedIsEarned
  <1> HIDE DEF plan
  <1>5. /\ plan.paid_amount <= payments[o] + 0
        /\ plan.payment_status = "paid" => payments[o] + 0 >= x.total_amount
        /\ plan.order_status = "completed" => payments[o] + 0 >= x.total_amount
    BY <1>2, <1>3, <1>4
  <1> QED BY <1>1, <1>3, <1>5, BeginKeeps

LEMMA RollbackKeeps ==
    ASSUME IInv, NEW s \in open, Rollback(s)
    PROVE  IInv'
  BY DEF Rollback, IInv, TypeOK, Backed, Handled, CompletedIsEarned, PaidIsReceived,
         RowFromPayments

\* The row a commit leaves behind: each column is the one planned or the one
\* that was there.
LEMMA WrittenType ==
    ASSUME IInv, NEW s \in open
    PROVE  LET x == row[s.order]
               y == Written(s)
           IN  /\ y \in Row
               /\ \A c \in DOMAIN y : y[c] = s.plan[c] \/ y[c] = x[c]
               /\ y.total_amount = x.total_amount
               /\ x.shipment_status = "shipped" => y.shipment_status = "shipped"
               /\ s.plan.shipment_status = "shipped" => y.shipment_status = "shipped"
               /\ s.saw = x => y = s.plan
  <1> DEFINE x == row[s.order]
             y == Written(s)
  <1>1. s \in Session /\ x \in Row /\ s.plan \in Row /\ s.saw \in Row
    BY DEF IInv, TypeOK, Session
  <1>2. DOMAIN s.plan = {"order_status", "payment_status", "shipment_status",
                         "total_amount", "paid_amount", "balance"}
    BY <1>1 DEF Row
  <1>3. /\ y.order_status = IF s.plan.order_status # s.saw.order_status
                             THEN s.plan.order_status ELSE x.order_status
        /\ y.payment_status = IF s.plan.payment_status # s.saw.payment_status
                               THEN s.plan.payment_status ELSE x.payment_status
        /\ y.shipment_status = IF s.plan.shipment_status # s.saw.shipment_status
                                THEN s.plan.shipment_status ELSE x.shipment_status
        /\ y.total_amount = IF s.plan.total_amount # s.saw.total_amount
                             THEN s.plan.total_amount ELSE x.total_amount
        /\ y.paid_amount = IF s.plan.paid_amount # s.saw.paid_amount
                            THEN s.plan.paid_amount ELSE x.paid_amount
        /\ y.balance = IF s.plan.balance # s.saw.balance
                        THEN s.plan.balance ELSE x.balance
    BY <1>2 DEF Written
  <1>4. y = [order_status |-> y.order_status, payment_status |-> y.payment_status,
             shipment_status |-> y.shipment_status, total_amount |-> y.total_amount,
             paid_amount |-> y.paid_amount, balance |-> y.balance]
    BY <1>2 DEF Written
  <1>5. s.plan.total_amount = x.total_amount
    BY DEF IInv, TypeOK
  <1>6. s.saw.shipment_status = "shipped" =>
            s.plan.shipment_status = "shipped" /\ x.shipment_status = "shipped"
    BY DEF IInv, Backed
  <1> HIDE DEF y
  <1>7. y \in Row
    <2>1. /\ y.order_status \in OrderStatus /\ y.payment_status \in PaymentStatus
          /\ y.shipment_status \in ShipmentStatus /\ y.total_amount \in Nat
          /\ y.paid_amount \in Nat /\ y.balance \in Nat
      BY <1>1, <1>3 DEF Row
    <2> QED BY <2>1, <1>4 DEF Row
  <1>8. y.order_status = s.plan.order_status \/ y.order_status = x.order_status
    BY <1>3
  <1>9. x.shipment_status = "shipped" => y.shipment_status = "shipped"
    BY <1>1, <1>3, <1>6 DEF Row, ShipmentStatus
  <1>10. s.plan.shipment_status = "shipped" => y.shipment_status = "shipped"
    BY <1>3, <1>6
  <1>11. \A c \in DOMAIN y : y[c] = s.plan[c] \/ y[c] = x[c]
    BY DEF Written, y
  <1>12. y.total_amount = x.total_amount
    BY <1>3, <1>5
  <1>13. s.saw = x => y = s.plan
    <2>1. s.plan = [c \in DOMAIN s.plan |-> s.plan[c]]
      BY <1>1 DEF Row
    <2> QED BY <2>1 DEF Written, y
  <1> QED BY <1>7, <1>9, <1>10, <1>11, <1>12, <1>13 DEF y

LEMMA CommitKeeps ==
    ASSUME IInv, NEW s \in open, Commit(s)
    PROVE  IInv'
  <1> DEFINE o == s.order
             x == row[o]
             y == Written(s)
             got == payments[o] + s.amount
  <1>1. /\ row' = [row EXCEPT ![o] = y]
        /\ payments' = [payments EXCEPT ![o] = @ + s.amount]
        /\ stale' = IF s.saw = row[o] THEN stale ELSE stale \union {o}
        /\ open' = open \ {s}
        /\ UNCHANGED <<receivable, creating>>
    BY DEF Commit
  <1>2. /\ o \in Order /\ s.amount \in Nat /\ x \in Row /\ payments[o] \in Nat
    BY DEF IInv, TypeOK, Session
  <1>3. /\ y \in Row
        /\ \A c \in DOMAIN y : y[c] = s.plan[c] \/ y[c] = x[c]
        /\ y.total_amount = x.total_amount
        /\ x.shipment_status = "shipped" => y.shipment_status = "shipped"
        /\ s.plan.shipment_status = "shipped" => y.shipment_status = "shipped"
        /\ s.saw = x => y = s.plan
    BY WrittenType
  <1> HIDE DEF y
  <1>4. /\ y.order_status = s.plan.order_status \/ y.order_status = x.order_status
        /\ y.payment_status = s.plan.payment_status \/ y.payment_status = x.payment_status
        /\ y.paid_amount = s.plan.paid_amount \/ y.paid_amount = x.paid_amount
    BY <1>3 DEF Row
  <1>5. /\ row'[o] = y /\ payments'[o] = got
        /\ \A q \in Order : q # o => row'[q] = row[q] /\ payments'[q] = payments[q]
        /\ x.order_status # "none" /\ s.plan.order_status # "none"
    BY <1>1, <1>2 DEF IInv, TypeOK, Backed
  <1>6. got \in Nat /\ got >= payments[o] /\ x.total_amount \in Nat /\ x.paid_amount \in Nat
    BY <1>2 DEF Row
  <1>7. /\ s.plan.paid_amount <= got /\ s.plan.paid_amount \in Nat
        /\ s.plan.payment_status = "paid" => got >= x.total_amount
        /\ s.plan.order_status = "completed" =>
              s.plan.shipment_status = "shipped" /\ got >= x.total_amount
    BY DEF IInv, Backed, TypeOK, Session, Row
  <1>8. /\ x.paid_amount <= payments[o]
        /\ x.payment_status = "paid" => payments[o] >= x.total_amount
        /\ x.order_status = "completed" =>
              x.shipment_status = "shipped" /\ payments[o] >= x.total_amount
    BY <1>2 DEF IInv, PaidIsReceived, CompletedIsEarned
  <1>9. y.order_status # "none"
    BY <1>4, <1>5
  <1>10. TypeOK'
    <2>1. row' \in [Order -> Row] /\ payments' \in [Order -> Nat]
      BY <1>1, <1>2, <1>3, <1>6 DEF IInv, TypeOK
    <2>2. \A t \in open' : t.plan.total_amount = row'[t.order].total_amount
      BY <1>1, <1>3, <1>5 DEF IInv, TypeOK, Session
    <2>3. \A q \in (receivable \union creating)' : row'[q].order_status # "none"
      BY <1>1, <1>5, <1>9 DEF IInv, TypeOK
    <2> QED BY <1>1, <1>2, <2>1, <2>2, <2>3 DEF IInv, TypeOK
  <1>11. ASSUME NEW t \in open' PROVE Backed(t)' /\ Handled(t)'
    <2>1. t \in open /\ t \in Session /\ Backed(t) /\ Handled(t)'
      BY <1>1, <1>11 DEF IInv, TypeOK, Handled
    <2>2. CASE t.order # o
      BY <1>5, <2>1, <2>2 DEF Backed, Session
    <2>3. CASE t.order = o
      <3>1. /\ t.amount \in Nat /\ t.plan.paid_amount \in Nat
        BY <2>1 DEF Session, Row
      <3>2. payments'[o] + t.amount >= payments[o] + t.amount
        BY <1>2, <1>5, <1>6, <3>1
      <3> QED BY <1>2, <1>3, <1>5, <1>6, <1>9, <2>1, <2>3, <3>1, <3>2 DEF Backed
    <2> QED BY <2>2, <2>3
  <1>12. CompletedIsEarned'
    BY <1>1, <1>2, <1>3, <1>4, <1>5, <1>6, <1>7, <1>8 DEF IInv, CompletedIsEarned
  <1>13. PaidIsReceived'
    BY <1>1, <1>2, <1>3, <1>4, <1>5, <1>6, <1>7, <1>8 DEF IInv, PaidIsReceived
  <1>14. RowFromPayments'
    <2> SUFFICES ASSUME NEW q \in Order, q \notin stale' PROVE Counts(row'[q], payments'[q])
      BY DEF RowFromPayments
    <2>1. CASE q # o
      BY <1>1, <1>5, <2>1 DEF IInv, RowFromPayments
    <2>2. CASE q = o
      <3>1. s.saw = x /\ o \notin stale
        BY <1>1, <2>2
      <3>2. Counts(x, payments[o]) /\ y = s.plan
        BY <1>2, <1>3, <3>1 DEF IInv, RowFromPayments
      <3>3. \/ s.plan = Confirmed(x) /\ s.amount = 0
            \/ s.plan = Paid(x, s.amount) /\ s.amount \in Nat \ {0}
            \/ s.plan = Shipped(x) /\ s.amount = 0
        BY <1>2, <3>1 DEF IInv, Handled
      <3>4. s.amount = 0 => got = payments[o]
        BY <1>2
      <3> QED BY <1>2, <1>5, <2>2, <3>2, <3>3, <3>4, HandlersCount
    <2> QED BY <2>1, <2>2
  <1>15. \A q \in Order : row'[q].order_status = "none" => payments'[q] = 0
    BY <1>5, <1>9 DEF IInv
  <1> QED BY <1>10, <1>11, <1>12, <1>13, <1>14, <1>15 DEF IInv

-----------------------------------------------------------------------------
\* Every handler of the router, its commit and its failure keep the invariant.
THEOREM SalesInductive == Spec => []IInv
  <1>1. IInv /\ [Next]_vars => IInv'
    <2> SUFFICES ASSUME IInv, [Next]_vars PROVE IInv'
      OBVIOUS
    <2>1. CASE \E o \in Order, sum \in Total : CreateOrder(o, sum)
      BY <2>1, CreateOrderKeeps
    <2>2. CASE \E o \in Order : CreateReceivable(o)
      BY <2>2, CreateReceivableKeeps
    <2>3. CASE \E r \in Req, o \in Order : ConfirmOrder(r, o)
      BY <2>3, ConfirmOrderKeeps
    <2>4. CASE \E r \in Req, o \in Order, a \in Amount : RecordPayment(r, o, a)
      BY <2>4, RecordPaymentKeeps
    <2>5. CASE \E r \in Req, o \in Order : RecordShipment(r, o)
      BY <2>5, RecordShipmentKeeps
    <2>6. CASE \E s \in open : Commit(s)
      BY <2>6, CommitKeeps
    <2>7. CASE \E s \in open : Rollback(s)
      BY <2>7, RollbackKeeps
    <2>8. CASE UNCHANGED vars
      BY <2>8 DEF vars, IInv, TypeOK, Backed, Handled, CompletedIsEarned, PaidIsReceived,
                  RowFromPayments
    <2> QED BY <2>1, <2>2, <2>3, <2>4, <2>5, <2>6, <2>7, <2>8 DEF Next
  <1> QED BY InitHolds, <1>1, PTL DEF Spec

\* Type correctness of the sales orders and of the sessions working on them.
THEOREM SalesTypeCorrect == Spec => []TypeOK
  <1>1. IInv => TypeOK
    BY DEF IInv
  <1> QED BY <1>1, SalesInductive, PTL

\* An order is completed only when it has been shipped and the payments
\* recorded on it cover its total, however the handlers overlap.
THEOREM Completed == Spec => []CompletedIsEarned
  <1>1. IInv => CompletedIsEarned
    BY DEF IInv
  <1> QED BY <1>1, SalesInductive, PTL

\* No overlap of handlers makes an order count money that was not paid.
THEOREM Received == Spec => []PaidIsReceived
  <1>1. IInv => PaidIsReceived
    BY DEF IInv
  <1> QED BY <1>1, SalesInductive, PTL

\* As long as no two handlers overlap on an order its balance and its payment
\* status are those of the payments recorded on it.
THEOREM Balanced == Spec => []RowFromPayments
  <1>1. IInv => RowFromPayments
    BY DEF IInv
  <1> QED BY <1>1, SalesInductive, PTL

\* Only handlers that overlap can take an order back to an earlier status.
THEOREM SalesForward == Spec => ForwardUnlessStale
  <1> DEFINE Ahead == \A o \in Order :
                 Place(row'[o].order_status) >= Place(row[o].order_status) \/ o \in stale'
  <1>1. IInv /\ [Next]_vars => [Ahead]_vars
    <2> SUFFICES ASSUME IInv, [Next]_vars, ~ UNCHANGED vars,
                        NEW o \in Order, o \notin stale'
                 PROVE  Place(row'[o].order_status) >= Place(row[o].order_status)
      OBVIOUS
    <2>0. /\ Place(row[o].order_status) \in Nat /\ row[o] \in Row
      BY DEF IInv, TypeOK, Row, OrderStatus, Place
    <2>1. CASE row'[o] = row[o]
      BY <2>0, <2>1
    <2>2. ASSUME NEW q \in Order, NEW sum \in Total, CreateOrder(q, sum), row'[o] # row[o]
          PROVE  Place(row'[o].order_status) >= Place(row[o].order_status)
      <3>1. o = q /\ row'[o].order_status = "draft" /\ row[o].order_status = "none"
        BY <2>2 DEF CreateOrder, IInv, TypeOK, NewRow
      <3> QED BY <3>1 DEF Place
    <2>3. ASSUME NEW s \in open, Commit(s), row'[o] # row[o]
          PROVE  Place(row'[o].order_status) >= Place(row[o].order_status)
      <3>1. s.order = o /\ row'[o] = Written(s) /\ s.saw = row[o] /\ s.amount \in Nat
        BY <2>3 DEF Commit, IInv, TypeOK, Session
      <3>2. row'[o] = s.plan
        BY <3>1, WrittenType
      <3> QED BY <2>0, <3>1, <3>2, HandlersForward DEF IInv, Handled
    <2> QED
      BY <2>1, <2>2, <2>3
         DEF Next, CreateReceivable, ConfirmOrder, RecordPayment, RecordShipment, Begin,
             Rollback
  <1> QED BY <1>1, SalesInductive, PTL DEF Spec, ForwardUnlessStale

-----------------------------------------------------------------------------
(* Quotes and the orders they become: module Quotes. The invariant says of *)
(* every session what it read of its quote, which stays true until         *)
(* somebody else commits on the quote and skewed or repeated records it.   *)

AddingRow    == [by : QuoteReq, quote : Quote, stage : {"adding"}, item : Item,
                 seen : SUBSET Item, sum : SUBSET Item]
MovingRow    == [by : QuoteReq, quote : Quote, stage : {"moving"}, from : QuoteStatus,
                 to : QuoteStatus, seen : SUBSET Item, sum : SUBSET Item]
ReadRow      == [by : QuoteReq, quote : Quote, stage : {"read"}, from : QuoteStatus,
                 sum : SUBSET Item, lines : SUBSET Item]
PublishedRow == [by : QuoteReq, quote : Quote, stage : {"published"}, from : QuoteStatus,
                 row : OrderRow]

\* A session that adds an item has summed up what it has seen and that item.
AddingOK(s) ==
    /\ s \in AddingRow
    /\ QuoteOf(s.item) = s.quote
    /\ s.sum = s.seen \union {s.item}

\* A total is that of the items seen with it; none can leave "ordered".
MovingOK(s) ==
    /\ s \in MovingRow
    /\ s.from # "ordered"
    /\ s.to = "ordered" => s.from = "contracted"
    /\ s.quote \in skewed \/ s.sum = s.seen

ReadOK(s) ==
    /\ s \in ReadRow
    /\ s.from = "contracted"
    /\ s.quote \in skewed \/ s.sum = s.lines

PublishedOK(s) ==
    /\ s \in PublishedRow
    /\ s.from = "contracted"
    /\ s.row.quote = s.quote
    /\ s.row.id \in confirmed
    /\ s.quote \in skewed \/ s.row.total = s.row.lines

QuoteSessionsOK ==
    \A s \in quoting : AddingOK(s) \/ MovingOK(s) \/ ReadOK(s) \/ PublishedOK(s)

\* The total of a quote is the sum of its items.
TotalIsItems == \A q \in Quote \ skewed : total[q] = ItemsOf(q)

\* A quote with an order has been ordered.
OrderedOnce == \A o \in orders : o.quote \in repeated \/ quote[o.quote] = "ordered"

QuoteIInv ==
    /\ QuoteTypeOK
    /\ QuoteSessionsOK
    /\ TotalIsItems
    /\ OrderedOnce
    /\ OrderIsAnnounced
    /\ OrderTotalIsLines
    /\ OneOrderPerQuote
-----------------------------------------------------------------------------
LEMMA QuoteInitHolds == QuoteInit => QuoteIInv
  <1> SUFFICES ASSUME QuoteInit PROVE QuoteIInv
    OBVIOUS
  <1> USE DEF QuoteInit
  <1>1. QuoteTypeOK
    BY DEF QuoteTypeOK, QuoteStatus, QUOTE_TRANSITIONS
  <1>2. QuoteSessionsOK /\ OrderedOnce
    BY DEF QuoteSessionsOK, OrderedOnce
  <1>3. TotalIsItems
    BY DEF TotalIsItems, ItemsOf
  <1>4. OrderIsAnnounced /\ OrderTotalIsLines /\ OneOrderPerQuote
    BY DEF OrderIsAnnounced, OrderTotalIsLines, OneOrderPerQuote
  <1> QED BY <1>1, <1>2, <1>3, <1>4 DEF QuoteIInv

QuoteSessionOK(s) == AddingOK(s) \/ MovingOK(s) \/ ReadOK(s) \/ PublishedOK(s)

\* What a session knows stays true while histories and announcements grow.
LEMMA SessionsStay ==
    ASSUME QuoteSessionsOK, skewed \subseteq skewed', confirmed \subseteq confirmed',
           NEW s \in quoting
    PROVE  QuoteSessionOK(s)'
  <1>1. QuoteSessionOK(s)
    BY DEF QuoteSessionsOK, QuoteSessionOK
  <1>2. (AddingOK(s) => AddingOK(s)') /\ (MovingOK(s) => MovingOK(s)')
    BY DEF AddingOK, MovingOK
  <1>3. (ReadOK(s) => ReadOK(s)') /\ (PublishedOK(s) => PublishedOK(s)')
    BY DEF ReadOK, PublishedOK
  <1> QED BY <1>1, <1>2, <1>3 DEF QuoteSessionOK

LEMMA SessionsChange ==
    ASSUME QuoteSessionsOK, skewed \subseteq skewed', confirmed \subseteq confirmed',
           \A s \in quoting' \ quoting : QuoteSessionOK(s)'
    PROVE  QuoteSessionsOK'
  <1>1. ASSUME NEW s \in quoting' PROVE QuoteSessionOK(s)'
    BY SessionsStay
  <1> QED BY <1>1 DEF QuoteSessionsOK, QuoteSessionOK

LEMMA SessionsAreTyped ==
    ASSUME QuoteSessionsOK
    PROVE  \A s \in quoting : s.by \in QuoteReq /\ s.quote \in Quote
  BY DEF QuoteSessionsOK, AddingOK, MovingOK, ReadOK, PublishedOK,
         AddingRow, MovingRow, ReadRow, PublishedRow

\* Each stage has one form of session.
LEMMA StageOfSession ==
    ASSUME QuoteSessionsOK, NEW s \in quoting
    PROVE  /\ s.stage = "adding" => AddingOK(s)
           /\ s.stage = "moving" => MovingOK(s)
           /\ s.stage = "read" => ReadOK(s)
           /\ s.stage = "published" => PublishedOK(s)
  <1>1. AddingOK(s) => s.stage = "adding"
    BY DEF AddingOK, AddingRow
  <1>2. MovingOK(s) => s.stage = "moving"
    BY DEF MovingOK, MovingRow
  <1>3. ReadOK(s) => s.stage = "read"
    BY DEF ReadOK, ReadRow
  <1>4. PublishedOK(s) => s.stage = "published"
    BY DEF PublishedOK, PublishedRow
  <1> QED BY <1>1, <1>2, <1>3, <1>4 DEF QuoteSessionsOK

\* A step that leaves the tables alone; histories and announcements may grow.
LEMMA SameQuoteTables ==
    ASSUME QuoteIInv, UNCHANGED <<quote, total, items, orders>>,
           skewed \subseteq skewed', skewed' \subseteq Quote, repeated' = repeated,
           confirmed \subseteq confirmed', confirmed' \subseteq OrderId,
           \A s \in quoting' \ quoting : QuoteSessionOK(s)'
    PROVE  QuoteIInv'
  <1>1. QuoteSessionsOK'
    BY SessionsChange DEF QuoteIInv
  <1>2. \A s \in quoting' : s.by \in QuoteReq /\ s.quote \in Quote
    <2> SUFFICES QuoteSessionsOK' => \A s \in quoting' : s.by \in QuoteReq /\ s.quote \in Quote
      BY <1>1
    <2> QED BY DEF QuoteSessionsOK, AddingOK, MovingOK, ReadOK, PublishedOK,
                   AddingRow, MovingRow, ReadRow, PublishedRow
  <1>3. QuoteTypeOK'
    BY <1>2 DEF QuoteIInv, QuoteTypeOK
  <1>4. TotalIsItems' /\ OrderedOnce'
    BY DEF QuoteIInv, TotalIsItems, ItemsOf, OrderedOnce
  <1>5. OrderIsAnnounced' /\ OrderTotalIsLines' /\ OneOrderPerQuote'
    BY DEF QuoteIInv, OrderIsAnnounced, OrderTotalIsLines, OneOrderPerQuote
  <1> QED BY <1>1, <1>3, <1>4, <1>5 DEF QuoteIInv

LEMMA CreateQuoteKeeps ==
    ASSUME QuoteIInv, NEW q \in Quote, CreateQuote(q)
    PROVE  QuoteIInv'
  <1> USE DEF QuoteIInv, CreateQuote
  <1>1. QuoteTypeOK'
    BY DEF QuoteTypeOK, QuoteStatus, QUOTE_TRANSITIONS
  <1>2. QuoteSessionsOK'
    BY SessionsChange
  <1>3. TotalIsItems'
    BY DEF TotalIsItems, ItemsOf
  <1>4. OrderedOnce'
    BY DEF OrderedOnce, QuoteTypeOK
  <1>5. OrderIsAnnounced' /\ OrderTotalIsLines' /\ OneOrderPerQuote'
    BY DEF OrderIsAnnounced, OrderTotalIsLines, OneOrderPerQuote
  <1> QED BY <1>1, <1>2, <1>3, <1>4, <1>5

LEMMA BeginAddItemKeeps ==
    ASSUME QuoteIInv, NEW r \in QuoteReq, NEW i \in Item, BeginAddItem(r, i)
    PROVE  QuoteIInv'
  <1> PICK t : t = [by |-> r, quote |-> QuoteOf(i), stage |-> "adding", item |-> i,
                   seen |-> ItemsOf(QuoteOf(i)), sum |-> Summed(i)]
    OBVIOUS
  <1>1. ItemsOf(QuoteOf(i)) \subseteq Item
    BY DEF QuoteIInv, QuoteTypeOK, ItemsOf
  <1>2. AddingOK(t)
    BY <1>1, ItemAssumption DEF AddingOK, AddingRow, Summed
  <1>3. quoting' = quoting \union {t} /\ UNCHANGED <<quoteTables, skewed, repeated>>
    BY DEF BeginAddItem
  <1>4. confirmed \subseteq OrderId /\ skewed \subseteq Quote
    BY DEF QuoteIInv, QuoteTypeOK
  <1>5. QuoteSessionOK(t)'
    BY <1>2 DEF QuoteSessionOK, AddingOK
  <1> QED BY <1>3, <1>4, <1>5, SameQuoteTables DEF quoteTables

LEMMA CommitAddItemKeeps ==
    ASSUME QuoteIInv, NEW s \in quoting, CommitAddItem(s)
    PROVE  QuoteIInv'
  <1>1. AddingOK(s)
    BY StageOfSession DEF QuoteIInv, CommitAddItem
  <1>2. s.quote \in Quote /\ s.item \in Item /\ QuoteOf(s.item) = s.quote
        /\ s.sum = s.seen \union {s.item} /\ s.sum \subseteq Item
    BY <1>1 DEF AddingOK, AddingRow
  <1>3. /\ items' = items \union {s.item}
        /\ total' = [total EXCEPT ![s.quote] = s.sum]
        /\ skewed' = IF s.seen = ItemsOf(s.quote) THEN skewed ELSE skewed \union {s.quote}
        /\ quoting' \subseteq quoting
        /\ UNCHANGED <<quote, orders, confirmed, repeated>>
    BY DEF CommitAddItem
  <1>4. QuoteTypeOK'
    BY <1>2, <1>3 DEF QuoteIInv, QuoteTypeOK
  <1>5. QuoteSessionsOK'
    BY <1>3, SessionsChange DEF QuoteIInv
  <1>6. TotalIsItems'
    <2> SUFFICES ASSUME NEW q \in Quote, q \notin skewed' PROVE total'[q] = ItemsOf(q)'
      BY DEF TotalIsItems
    <2>1. total[q] = ItemsOf(q)
      BY <1>3 DEF QuoteIInv, TotalIsItems
    <2>2. CASE q = s.quote
      <3>1. total'[q] = ItemsOf(q) \union {s.item}
        BY <1>2, <1>3, <2>2 DEF QuoteIInv, QuoteTypeOK
      <3>2. ItemsOf(q)' = ItemsOf(q) \union {s.item}
        BY <1>2, <1>3, <2>2 DEF ItemsOf
      <3> QED BY <3>1, <3>2
    <2>3. CASE q # s.quote
      <3>1. total'[q] = total[q]
        BY <1>3, <2>3 DEF QuoteIInv, QuoteTypeOK
      <3>2. ItemsOf(q)' = ItemsOf(q)
        BY <1>2, <1>3, <2>3 DEF ItemsOf
      <3> QED BY <2>1, <3>1, <3>2
    <2> QED BY <2>2, <2>3
  <1>7. OrderedOnce' /\ OrderIsAnnounced' /\ OneOrderPerQuote'
    BY <1>3 DEF QuoteIInv, OrderedOnce, OrderIsAnnounced, OneOrderPerQuote
  <1>8. OrderTotalIsLines'
    BY <1>3 DEF QuoteIInv, OrderTotalIsLines
  <1> QED BY <1>4, <1>5, <1>6, <1>7, <1>8 DEF QuoteIInv

LEMMA BeginQuoteTransitionKeeps ==
    ASSUME QuoteIInv, NEW r \in QuoteReq, NEW q \in Quote, NEW to \in QuoteStatus,
           BeginQuoteTransition(r, q, to)
    PROVE  QuoteIInv'
  <1> PICK t : t = [by |-> r, quote |-> q, stage |-> "moving", from |-> quote[q], to |-> to,
                   seen |-> ItemsOf(q), sum |-> total[q]]
    OBVIOUS
  <1>1. ItemsOf(q) \subseteq Item /\ total[q] \subseteq Item /\ quote[q] \in QuoteStatus
    BY DEF QuoteIInv, QuoteTypeOK, ItemsOf
  <1>2. quote[q] # "ordered" /\ (to = "ordered" => quote[q] = "contracted")
    BY <1>1 DEF BeginQuoteTransition, QuoteStatus, QUOTE_TRANSITIONS
  <1>3. q \in skewed \/ total[q] = ItemsOf(q)
    BY DEF QuoteIInv, TotalIsItems
  <1>4. t \in MovingRow
    BY <1>1 DEF MovingRow
  <1>5. MovingOK(t)
    BY <1>2, <1>3, <1>4 DEF MovingOK
  <1>6. quoting' = quoting \union {t} /\ UNCHANGED <<quoteTables, skewed, repeated>>
    BY DEF BeginQuoteTransition
  <1>7. confirmed \subseteq OrderId /\ skewed \subseteq Quote
    BY DEF QuoteIInv, QuoteTypeOK
  <1>8. MovingOK(t)'
    BY <1>5, <1>6 DEF MovingOK
  <1>9. QuoteSessionOK(t)'
    BY <1>8 DEF QuoteSessionOK
  <1> QED BY <1>6, <1>7, <1>9, SameQuoteTables DEF quoteTables

LEMMA CommitQuoteTransitionKeeps ==
    ASSUME QuoteIInv, NEW s \in quoting, CommitQuoteTransition(s)
    PROVE  QuoteIInv'
  <1>1. MovingOK(s)
    BY StageOfSession DEF QuoteIInv, CommitQuoteTransition
  <1>2. s.quote \in Quote /\ s.to \in QuoteStatus /\ s.from # "ordered"
    BY <1>1 DEF MovingOK, MovingRow
  <1>3. /\ quote' = [quote EXCEPT ![s.quote] = s.to]
        /\ repeated' = IF quote[s.quote] = s.from THEN repeated ELSE repeated \union {s.quote}
        /\ quoting' \subseteq quoting
        /\ UNCHANGED <<total, items, orders, confirmed, skewed>>
    BY DEF CommitQuoteTransition
  <1>4. QuoteTypeOK'
    BY <1>2, <1>3 DEF QuoteIInv, QuoteTypeOK
  <1>5. QuoteSessionsOK'
    BY <1>3, SessionsChange DEF QuoteIInv
  <1>6. OrderedOnce'
    BY <1>2, <1>3 DEF QuoteIInv, OrderedOnce, QuoteTypeOK, OrderRow
  <1>7. TotalIsItems' /\ OrderIsAnnounced' /\ OneOrderPerQuote'
    BY <1>3 DEF QuoteIInv, TotalIsItems, ItemsOf, OrderIsAnnounced, OneOrderPerQuote
  <1>8. OrderTotalIsLines'
    BY <1>3 DEF QuoteIInv, OrderTotalIsLines
  <1> QED BY <1>4, <1>5, <1>6, <1>7, <1>8 DEF QuoteIInv

LEMMA ReadItemsKeeps ==
    ASSUME QuoteIInv, NEW s \in quoting, ReadItems(s)
    PROVE  QuoteIInv'
  <1> PICK t : t = [by |-> s.by, quote |-> s.quote, stage |-> "read", from |-> s.from,
                   sum |-> s.sum, lines |-> ItemsOf(s.quote)]
    OBVIOUS
  <1>1. MovingOK(s) /\ s.to = "ordered"
    BY StageOfSession DEF QuoteIInv, ReadItems
  <1>2. ItemsOf(s.quote) \subseteq Item
    BY DEF QuoteIInv, QuoteTypeOK, ItemsOf
  <1>3. t \in ReadRow /\ t.from = "contracted" /\ s.quote \in Quote
    BY <1>1, <1>2 DEF MovingOK, MovingRow, ReadRow
  <1>4. /\ skewed' = IF s.seen = ItemsOf(s.quote) THEN skewed ELSE skewed \union {s.quote}
        /\ quoting' \subseteq quoting \union {t}
        /\ UNCHANGED <<quoteTables, repeated>>
    BY DEF ReadItems, QuoteStep
  <1>5. t.quote \in skewed' \/ t.sum = t.lines
    BY <1>1, <1>4 DEF MovingOK
  <1>6. confirmed \subseteq OrderId /\ skewed \subseteq Quote
    BY DEF QuoteIInv, QuoteTypeOK
  <1>7. ReadOK(t)'
    BY <1>3, <1>5 DEF ReadOK
  <1>8. QuoteSessionOK(t)'
    BY <1>7 DEF QuoteSessionOK
  <1>9. skewed \subseteq skewed' /\ skewed' \subseteq Quote
    BY <1>3, <1>4, <1>6
  <1> QED BY <1>4, <1>6, <1>8, <1>9, SameQuoteTables DEF quoteTables

LEMMA PublishConfirmedKeeps ==
    ASSUME QuoteIInv, NEW s \in quoting, NEW o \in OrderId, PublishConfirmed(s, o)
    PROVE  QuoteIInv'
  <1> DEFINE record == OrderFrom(s, o)
  <1> PICK t : t = [by |-> s.by, quote |-> s.quote, stage |-> "published",
                    from |-> s.from, row |-> record]
    OBVIOUS
  <1>1. ReadOK(s)
    BY StageOfSession DEF QuoteIInv, PublishConfirmed
  <1>2. record \in OrderRow /\ record.quote = s.quote /\ record.id = o
        /\ record.total = s.sum /\ record.lines = s.lines
    BY <1>1 DEF ReadOK, ReadRow, OrderRow, OrderFrom
  <1>3. /\ confirmed' = confirmed \union {o}
        /\ quoting' \subseteq quoting \union {t}
        /\ UNCHANGED <<quote, total, items, orders, skewed, repeated>>
    BY DEF PublishConfirmed, QuoteStep, Announce
  <1> HIDE DEF record
  <1>4. t \in PublishedRow /\ t.from = "contracted" /\ t.row = record /\ t.quote = s.quote
    BY <1>1, <1>2 DEF ReadOK, ReadRow, PublishedRow
  <1>5. confirmed \subseteq OrderId /\ skewed \subseteq Quote
    BY DEF QuoteIInv, QuoteTypeOK
  <1>6. PublishedOK(t)'
    BY <1>1, <1>2, <1>3, <1>4 DEF PublishedOK, ReadOK
  <1>7. QuoteSessionOK(t)'
    BY <1>6 DEF QuoteSessionOK
  <1> QED BY <1>3, <1>5, <1>7, SameQuoteTables

LEMMA CommitOrderKeeps ==
    ASSUME QuoteIInv, NEW s \in quoting, CommitOrder(s)
    PROVE  QuoteIInv'
  <1>1. PublishedOK(s)
    BY StageOfSession DEF QuoteIInv, CommitOrder
  <1>2. /\ s.quote \in Quote /\ s.row \in OrderRow /\ s.row.quote = s.quote
        /\ s.from = "contracted" /\ s.row.id \in confirmed
        /\ s.quote \in skewed \/ s.row.total = s.row.lines
    BY <1>1 DEF PublishedOK, PublishedRow
  <1>3. /\ quote' = [quote EXCEPT ![s.quote] = "ordered"]
        /\ orders' = orders \union {s.row}
        /\ repeated' = IF quote[s.quote] = s.from THEN repeated ELSE repeated \union {s.quote}
        /\ quoting' \subseteq quoting
        /\ UNCHANGED <<total, items, confirmed, skewed>>
    BY DEF CommitOrder
  <1>4. QuoteTypeOK'
    BY <1>2, <1>3 DEF QuoteIInv, QuoteTypeOK, QuoteStatus, QUOTE_TRANSITIONS
  <1>5. QuoteSessionsOK'
    BY <1>3, SessionsChange DEF QuoteIInv
  <1>6. TotalIsItems' /\ OrderIsAnnounced'
    BY <1>2, <1>3 DEF QuoteIInv, TotalIsItems, ItemsOf, OrderIsAnnounced
  <1>7. OrderTotalIsLines'
    BY <1>2, <1>3 DEF QuoteIInv, OrderTotalIsLines
  <1>8. OrderedOnce'
    BY <1>2, <1>3 DEF QuoteIInv, OrderedOnce, QuoteTypeOK, OrderRow
  <1>9. \A o \in orders : o.quote = s.quote => s.quote \in repeated'
    BY <1>2, <1>3 DEF QuoteIInv, OrderedOnce
  <1>10. OneOrderPerQuote'
    BY <1>2, <1>3, <1>9 DEF QuoteIInv, OneOrderPerQuote
  <1> QED BY <1>4, <1>5, <1>6, <1>7, <1>8, <1>10 DEF QuoteIInv

LEMMA QuoteRollbackKeeps ==
    ASSUME QuoteIInv, NEW s \in quoting, QuoteRollback(s)
    PROVE  QuoteIInv'
  <1>1. quoting' \subseteq quoting /\ UNCHANGED <<quoteTables, skewed, repeated>>
    BY DEF QuoteRollback
  <1>2. confirmed \subseteq OrderId /\ skewed \subseteq Quote
    BY DEF QuoteIInv, QuoteTypeOK
  <1> QED BY <1>1, <1>2, SameQuoteTables DEF quoteTables

LEMMA QuoteNextKeeps == ASSUME QuoteIInv, QuoteNext PROVE QuoteIInv'
  <1>1. ASSUME NEW q \in Quote, CreateQuote(q) PROVE QuoteIInv'
    BY <1>1, CreateQuoteKeeps
  <1>2. ASSUME NEW r \in QuoteReq, NEW i \in Item, BeginAddItem(r, i) PROVE QuoteIInv'
    BY <1>2, BeginAddItemKeeps
  <1>3. ASSUME NEW r \in QuoteReq, NEW q \in Quote, NEW to \in QuoteStatus,
               BeginQuoteTransition(r, q, to)
        PROVE  QuoteIInv'
    BY <1>3, BeginQuoteTransitionKeeps
  <1>4. ASSUME NEW s \in quoting, CommitAddItem(s) PROVE QuoteIInv'
    BY <1>4, CommitAddItemKeeps
  <1>5. ASSUME NEW s \in quoting, CommitQuoteTransition(s) PROVE QuoteIInv'
    BY <1>5, CommitQuoteTransitionKeeps
  <1>6. ASSUME NEW s \in quoting, ReadItems(s) PROVE QuoteIInv'
    BY <1>6, ReadItemsKeeps
  <1>7. ASSUME NEW s \in quoting, NEW o \in OrderId, PublishConfirmed(s, o) PROVE QuoteIInv'
    BY <1>7, PublishConfirmedKeeps
  <1>8. ASSUME NEW s \in quoting, CommitOrder(s) PROVE QuoteIInv'
    BY <1>8, CommitOrderKeeps
  <1>9. ASSUME NEW s \in quoting, QuoteRollback(s) PROVE QuoteIInv'
    BY <1>9, QuoteRollbackKeeps
  <1> QED BY <1>1, <1>2, <1>3, <1>4, <1>5, <1>6, <1>7, <1>8, <1>9 DEF QuoteNext

LEMMA QuoteStutterKeeps == ASSUME QuoteIInv, UNCHANGED quoteVars PROVE QuoteIInv'
  <1>1. confirmed \subseteq OrderId /\ skewed \subseteq Quote
    BY DEF QuoteIInv, QuoteTypeOK
  <1> QED BY <1>1, SameQuoteTables DEF quoteVars, quoteTables

LEMMA QuoteInductive == QuoteSpec => []QuoteIInv
  BY QuoteInitHolds, QuoteNextKeeps, QuoteStutterKeeps, PTL DEF QuoteSpec

\* What becomes of a quote is one order, of the total and the lines that were
\* quoted, and announced before it is committed, unless two sessions overlapped
\* on the quote in the ways that skewed and repeated record.
THEOREM QuotesBecomeOrders == QuoteSpec => []OrderIsAsQuoted
  <1>1. QuoteIInv => OrderIsAsQuoted
    BY DEF QuoteIInv, OrderIsAsQuoted
  <1> QED BY <1>1, QuoteInductive, PTL

-----------------------------------------------------------------------------
(* Customers, leads, opportunities and tickets: module CustomerCare.       *)
(* Besides the parts of DeskIsSound the invariant types the sessions, with *)
(* the status each has read and the transition its table allows, and       *)
(* follows the view of a customer from query to query.                     *)

AnyStage == {"none"} \union UNION {DOMAIN Table(d) : d \in Doc}

CaringRow == [by : DeskReq, doc : Doc, from : AnyStage, to : AnyStage, score : -1 .. 10]

\* A session follows the table from the status it has read; only one that
\* closes has a score.
CaringOK(s) ==
    /\ s \in CaringRow
    /\ Exists(s.doc)
    /\ s.to \in Targets(s.doc, s.from)
    /\ s.score # -1 => s.to = "closed"

ViewRow == [step : {"none", "counted", "returned"}, of : SUBSET Customer,
            counted : SUBSET Doc, listed : SUBSET Doc]

\* What a view has counted and listed of a customer is still there.
ViewIsThere ==
    view.of # {} =>
        \E c \in Customer : /\ view.of = {c}
                            /\ view.counted \subseteq DocsOf(c) /\ view.listed \subseteq DocsOf(c)

DeskIInv ==
    /\ DeskTypeOK
    /\ stage \in [Doc -> AnyStage]
    /\ \A s \in caring : CaringOK(s)
    /\ view \in ViewRow
    /\ ViewIsThere
    /\ ScoredIsClosed
    /\ ViewListsNewest

-----------------------------------------------------------------------------
LEMMA TableFacts ==
    ASSUME NEW d \in Doc
    PROVE  /\ First(d) \in DOMAIN Table(d)
           /\ DOMAIN Table(d) \subseteq AnyStage /\ "none" \notin DOMAIN Table(d)
           /\ \A from : Targets(d, from) \subseteq DOMAIN Table(d)
           /\ Targets(d, "closed") = {}
  <1> DEFINE Sound(T, f) == /\ f \in DOMAIN T /\ "none" \notin DOMAIN T
                            /\ \A g \in DOMAIN T : T[g] \subseteq DOMAIN T
                            /\ "closed" \in DOMAIN T => T["closed"] = {}
  <1>1. Sound(LEAD_TRANSITIONS, "new")
    <2>1. DOMAIN LEAD_TRANSITIONS = {"new", "contacted", "qualified", "converted", "disqualified"}
      BY DEF LEAD_TRANSITIONS
    <2> QED BY <2>1 DEF LEAD_TRANSITIONS
  <1>2. Sound(OPPORTUNITY_TRANSITIONS, "qualification")
    <2>1. DOMAIN OPPORTUNITY_TRANSITIONS =
              {"qualification", "proposal", "negotiation", "closed_won", "closed_lost"}
      BY DEF OPPORTUNITY_TRANSITIONS
    <2> QED BY <2>1 DEF OPPORTUNITY_TRANSITIONS
  <1>3. Sound(TICKET_TRANSITIONS, "open")
    <2>1. DOMAIN TICKET_TRANSITIONS =
              {"open", "in_progress", "pending_customer", "resolved", "closed"}
      BY DEF TICKET_TRANSITIONS
    <2> QED BY <2>1 DEF TICKET_TRANSITIONS
  <1>4. Sound(ORDER_TRANSITIONS, "confirmed")
    <2>1. DOMAIN ORDER_TRANSITIONS = {"confirmed"}
      BY DEF ORDER_TRANSITIONS
    <2> QED BY <2>1 DEF ORDER_TRANSITIONS
  <1>5. Sound(Table(d), First(d))
    <2> HIDE DEF Sound
    <2>1. Kind(d) = "lead" => Table(d) = LEAD_TRANSITIONS /\ First(d) = "new"
      BY DEF Table, First
    <2>2. Kind(d) = "opportunity" =>
              Table(d) = OPPORTUNITY_TRANSITIONS /\ First(d) = "qualification"
      BY DEF Table, First
    <2>3. Kind(d) = "ticket" => Table(d) = TICKET_TRANSITIONS /\ First(d) = "open"
      BY DEF Table, First
    <2>4. Kind(d) = "order" => Table(d) = ORDER_TRANSITIONS /\ First(d) = "confirmed"
      BY DEF Table, First
    <2> QED BY <1>1, <1>2, <1>3, <1>4, <2>1, <2>2, <2>3, <2>4, DocAssumption
  <1>6. DOMAIN Table(d) \subseteq AnyStage
    BY DEF AnyStage
  <1> QED BY <1>5, <1>6 DEF Targets

LEMMA SlaIsTwoDays ==
    ASSUME NEW c \in Customer
    PROVE  SlaHours(Rating(c)) \in 0 .. 48
  BY RatingAssumption DEF SlaHours, SLA_HOURS

LEMMA DeskInitHolds == DeskInit => DeskIInv
  <1> SUFFICES ASSUME DeskInit PROVE DeskIInv
    OBVIOUS
  <1> USE DEF DeskInit
  <1>1. DeskTypeOK
    BY DEF DeskTypeOK, Exists, NoView
  <1>2. view \in ViewRow /\ ViewIsThere /\ ViewListsNewest
    BY DEF ViewRow, ViewIsThere, ViewListsNewest, NoView
  <1>3. ScoredIsClosed /\ stage \in [Doc -> AnyStage]
    BY DEF ScoredIsClosed, AnyStage
  <1> QED BY <1>1, <1>2, <1>3 DEF DeskIInv

\* Documents that exist go on existing, with the moment they were created.
DocsStay == \A d \in Doc : Exists(d) => stage'[d] # "none" /\ opened'[d] = opened[d]

LEMMA CaringStays ==
    ASSUME DeskIInv, DocsStay, NEW s \in caring
    PROVE  CaringOK(s)'
  <1>1. CaringOK(s)
    BY DEF DeskIInv
  <1>2. s.doc \in Doc
    BY <1>1 DEF CaringOK, CaringRow
  <1> QED BY <1>1, <1>2 DEF CaringOK, DocsStay, Exists

LEMMA ViewStays ==
    ASSUME DeskIInv, DocsStay, view' = view
    PROVE  ViewIsThere' /\ ViewListsNewest' /\ view' \in ViewRow
  <1>1. \A c : /\ DocsOf(c) \subseteq DocsOf(c)'
               /\ \A d \in DocsOf(c) : opened'[d] = opened[d]
    BY DEF DocsOf, DocsStay, Exists
  <1>2. ViewIsThere' /\ view' \in ViewRow
    BY <1>1 DEF DeskIInv, ViewIsThere
  <1>3. view.of # {} => \A d \in view.counted \union view.listed : opened'[d] = opened[d]
    BY <1>1 DEF DeskIInv, ViewIsThere
  <1>4. ViewListsNewest'
    BY <1>3 DEF DeskIInv, ViewListsNewest
  <1> QED BY <1>2, <1>4

\* A step of the sessions or the views alone.
LEMMA SameDesk ==
    ASSUME DeskIInv, UNCHANGED <<deskTables, passed>>,
           \A s \in caring' \ caring : CaringOK(s)
    PROVE  /\ stage' \in [Doc -> AnyStage] /\ ScoredIsClosed' /\ DocsStay
           /\ \A s \in caring' : CaringOK(s)'
           /\ view' = view => DeskIInv'
  <1>1. DocsStay
    BY DEF DocsStay, Exists, deskTables
  <1>2. \A s \in caring' : CaringOK(s)'
    <2> SUFFICES ASSUME NEW s \in caring', s \notin caring PROVE CaringOK(s)'
      BY <1>1, CaringStays
    <2> QED BY DEF CaringOK, deskTables, Exists
  <1>3. stage' \in [Doc -> AnyStage] /\ ScoredIsClosed'
    BY DEF DeskIInv, ScoredIsClosed, deskTables
  <1>4. view' = view => DeskTypeOK'
    BY DEF DeskIInv, DeskTypeOK, deskTables, Exists
  <1> QED BY <1>1, <1>2, <1>3, <1>4, ViewStays DEF DeskIInv

LEMMA CreateCustomerKeeps ==
    ASSUME DeskIInv, NEW c \in Customer, CreateCustomer(c) \/ AddContact(c)
    PROVE  DeskIInv'
  <1>1. /\ customers' \in SUBSET Customer /\ customers \subseteq customers'
        /\ contacts' \in [Customer -> 0 .. 1]
        /\ UNCHANGED <<stage, opened, due, score, caring, view, passed>>
    BY DEF DeskIInv, DeskTypeOK, CreateCustomer, AddContact
  <1>2. DocsStay
    BY <1>1 DEF DocsStay, Exists
  <1>3. DeskTypeOK'
    BY <1>1 DEF DeskIInv, DeskTypeOK, Exists
  <1>4. ScoredIsClosed'
    BY <1>1 DEF DeskIInv, ScoredIsClosed
  <1> QED BY <1>1, <1>2, <1>3, <1>4, CaringStays, ViewStays DEF DeskIInv

LEMMA CreateDocKeeps ==
    ASSUME DeskIInv, NEW d \in Doc, NEW moment \in Moment,
           CreateDoc(d, moment) \/ CreateServiceTicket(d, moment)
    PROVE  DeskIInv'
  <1>1. /\ ~Exists(d) /\ Client(d) \in customers
        /\ stage' = [stage EXCEPT ![d] = First(d)] /\ opened' = [opened EXCEPT ![d] = moment]
        /\ UNCHANGED <<customers, contacts, score, caring, view, passed>>
    BY DEF CreateDoc, CreateServiceTicket, Insert
  <1>2. due' \in [Doc -> 0 .. 48]
    <2>1. due \in [Doc -> 0 .. 48]
      BY DEF DeskIInv, DeskTypeOK
    <2>2. SlaHours(Rating(Client(d))) \in 0 .. 48
      BY SlaIsTwoDays, DocAssumption
    <2> QED BY <2>1, <2>2 DEF CreateDoc, CreateServiceTicket
  <1>3. First(d) \in DOMAIN Table(d) /\ First(d) # "none" /\ First(d) \in AnyStage
    BY TableFacts
  <1>4. /\ stage' \in [Doc -> AnyStage] /\ stage'[d] = First(d)
        /\ \A e \in Doc : e # d => stage'[e] = stage[e] /\ opened'[e] = opened[e]
        /\ opened' \in [Doc -> Nat]
    <2>1. moment \in Nat /\ opened \in [Doc -> Nat]
      BY ListAssumption DEF DeskIInv, DeskTypeOK
    <2> QED BY <1>1, <1>3, <2>1 DEF DeskIInv
  <1>5. DocsStay
    BY <1>1, <1>3, <1>4 DEF DocsStay, Exists
  <1>6. DeskTypeOK'
    BY <1>1, <1>2, <1>3, <1>4 DEF DeskIInv, DeskTypeOK, Exists
  <1>7. ScoredIsClosed'
    BY <1>1, <1>4 DEF DeskIInv, ScoredIsClosed, Exists
  <1> QED BY <1>1, <1>4, <1>5, <1>6, <1>7, CaringStays, ViewStays DEF DeskIInv

LEMMA BeginMoveDocKeeps ==
    ASSUME DeskIInv, NEW r \in DeskReq, NEW d \in Doc, NEW to, BeginMoveDoc(r, d, to)
    PROVE  DeskIInv'
  <1> PICK s : s = [by |-> r, doc |-> d, from |-> stage[d], to |-> to, score |-> -1]
    OBVIOUS
  <1>1. Exists(d) /\ to \in Targets(d, stage[d]) /\ caring' = caring \union {s}
        /\ UNCHANGED <<deskTables, view, passed>>
    BY DEF BeginMoveDoc
  <1>2. to \in AnyStage
    BY <1>1, TableFacts
  <1>3. CaringOK(s)
    BY <1>1, <1>2 DEF CaringOK, CaringRow, DeskIInv
  <1> QED BY <1>1, <1>3, SameDesk

LEMMA BeginCloseKeeps ==
    ASSUME DeskIInv, NEW r \in DeskReq, NEW d \in Doc, NEW n \in Score, BeginClose(r, d, n)
    PROVE  DeskIInv'
  <1> PICK s : s = [by |-> r, doc |-> d, from |-> stage[d], to |-> "closed", score |-> n]
    OBVIOUS
  <1>1. Exists(d) /\ "closed" \in Targets(d, stage[d]) /\ caring' = caring \union {s}
        /\ UNCHANGED <<deskTables, view, passed>>
    BY DEF BeginClose, MayClose
  <1>2. "closed" \in AnyStage /\ n \in -1 .. 10 /\ stage[d] \in AnyStage
    BY <1>1, TableFacts, ScoreAssumption DEF DeskIInv
  <1>3. s \in CaringRow
    BY <1>2 DEF CaringRow
  <1>4. CaringOK(s)
    BY <1>1, <1>3 DEF CaringOK
  <1> QED BY <1>1, <1>4, SameDesk

LEMMA CommitMoveDocKeeps ==
    ASSUME DeskIInv, NEW s \in caring, CommitMoveDoc(s)
    PROVE  DeskIInv'
  <1>1. CaringOK(s)
    BY DEF DeskIInv
  <1>2. /\ stage' = [stage EXCEPT ![s.doc] = s.to]
        /\ score' = [score EXCEPT ![s.doc] = Stamped(s)]
        /\ passed' = Passed(s)
        /\ caring' = caring \ {s}
        /\ UNCHANGED <<customers, contacts, opened, due, view>>
    BY DEF CommitMoveDoc
  <1>3. /\ s.doc \in Doc /\ Exists(s.doc) /\ s.to \in Targets(s.doc, s.from)
        /\ s.score \in -1 .. 10 /\ (s.score # -1 => s.to = "closed")
    BY <1>1 DEF CaringOK, CaringRow
  <1>4. s.to \in DOMAIN Table(s.doc) /\ s.to # "none" /\ s.to \in AnyStage /\ s.from # "closed"
    BY <1>3, TableFacts
  <1>5. /\ stage' \in [Doc -> AnyStage] /\ stage'[s.doc] = s.to
        /\ \A e \in Doc : e # s.doc => stage'[e] = stage[e]
    BY <1>2, <1>3, <1>4 DEF DeskIInv
  <1>6. /\ score' \in [Doc -> -1 .. 10] /\ score'[s.doc] = Stamped(s)
        /\ \A e \in Doc : e # s.doc => score'[e] = score[e]
    BY <1>2, <1>3 DEF DeskIInv, DeskTypeOK, Stamped
  <1>7. DocsStay
    BY <1>2, <1>4, <1>5 DEF DocsStay, Exists
  <1>8. DeskTypeOK'
    <2>1. passed' \subseteq Doc
      BY <1>2, <1>3 DEF DeskIInv, DeskTypeOK, Passed
    <2> QED BY <1>2, <1>3, <1>4, <1>5, <1>6, <2>1 DEF DeskIInv, DeskTypeOK, Exists
  <1>9. ScoredIsClosed'
    <2> SUFFICES ASSUME NEW d \in Doc, d \notin passed', score'[d] # -1
                 PROVE  stage'[d] = "closed"
      BY DEF ScoredIsClosed
    <2>1. CASE d # s.doc
      <3>1. d \notin passed
        BY <1>2, <2>1 DEF Passed
      <3> QED BY <1>5, <1>6, <2>1, <3>1 DEF DeskIInv, ScoredIsClosed
    <2>2. CASE d = s.doc /\ s.to = "closed"
      BY <1>5, <2>2
    <2>3. CASE d = s.doc /\ s.to # "closed"
      <3>1. stage[d] = s.from /\ d \notin passed /\ s.score = -1
        BY <1>2, <1>3, <2>3 DEF Passed
      <3>2. score[d] # -1
        BY <1>6, <2>3, <3>1 DEF Stamped
      <3>3. stage[d] = "closed"
        BY <3>1, <3>2 DEF DeskIInv, ScoredIsClosed
      <3> QED BY <1>4, <3>1, <3>3
    <2> QED BY <2>1, <2>2, <2>3
  <1> QED BY <1>2, <1>5, <1>7, <1>8, <1>9, CaringStays, ViewStays DEF DeskIInv

LEMMA DeskRollbackKeeps ==
    ASSUME DeskIInv, NEW s \in caring, DeskRollback(s)
    PROVE  DeskIInv'
  <1>1. caring' \subseteq caring /\ UNCHANGED <<deskTables, view, passed>>
    BY DEF DeskRollback
  <1> QED BY <1>1, SameDesk

LEMMA CountKeeps ==
    ASSUME DeskIInv, CountLeads \/ \E c \in Customer : CountActivities(c)
    PROVE  DeskIInv'
  <1>1. UNCHANGED <<deskTables, caring, passed>>
    BY DEF CountLeads, CountActivities
  <1>2. /\ stage' \in [Doc -> AnyStage] /\ ScoredIsClosed'
        /\ \A s \in caring' : CaringOK(s)'
    BY <1>1, SameDesk
  <1>3. /\ view' \in ViewRow /\ view'.step = "counted"
        /\ \/ view'.of = {}
           \/ \E c \in Customer : view'.of = {c} /\ view'.counted = DocsOf(c)
        /\ view'.listed = {}
    <2>1. CASE CountLeads
      BY <2>1 DEF CountLeads, ViewRow, Prospects
    <2>2. ASSUME NEW c \in Customer, CountActivities(c)
          PROVE  view' \in ViewRow /\ view'.step = "counted" /\ view'.of = {c}
                 /\ view'.counted = DocsOf(c) /\ view'.listed = {}
      BY <2>2 DEF CountActivities, ViewRow, DocsOf
    <2> QED BY <2>1, <2>2
  <1>4. ViewIsThere' /\ ViewListsNewest'
    <2>1. \A c : DocsOf(c)' = DocsOf(c)
      BY <1>1 DEF DocsOf, Exists, deskTables
    <2> QED BY <1>3, <2>1 DEF ViewIsThere, ViewListsNewest
  <1>5. DeskTypeOK'
    BY <1>1, <1>3 DEF DeskIInv, DeskTypeOK, deskTables, Exists, ViewRow
  <1> QED BY <1>2, <1>3, <1>4, <1>5 DEF DeskIInv

LEMMA ListActivitiesKeeps ==
    ASSUME DeskIInv, ListActivities
    PROVE  DeskIInv'
  <1>1. /\ UNCHANGED <<deskTables, caring, passed>> /\ view.step = "counted"
        /\ \E l \in Listed : view' = [view EXCEPT !.step = "returned", !.listed = l]
    BY DEF ListActivities
  <1>2. /\ stage' \in [Doc -> AnyStage] /\ ScoredIsClosed'
        /\ \A s \in caring' : CaringOK(s)'
    BY <1>1, SameDesk
  <1>3. PICK l \in Listed : view' = [view EXCEPT !.step = "returned", !.listed = l]
    BY <1>1
  <1>4. l \subseteq Doc
    BY DEF Listed, Prospects, DocsOf, Newest
  <1>5. view' \in ViewRow /\ view'.step = "returned" /\ view'.of = view.of
        /\ view'.counted = view.counted /\ view'.listed = l
    BY <1>3, <1>4 DEF DeskIInv, ViewRow
  <1>6. ViewIsThere' /\ ViewListsNewest'
    <2>1. ASSUME view.of # {}
          PROVE  /\ \E c \in Customer : /\ view.of = {c} /\ view.counted \subseteq DocsOf(c)
                                        /\ l \subseteq DocsOf(c)
                 /\ \A d \in view.counted \ l : /\ Cardinality(l) = ListLimit
                                              /\ \A e \in l : opened[e] >= opened[d]
      <3>1. PICK c \in Customer : view.of = {c} /\ view.counted \subseteq DocsOf(c)
        BY <2>1 DEF DeskIInv, ViewIsThere
      <3>2. l \in Newest(DocsOf(c))
        BY <3>1 DEF Listed
      <3>3. /\ l \subseteq DocsOf(c) /\ (l # DocsOf(c) => Cardinality(l) = ListLimit)
            /\ \A d \in l, e \in DocsOf(c) \ l : opened[d] >= opened[e]
        BY <3>2 DEF Newest
      <3> QED BY <3>1, <3>3
    <2>2. \A c : DocsOf(c)' = DocsOf(c)
      BY <1>1 DEF DocsOf, Exists, deskTables
    <2>3. opened' = opened
      BY <1>1 DEF deskTables
    <2> QED BY <1>5, <2>1, <2>2, <2>3 DEF ViewListsNewest, ViewIsThere
  <1>7. DeskTypeOK'
    BY <1>1, <1>5 DEF DeskIInv, DeskTypeOK, deskTables, Exists, ViewRow
  <1> QED BY <1>2, <1>5, <1>6, <1>7 DEF DeskIInv

LEMMA DeskNextKeeps == ASSUME DeskIInv, DeskNext PROVE DeskIInv'
  <1>1. ASSUME NEW c \in Customer, CreateCustomer(c) \/ AddContact(c) PROVE DeskIInv'
    BY <1>1, CreateCustomerKeeps
  <1>2. ASSUME NEW d \in Doc, NEW moment \in Moment,
               CreateDoc(d, moment) \/ CreateServiceTicket(d, moment)
        PROVE  DeskIInv'
    BY <1>2, CreateDocKeeps
  <1>3. ASSUME NEW r \in DeskReq, NEW d \in Doc, NEW to, BeginMoveDoc(r, d, to) PROVE DeskIInv'
    BY <1>3, BeginMoveDocKeeps
  <1>4. ASSUME NEW r \in DeskReq, NEW d \in Doc, NEW n \in Score, BeginClose(r, d, n)
        PROVE  DeskIInv'
    BY <1>4, BeginCloseKeeps
  <1>5. ASSUME NEW s \in caring, CommitMoveDoc(s) PROVE DeskIInv'
    BY <1>5, CommitMoveDocKeeps
  <1>6. ASSUME NEW s \in caring, DeskRollback(s) PROVE DeskIInv'
    BY <1>6, DeskRollbackKeeps
  <1> QED BY <1>1, <1>2, <1>3, <1>4, <1>5, <1>6, CountKeeps, ListActivitiesKeeps DEF DeskNext

LEMMA DeskStutterKeeps == ASSUME DeskIInv, UNCHANGED deskVars PROVE DeskIInv'
  BY SameDesk DEF deskVars

LEMMA DeskInductive == DeskSpec => []DeskIInv
  BY DeskInitHolds, DeskNextKeeps, DeskStutterKeeps, PTL DEF DeskSpec

\* A ticket scored by its customer is closed and stays closed unless a session
\* set its status over one it had not read; what the view of a customer counts
\* and does not list is no newer than what it lists, of which there are then as
\* many as it may list; and every document is in a status of its own table.
THEOREM DeskIsSoundHolds == DeskSpec => []DeskIsSound
  <1>1. DeskIInv => DeskIsSound
    BY DEF DeskIInv, DeskIsSound
  <1> QED BY <1>1, DeskInductive, PTL
=============================================================================
