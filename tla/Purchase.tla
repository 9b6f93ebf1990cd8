------------------------------- MODULE Purchase -------------------------------
(***************************************************************************)
(* The purchase chain (supply chain lane: services/purchase_service.py,    *)
(* models/purchase.py): purchase requests, RFQs, purchase orders and the   *)
(* receipts against them.                                                  *)
(*                                                                         *)
(* As in module Inventory a request reads in one step and commits in a     *)
(* later one.  Approving an order also appends "po.approved" to the Redis  *)
(* stream, after the UPDATE has been flushed, which locks the row, and     *)
(* before the session is committed: the two can succeed independently.     *)
(***************************************************************************)
EXTENDS Integers, FiniteSets, FiniteSetsExt

CONSTANTS
    Req,                           \* database sessions open at once
    Request, Rfq, Order, Receipt,  \* documents of the four kinds
    Line,                          \* purchase order lines
    Product,                       \* products ordered or delivered
    OrderOf(_), ProductOf(_),      \* order and product of a line
    Ordered(_),                    \* quantity of a line
    Delivery,                      \* what a receipt may deliver of each product, ge=0
    MaxReceived                    \* bound: received quantity of a line

Doc == Request \union Rfq \union Order \union Receipt

\* Documents of two kinds are rows of two tables.
ASSUME DocAssumption ==
    /\ Order # {}
    /\ Request \intersect (Rfq \union Order \union Receipt) = {}
    /\ Rfq \intersect (Order \union Receipt) = {}
    /\ Order \intersect Receipt = {}

\* The request schemas: a line orders a positive quantity (gt=0), an order has
\* at least one line.
ASSUME LineAssumption ==
    /\ \A l \in Line : OrderOf(l) \in Order /\ ProductOf(l) \in Product
    /\ \A l \in Line : Ordered(l) \in Nat \ {0}
    /\ \A o \in Order : \E l \in Line : OrderOf(l) = o
ASSUME DeliveryAssumption ==
    Delivery \subseteq [Product -> Nat] /\ MaxReceived \in Nat

VARIABLES
    status,     \* status of every document, "none" before it is created
    received,   \* PurchaseOrderLine.received_quantity
    delivery,   \* what a receipt delivers: its order and quantity per product
    published,  \* orders with a po.approved event on the stream
    moving,     \* sessions inside transition_pr, _rfq, _po or _receipt
    receiving,  \* sessions inside transition_receipt towards "confirmed"
    lost,       \* history: lines of which a COMMIT overwrote an unread quantity
    restated,   \* history: documents whose status was set over one not read
    misjudged   \* history: orders judged complete or not by outdated quantities

history == <<lost, restated, misjudged>>
vars == <<status, received, delivery, published, moving, receiving, history>>

-----------------------------------------------------------------------------
(* validate_transition                                                       *)

OrderTransitions ==
    {<<"draft", "submitted">>, <<"draft", "cancelled">>,
     <<"submitted", "approved">>, <<"submitted", "rejected">>,
     <<"submitted", "cancelled">>, <<"approved", "closed">>,
     <<"approved", "cancelled">>, <<"rejected", "draft">>}

RfqTransitions ==
    {<<"draft", "sent">>, <<"draft", "cancelled">>, <<"sent", "responded">>,
     <<"sent", "cancelled">>, <<"responded", "closed">>, <<"responded", "cancelled">>}

ReceiptTransitions ==
    {<<"draft", "confirmed">>, <<"draft", "cancelled">>, <<"confirmed", "closed">>}

VALID_TRANSITIONS(d) ==
    CASE d \in Request \union Order -> OrderTransitions
      [] d \in Rfq                  -> RfqTransitions
      [] d \in Receipt              -> ReceiptTransitions

Status == {"none", "draft", "submitted", "approved", "rejected", "cancelled",
           "closed", "sent", "responded", "confirmed"}

Lines(o) == {l \in Line : OrderOf(l) = o}

NoDelivery == [order |-> CHOOSE o \in Order : TRUE, qty |-> [p \in Product |-> 0]]

Free(r) == /\ \A t \in moving : t.by # r
           /\ \A t \in receiving : t.by # r

\* A session that has published holds the lock of its order until it ends.
Locked(d) == \E t \in moving : t.doc = d /\ t.sent

Init ==
    /\ status = [d \in Doc |-> "none"]
    /\ received = [l \in Line |-> 0]
    /\ delivery = [c \in Receipt |-> NoDelivery]
    /\ published = {}
    /\ moving = {}
    /\ receiving = {}
    /\ lost = {}
    /\ restated = {}
    /\ misjudged = {}

-----------------------------------------------------------------------------
(* create_pr, create_rfq, create_po and create_receipt.  Nobody can see or   *)
(* use the new document before its INSERT is committed, so these are single  *)
(* steps; that of create_receipt stands where it reads the order's status.   *)

Create(d) ==
    /\ d \in Request \union Rfq \union Order
    /\ status[d] = "none"
    /\ status' = [status EXCEPT ![d] = "draft"]
    /\ UNCHANGED <<received, delivery, published, moving, receiving, history>>

CreateReceipt(c, o, qty) ==
    /\ status[c] = "none"
    /\ status[o] = "approved"
    /\ status' = [status EXCEPT ![c] = "draft"]
    /\ delivery' = [delivery EXCEPT ![c] = [order |-> o, qty |-> qty]]
    /\ UNCHANGED <<received, published, moving, receiving, history>>

-----------------------------------------------------------------------------
(* transition_pr, transition_rfq, transition_po, and transition_receipt to   *)
(* any status but "confirmed".                                               *)

BeginTransition(r, d, to) ==
    /\ Free(r)
    /\ <<status[d], to>> \in VALID_TRANSITIONS(d)
    /\ to # "confirmed"
    /\ moving' = moving \union {[by |-> r, doc |-> d, from |-> status[d], to |-> to,
                                 sent |-> FALSE]}
    /\ UNCHANGED <<status, received, delivery, published, receiving, history>>

NeedsEvent(t) == t.doc \in Order /\ t.to = "approved"

\* Mutant: the status may be committed before the event is appended.
MutantAnnounced(t) == TRUE

\* The handler reaches its end only when publish() has returned.
Announced(t) == NeedsEvent(t) => t.sent

\* flush(), then publish("po.approved").
PublishApproved(t) ==
    /\ NeedsEvent(t)
    /\ ~t.sent
    /\ ~Locked(t.doc)
    /\ published' = published \union {t.doc}
    /\ moving' = (moving \ {t}) \union {[t EXCEPT !.sent = TRUE]}
    /\ UNCHANGED <<status, received, delivery, receiving, history>>

CommitTransition(t) ==
    /\ Announced(t)
    /\ t.sent \/ ~Locked(t.doc)
    /\ status' = [status EXCEPT ![t.doc] = t.to]
    /\ moving' = moving \ {t}
    /\ restated' = IF status[t.doc] = t.from THEN restated ELSE restated \union {t.doc}
    /\ UNCHANGED <<received, delivery, published, receiving, lost, misjudged>>

\* The publisher raises, the COMMIT fails or the process dies.
RollbackTransition(t) ==
    /\ moving' = moving \ {t}
    /\ UNCHANGED <<status, received, delivery, published, receiving, history>>

-----------------------------------------------------------------------------
(* transition_receipt to "confirmed" and _update_po_received: one SELECT for *)
(* the receipt, one for the order and one for its lines.                     *)

\* Mutant: a receipt may be confirmed again.
MutantBeginReceive(r, c) ==
    /\ Free(r)
    /\ status[c] \in {"draft", "confirmed"}
    /\ receiving' = receiving \union
           {[by |-> r, receipt |-> c, from |-> status[c], order |-> "unread",
             got |-> <<>>, left |-> <<>>]}
    /\ UNCHANGED <<status, received, delivery, published, moving, history>>

BeginReceive(r, c) ==
    /\ Free(r)
    /\ <<status[c], "confirmed">> \in VALID_TRANSITIONS(c)
    /\ receiving' = receiving \union
           {[by |-> r, receipt |-> c, from |-> status[c], order |-> "unread",
             got |-> <<>>, left |-> <<>>]}
    /\ UNCHANGED <<status, received, delivery, published, moving, history>>

ReadOrder(t) ==
    /\ t.order = "unread"
    /\ receiving' = (receiving \ {t}) \union
           {[t EXCEPT !.order = status[delivery[t.receipt].order]]}
    /\ UNCHANGED <<status, received, delivery, published, moving, history>>

\* po_line_map keeps one line per product (the last of an unordered SELECT);
\* delivered products without a line are ignored.
ReadLines(t) ==
    LET c    == t.receipt
        mine == Lines(delivery[c].order)
    IN  /\ t.order # "unread"
        /\ t.got = <<>>
        /\ \E kept \in SUBSET mine :
             /\ \A l \in mine : \E k \in kept : ProductOf(k) = ProductOf(l)
             /\ \A k, l \in kept : ProductOf(k) = ProductOf(l) => k = l
             /\ LET left == [l \in mine |-> IF l \in kept
                                 THEN received[l] + delivery[c].qty[ProductOf(l)]
                                 ELSE received[l]]
                IN  /\ \A l \in mine : left[l] <= MaxReceived
                    /\ receiving' = (receiving \ {t}) \union
                         {[t EXCEPT !.got = [l \in mine |-> received[l]], !.left = left]}
        /\ UNCHANGED <<status, received, delivery, published, moving, history>>

\* Only columns whose value changed are written.
Written(t) == {l \in DOMAIN t.got : t.left[l] # t.got[l]}

\* Mutant: one complete line is enough.
MutantAllReceived(t) == \E l \in DOMAIN t.left : t.left[l] >= Ordered(l)

\* Mutant: a line is only complete when more than what was ordered has come in.
MutantOverReceived(t) == \A l \in DOMAIN t.left : t.left[l] > Ordered(l)

AllReceived(t) == \A l \in DOMAIN t.left : t.left[l] >= Ordered(l)
ClosesOrder(t) == AllReceived(t) /\ t.order # "closed"

CommitReceive(t) ==
    LET c == t.receipt
        o == delivery[c].order
    IN  /\ t.got # <<>>
        /\ ClosesOrder(t) => ~Locked(o)
        /\ status' = [d \in Doc |-> CASE d = c                    -> "confirmed"
                                      [] d = o /\ ClosesOrder(t) -> "closed"
                                      [] OTHER                    -> status[d]]
        /\ received' = [l \in Line |-> IF l \in Written(t) THEN t.left[l] ELSE received[l]]
        /\ lost' = lost \union {l \in Written(t) : t.got[l] # received[l]}
        /\ restated' = restated
               \union (IF status[c] = t.from THEN {} ELSE {c})
               \union (IF ClosesOrder(t) /\ status[o] # t.order THEN {o} ELSE {})
        /\ misjudged' = IF \E l \in DOMAIN t.got : t.got[l] # received[l]
                         THEN misjudged \union {o} ELSE misjudged
        /\ receiving' = receiving \ {t}
        /\ UNCHANGED <<delivery, published, moving>>

RollbackReceive(t) ==
    /\ receiving' = receiving \ {t}
    /\ UNCHANGED <<status, received, delivery, published, moving, history>>

Next ==
    \/ \E d \in Doc : Create(d)
    \/ \E c \in Receipt, o \in Order, qty \in Delivery : CreateReceipt(c, o, qty)
    \/ \E r \in Req, d \in Doc, to \in Status : BeginTransition(r, d, to)
    \/ \E t \in moving : PublishApproved(t)
    \/ \E t \in moving : CommitTransition(t)
    \/ \E t \in moving : RollbackTransition(t)
    \/ \E r \in Req, c \in Receipt : BeginReceive(r, c)
    \/ \E t \in receiving : ReadOrder(t)
    \/ \E t \in receiving : ReadLines(t)
    \/ \E t \in receiving : CommitReceive(t)
    \/ \E t \in receiving : RollbackReceive(t)

Spec == Init /\ [][Next]_vars

-----------------------------------------------------------------------------
\* The document tables and the sessions working on them; a receipt is only
\* ever written for an order that exists.
TypeOK ==
    /\ status \in [Doc -> Status]
    /\ \A c \in Receipt : status[c] # "none" => status[delivery[c].order] # "none"
    /\ received \in [Line -> Nat]
    /\ delivery \in [Receipt -> [order : Order, qty : [Product -> Nat]]]
    /\ published \subseteq Order
    /\ moving \subseteq [by : Req, doc : Doc, from : Status, to : Status, sent : BOOLEAN]
    /\ \A t \in receiving :
          /\ t.by \in Req /\ t.receipt \in Receipt /\ t.from \in Status
          /\ t.order \in Status \union {"unread"}
          /\ DOMAIN t.left = DOMAIN t.got
          /\ DOMAIN t.got \subseteq Line
          /\ \A l \in DOMAIN t.got : t.got[l] \in Nat /\ t.left[l] \in Nat
    /\ lost \subseteq Line
    /\ restated \subseteq Doc
    /\ misjudged \subseteq Order

Counted(c) == status[c] \in {"confirmed", "closed"}

\* What an order line has received is what the confirmed receipts of its order
\* delivered of its product, if the line is the only one of that product and
\* no two sessions overlapped on the line or on a receipt of the order.
ReceivedIsDelivered ==
    \A l \in Line \ lost :
        LET mine == {c \in Receipt : status[c] # "none" /\ delivery[c].order = OrderOf(l)}
            same == {k \in Lines(OrderOf(l)) : ProductOf(k) = ProductOf(l)}
        IN  (mine \intersect restated = {} /\ same = {l}) =>
              received[l] = SumFunction([c \in {d \in mine : Counted(d)} |->
                                            delivery[c].qty[ProductOf(l)]])

\* An order that has been approved has been announced on scm-events, however
\* the sessions interleave and wherever one of them fails.
ApprovedIsAnnounced ==
    \A o \in Order : status[o] \in {"approved", "closed"} => o \in published

\* A receipt closes its order only when every line has come in, unless it
\* wrote a quantity over one it had not read.
ClosedByReceiptIsComplete ==
    [][\A c \in Receipt :
         LET o == delivery[c].order
         IN  (/\ status'[c] = "confirmed" /\ status[c] # "confirmed"
              /\ status'[o] = "closed" /\ status[o] # "closed") =>
                \A l \in Lines(o) : received'[l] >= Ordered(l) \/ l \in lost']_vars

\* A document leaves its state machine only in the two ways in which the check
\* of validate_transition is passed by: a status that changed after it was
\* read, and the closing of the order by a receipt.
TransitionsEnforcedUnlessStale ==
    [][\A d \in Doc : (status[d] # "none" /\ status'[d] # status[d]) =>
          \/ <<status[d], status'[d]>> \in VALID_TRANSITIONS(d)
          \/ d \in restated'
          \/ d \in Order /\ status'[d] = "closed" /\ receiving' # receiving]_vars

\* Once everything has come in the order is closed, unless a receipt judged it
\* by quantities another session was about to change, as two receipts do that
\* complete it together, or its status was overwritten unread.
CompleteIsClosedUnlessMisjudged ==
    \A o \in Order \ (restated \union misjudged) :
        (status[o] = "approved" /\ \E c \in Receipt : Counted(c) /\ delivery[c].order = o) =>
            \E l \in Lines(o) : received[l] < Ordered(l)

\* models/purchase.py: the legal transitions are declared in VALID_TRANSITIONS
\* and enforced by the service.
TransitionsEnforced ==
    [][\A d \in Doc : (status[d] # "none" /\ status'[d] # status[d]) =>
          <<status[d], status'[d]>> \in VALID_TRANSITIONS(d)]_vars
=============================================================================
