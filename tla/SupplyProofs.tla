-------------------------- MODULE SupplyProofs --------------------------
(***************************************************************************)
(* Theorems about modules Purchase, Suppliers, Warehouses and Migration    *)
(* for any number of documents, products, suppliers, sessions, locations   *)
(* and V4 rows.                                                            *)
(*                                                                         *)
(* Purchase: a receipt exists only for an order that was approved, and     *)
(* whoever approves an order publishes before it commits. A session that   *)
(* confirms a receipt knows the quantities of all lines of the order: none *)
(* of them can have fallen since, unless an update was lost on it, and if  *)
(* none has changed at all the session judges the order by what it leaves. *)
(* What a line has received is a sum over the confirmed receipts, to which *)
(* a commit adds its own.                                                  *)
(*                                                                         *)
(* Suppliers: a decision is made on a change that was pending when it was  *)
(* read.                                                                   *)
(*                                                                         *)
(* Migration: a key has been drawn by a row that was loaded or skipped,    *)
(* and a row that was loaded refers only to keys that were drawn.          *)
(*                                                                         *)
(* Warehouses: no location is above itself, since one that is created      *)
(* hangs under one that was there and one that is migrated under an        *)
(* earlier row. As long as some location is not shown, a level more of the *)
(* tree shows another one.                                                 *)
(***************************************************************************)
EXTENDS Purchase, Migration, Suppliers, SumTheorems

Transitions == [by : Req, doc : Doc, from : Status, to : Status, sent : BOOLEAN]

\* Quantities of some of the lines.
Quantities == UNION {[D -> Nat] : D \in SUBSET Line}

Confirmations == [by : Req, receipt : Receipt, from : Status, order : Status \union {"unread"},
                  got : Quantities, left : Quantities]

OrderOfReceipt(c) == delivery[c].order

Moves(t) ==
    /\ status[t.doc] # "none"
    /\ <<t.from, t.to>> \in VALID_TRANSITIONS(t.doc)
    /\ t.to # "confirmed"
    /\ t.sent => t.doc \in published
    /\ t.doc \in Order /\ t.to = "closed" => t.doc \in published

Confirms(t) ==
    /\ status[t.receipt] # "none"
    /\ t.from = "draft"
    /\ t.order = "closed" => \/ status[OrderOfReceipt(t.receipt)] = "closed"
                             \/ OrderOfReceipt(t.receipt) \in restated
    /\ DOMAIN t.left = DOMAIN t.got
    /\ t.got # <<>> => DOMAIN t.got = Lines(OrderOfReceipt(t.receipt))
    /\ \A l \in DOMAIN t.got : t.got[l] <= t.left[l] /\ (t.got[l] <= received[l] \/ l \in lost)

SessionsFit ==
    /\ \A t \in moving : Moves(t)
    /\ receiving \subseteq Confirmations
    /\ \A t \in receiving : Confirms(t)

ReceiptsOfAnnounced ==
    \A c \in Receipt : status[c] # "none" => OrderOfReceipt(c) \in published

\* As long as an order is neither closed nor cancelled something has yet to
\* come in.
OpenIsIncomplete ==
    \A o \in Order \ (restated \union misjudged) :
        status[o] \notin {"closed", "cancelled"} => \E l \in Lines(o) : received[l] < Ordered(l)

PurchaseIInv ==
    /\ TypeOK
    /\ SessionsFit
    /\ ReceiptsOfAnnounced
    /\ ApprovedIsAnnounced
    /\ OpenIsIncomplete

-----------------------------------------------------------------------------
LEMMA LinesAreLines == \A o : Lines(o) \subseteq Line
  BY DEF Lines

LEMMA NoLines == <<>> \in Quantities /\ DOMAIN <<>> = {}
  <1>1. DOMAIN <<>> = {}
    OBVIOUS
  <1>2. <<>> \in [{} -> Nat]
    OBVIOUS
  <1> QED BY <1>1, <1>2 DEF Quantities

LEMMA InitHolds == Init => PurchaseIInv
  <1> SUFFICES ASSUME Init PROVE PurchaseIInv
    OBVIOUS
  <1> USE DEF Init
  <1>1. TypeOK
    <2>1. NoDelivery \in [order : Order, qty : [Product -> Nat]]
      BY DocAssumption DEF NoDelivery
    <2> HIDE DEF NoDelivery
    <2>2. \A c \in Receipt : status[c] = "none"
      BY DEF Doc
    <2>3. "none" \in Status
      BY DEF Status
    <2>4. delivery \in [Receipt -> [order : Order, qty : [Product -> Nat]]]
      BY <2>1
    <2> QED BY <2>2, <2>3, <2>4 DEF TypeOK
  <1>2. SessionsFit /\ ReceiptsOfAnnounced /\ ApprovedIsAnnounced
    BY DEF SessionsFit, ReceiptsOfAnnounced, ApprovedIsAnnounced, Doc
  <1>3. OpenIsIncomplete
    <2> SUFFICES ASSUME NEW o \in Order PROVE \E l \in Lines(o) : received[l] < Ordered(l)
      BY DEF OpenIsIncomplete
    <2>1. PICK l \in Line : OrderOf(l) = o
      BY LineAssumption
    <2>2. l \in Lines(o) /\ received[l] = 0 /\ Ordered(l) \in Nat \ {0}
      BY <2>1, LineAssumption DEF Lines
    <2> QED BY <2>2
  <1> QED BY <1>1, <1>2, <1>3 DEF PurchaseIInv

\* What VALID_TRANSITIONS says of a status and the next one.
LEMMA Legal ==
    ASSUME NEW d \in Doc, NEW a, NEW b, <<a, b>> \in VALID_TRANSITIONS(d)
    PROVE  /\ a \in Status /\ b \in Status
           /\ a \notin {"none", "closed", "cancelled"} /\ b # "none" /\ a # b
           /\ d \in Receipt /\ b = "confirmed" => a = "draft"
           /\ d \in Order /\ b = "closed" => a = "approved"
  <1>1. CASE d \in Request \union Order
    BY <1>1, DocAssumption DEF VALID_TRANSITIONS, OrderTransitions, Status
  <1>2. CASE d \in Rfq
    BY <1>2, DocAssumption DEF VALID_TRANSITIONS, RfqTransitions, Status
  <1>3. CASE d \in Receipt
    BY <1>3, DocAssumption DEF VALID_TRANSITIONS, ReceiptTransitions, Status
  <1> QED BY <1>1, <1>2, <1>3 DEF Doc

\* No session can tell a step from none that leaves quantities as they are, or
\* higher, and closed orders closed, unless the histories mark it.
LEMMA StillConfirms ==
    ASSUME PurchaseIInv, NEW t \in receiving,
           status'[t.receipt] # "none",
           delivery'[t.receipt] = delivery[t.receipt],
           restated \subseteq restated', lost \subseteq lost',
           \A o \in Order : status[o] = "closed" => status'[o] = "closed" \/ o \in restated',
           received' \in [Line -> Nat],
           \A l \in Line : received[l] <= received'[l] \/ l \in lost'
    PROVE  Confirms(t)'
  <1>1. Confirms(t) /\ t \in Confirmations
    BY DEF PurchaseIInv, SessionsFit
  <1>2. OrderOfReceipt(t.receipt)' = OrderOfReceipt(t.receipt) /\ OrderOfReceipt(t.receipt) \in Order
    BY <1>1 DEF OrderOfReceipt, PurchaseIInv, TypeOK, Confirmations
  <1>3. Lines(OrderOfReceipt(t.receipt))' = Lines(OrderOfReceipt(t.receipt))
    BY <1>2 DEF Lines
  <1>4. \A l \in DOMAIN t.got : t.got[l] \in Nat /\ l \in Line /\ received[l] \in Nat /\ received'[l] \in Nat
    BY DEF PurchaseIInv, TypeOK
  <1>5. \A l \in DOMAIN t.got : t.got[l] <= received'[l] \/ l \in lost'
    BY <1>1, <1>4 DEF Confirms
  <1> QED BY <1>1, <1>2, <1>3, <1>5 DEF Confirms

\* A step of other tables, or of none, on the side of transitions.
LEMMA StillMoves ==
    ASSUME PurchaseIInv, NEW t \in moving, status'[t.doc] # "none", published \subseteq published'
    PROVE  Moves(t)'
  BY DEF PurchaseIInv, SessionsFit, Moves

LEMMA CreateKeeps ==
    ASSUME PurchaseIInv, NEW d \in Doc, Create(d)
    PROVE  PurchaseIInv'
  <1>1. /\ d \in Doc \ Receipt /\ status[d] = "none" /\ status' = [status EXCEPT ![d] = "draft"]
        /\ UNCHANGED <<received, delivery, published, moving, receiving, lost, restated, misjudged>>
    BY DocAssumption DEF Create, history, Doc
  <1>2. status' \in [Doc -> Status]
    BY <1>1 DEF PurchaseIInv, TypeOK, Status
  <1>3. TypeOK'
    BY <1>1, <1>2 DEF PurchaseIInv, TypeOK, Doc
  <1>4. SessionsFit'
    <2>1. \A o \in Order : status[o] = "closed" => status'[o] = "closed"
      BY <1>1 DEF PurchaseIInv, TypeOK, Doc
    <2>2. \A c \in Receipt : status'[c] = status[c]
      BY <1>1 DEF PurchaseIInv, TypeOK, Doc
    <2>3. ASSUME NEW t \in receiving PROVE Confirms(t)'
      <3>1. status[t.receipt] # "none" /\ t.receipt \in Receipt
        BY DEF PurchaseIInv, SessionsFit, Confirms, TypeOK
      <3>2. \A l \in Line : received[l] <= received'[l]
        BY <1>1 DEF PurchaseIInv, TypeOK
      <3> QED BY <1>1, <2>1, <2>2, <3>1, <3>2, StillConfirms DEF PurchaseIInv, TypeOK
    <2>4. ASSUME NEW t \in moving PROVE Moves(t)'
      <3>1. status[t.doc] # "none" /\ t.doc \in Doc
        BY DEF PurchaseIInv, SessionsFit, Moves, TypeOK
      <3>2. status'[t.doc] # "none"
        BY <1>1, <3>1 DEF PurchaseIInv, TypeOK
      <3> QED BY <1>1, <3>2, StillMoves
    <2> QED BY <1>1, <2>3, <2>4 DEF PurchaseIInv, SessionsFit
  <1>5. ReceiptsOfAnnounced' /\ ApprovedIsAnnounced'
    BY <1>1 DEF PurchaseIInv, TypeOK, ReceiptsOfAnnounced, OrderOfReceipt, ApprovedIsAnnounced, Doc
  <1>6. OpenIsIncomplete'
    BY <1>1 DEF PurchaseIInv, TypeOK, OpenIsIncomplete, Doc, Lines
  <1> QED BY <1>3, <1>4, <1>5, <1>6 DEF PurchaseIInv

LEMMA CreateReceiptKeeps ==
    ASSUME PurchaseIInv, NEW c \in Receipt, NEW o \in Order, NEW qty \in Delivery,
           CreateReceipt(c, o, qty)
    PROVE  PurchaseIInv'
  <1> DEFINE new == [order |-> o, qty |-> qty]
  <1>1. /\ status[c] = "none" /\ status[o] = "approved"
        /\ status' = [status EXCEPT ![c] = "draft"]
        /\ delivery' = [delivery EXCEPT ![c] = new]
        /\ UNCHANGED <<received, published, moving, receiving, lost, restated, misjudged>>
    BY DEF CreateReceipt, history
  <1>2. new.order = o /\ new \in [order : Order, qty : [Product -> Nat]]
    BY DeliveryAssumption
  <1> HIDE DEF new
  <1>3. c \in Doc /\ o \in Doc /\ c \notin Order /\ "draft" \in Status
    BY DocAssumption DEF Doc, Status
  <1>4. \A d \in Doc : status'[d] = IF d = c THEN "draft" ELSE status[d]
    BY <1>1 DEF PurchaseIInv, TypeOK
  <1>5. /\ TypeOK'
        /\ \A d \in Receipt : d # c => delivery'[d] = delivery[d]
        /\ \A d \in Receipt : OrderOfReceipt(d)' = IF d = c THEN o ELSE OrderOfReceipt(d)
    <2>1. \A d \in Receipt : delivery'[d].order = (IF d = c THEN o ELSE delivery[d].order)
                          /\ (d # c => delivery'[d] = delivery[d])
      BY <1>1, <1>2 DEF PurchaseIInv, TypeOK
    <2>2. status' \in [Doc -> Status]
      BY <1>1, <1>3 DEF PurchaseIInv, TypeOK
    <2>3. \A d \in Receipt : status'[d] # "none" => status'[delivery'[d].order] # "none"
      BY <1>1, <1>3, <1>4, <2>1 DEF PurchaseIInv, TypeOK, Doc
    <2>4. delivery' \in [Receipt -> [order : Order, qty : [Product -> Nat]]]
      BY <1>1, <1>2 DEF PurchaseIInv, TypeOK
    <2> QED BY <1>1, <2>1, <2>2, <2>3, <2>4 DEF PurchaseIInv, TypeOK, OrderOfReceipt
  <1>6. SessionsFit'
    <2>1. ASSUME NEW t \in receiving PROVE Confirms(t)'
      <3>1. status[t.receipt] # "none" /\ t.receipt \in Receipt
        BY DEF PurchaseIInv, SessionsFit, Confirms, TypeOK
      <3>2. \A l \in Line : received[l] <= received'[l]
        BY <1>1 DEF PurchaseIInv, TypeOK
      <3>3. \A p \in Order : status'[p] = status[p]
        BY <1>3, <1>4 DEF Doc
      <3>4. t.receipt # c /\ status'[t.receipt] = status[t.receipt]
        BY <1>1, <1>4, <3>1 DEF Doc
      <3> QED BY <1>1, <1>5, <3>1, <3>2, <3>3, <3>4, StillConfirms DEF PurchaseIInv, TypeOK
    <2>2. ASSUME NEW t \in moving PROVE Moves(t)'
      <3>1. status[t.doc] # "none" /\ t.doc \in Doc
        BY DEF PurchaseIInv, SessionsFit, Moves, TypeOK
      <3>2. status'[t.doc] # "none"
        BY <1>4, <3>1
      <3> QED BY <1>1, <3>2, StillMoves
    <2> QED BY <1>1, <2>1, <2>2 DEF PurchaseIInv, SessionsFit
  <1>7. ReceiptsOfAnnounced'
    <2>1. o \in published
      BY <1>1 DEF PurchaseIInv, ApprovedIsAnnounced
    <2> QED BY <1>1, <1>4, <1>5, <2>1 DEF PurchaseIInv, ReceiptsOfAnnounced, Doc
  <1>8. ApprovedIsAnnounced' /\ OpenIsIncomplete'
    BY <1>1, <1>3, <1>4 DEF PurchaseIInv, ApprovedIsAnnounced, OpenIsIncomplete, Doc, Lines
  <1> QED BY <1>5, <1>6, <1>7, <1>8 DEF PurchaseIInv

\* A step that only changes which sessions are at work, and the stream.
LEMMA SessionsKeep ==
    ASSUME PurchaseIInv,
           UNCHANGED <<status, received, delivery, lost, restated, misjudged>>,
           published' \subseteq Order, published \subseteq published',
           \A m \in moving' : m \in moving \/ (m \in Transitions /\ Moves(m)'),
           \A t \in receiving' : t \in receiving \/ (t \in Confirmations /\ Confirms(t)')
    PROVE  PurchaseIInv'
  <1>1. TypeOK'
    <2>1. ASSUME NEW u \in receiving'
          PROVE  /\ u.by \in Req /\ u.receipt \in Receipt /\ u.from \in Status
                 /\ u.order \in Status \union {"unread"}
                 /\ DOMAIN u.left = DOMAIN u.got
                 /\ DOMAIN u.got \subseteq Line
                 /\ \A l \in DOMAIN u.got : u.got[l] \in Nat /\ u.left[l] \in Nat
      <3>1. CASE u \in receiving
        BY <3>1 DEF PurchaseIInv, TypeOK
      <3>2. CASE u \in Confirmations /\ Confirms(u)'
        <4>1. DOMAIN u.left = DOMAIN u.got
          BY <3>2 DEF Confirms
        <4>2. /\ DOMAIN u.got \subseteq Line
              /\ \A l \in DOMAIN u.got : u.got[l] \in Nat
              /\ \A l \in DOMAIN u.left : u.left[l] \in Nat
          BY <3>2 DEF Confirmations, Quantities
        <4> QED BY <3>2, <4>1, <4>2 DEF Confirmations
      <3> QED BY <2>1, <3>1, <3>2
    <2>2. moving' \subseteq Transitions
      BY DEF PurchaseIInv, TypeOK, Transitions
    <2> QED BY <2>1, <2>2 DEF PurchaseIInv, TypeOK, Transitions
  <1>2. SessionsFit'
    <2>1. \A l \in Line : received[l] <= received'[l]
      BY DEF PurchaseIInv, TypeOK
    <2>2. ASSUME NEW u \in receiving PROVE Confirms(u)'
      <3>1. status[u.receipt] # "none"
        BY DEF PurchaseIInv, SessionsFit, Confirms
      <3> QED BY <2>1, <3>1, StillConfirms DEF PurchaseIInv, TypeOK
    <2>3. receiving' \subseteq Confirmations
      BY DEF PurchaseIInv, SessionsFit
    <2>4. \A m \in moving' : Moves(m)'
      <3>1. \A m \in moving : status[m.doc] # "none"
        BY DEF PurchaseIInv, SessionsFit, Moves
      <3> QED BY <3>1, StillMoves
    <2> QED BY <2>2, <2>3, <2>4 DEF SessionsFit
  <1>3. ReceiptsOfAnnounced' /\ ApprovedIsAnnounced' /\ OpenIsIncomplete'
    BY DEF PurchaseIInv, ReceiptsOfAnnounced, OrderOfReceipt, ApprovedIsAnnounced, OpenIsIncomplete, Lines
  <1> QED BY <1>1, <1>2, <1>3 DEF PurchaseIInv

LEMMA BeginTransitionKeeps ==
    ASSUME PurchaseIInv, NEW r \in Req, NEW d \in Doc, NEW to \in Status, BeginTransition(r, d, to)
    PROVE  PurchaseIInv'
  <1>1. [by |-> r, doc |-> d, from |-> status[d], to |-> to, sent |-> FALSE] \in Transitions
    BY DEF PurchaseIInv, TypeOK, Transitions
  <1>2. PICK m \in Transitions :
            m = [by |-> r, doc |-> d, from |-> status[d], to |-> to, sent |-> FALSE]
    BY <1>1
  <1>3. Moves(m)
    <2>1. status[d] # "none" /\ (d \in Order /\ to = "closed" => status[d] = "approved")
      BY Legal DEF BeginTransition
    <2> QED BY <1>2, <2>1 DEF PurchaseIInv, ApprovedIsAnnounced, Moves, BeginTransition
  <1>4. /\ moving' = moving \union {m}
        /\ UNCHANGED <<status, received, delivery, published, receiving, lost, restated, misjudged>>
    BY <1>2 DEF BeginTransition, history
  <1>5. Moves(m)'
    BY <1>3, <1>4 DEF Moves
  <1> QED BY <1>4, <1>5, SessionsKeep DEF PurchaseIInv, TypeOK

LEMMA PublishApprovedKeeps ==
    ASSUME PurchaseIInv, NEW t \in moving, PublishApproved(t)
    PROVE  PurchaseIInv'
  <1> DEFINE m == [t EXCEPT !.sent = TRUE]
  <1>1. t \in Transitions /\ Moves(t) /\ t.doc \in Order
    BY DEF PurchaseIInv, TypeOK, SessionsFit, Transitions, PublishApproved, NeedsEvent
  <1>2. m \in Transitions /\ m.doc = t.doc /\ m.from = t.from /\ m.to = t.to
    BY <1>1 DEF Transitions
  <1>3. /\ moving' \subseteq moving \union {m} /\ published' = published \union {t.doc}
        /\ UNCHANGED <<status, received, delivery, receiving, lost, restated, misjudged>>
    BY DEF PublishApproved, history
  <1> HIDE DEF m
  <1>4. Moves(m)'
    BY <1>1, <1>2, <1>3 DEF Moves
  <1> QED BY <1>1, <1>2, <1>3, <1>4, SessionsKeep DEF PurchaseIInv, TypeOK

LEMMA RollbackKeeps ==
    ASSUME PurchaseIInv, (\E t \in moving : RollbackTransition(t)) \/ (\E t \in receiving : RollbackReceive(t))
    PROVE  PurchaseIInv'
  <1>1. /\ moving' \subseteq moving /\ receiving' \subseteq receiving
        /\ UNCHANGED <<status, received, delivery, published, lost, restated, misjudged>>
    BY DEF RollbackTransition, RollbackReceive, history
  <1> QED BY <1>1, SessionsKeep DEF PurchaseIInv, TypeOK

LEMMA CommitTransitionKeeps ==
    ASSUME PurchaseIInv, NEW t \in moving, CommitTransition(t)
    PROVE  PurchaseIInv'
  <1> DEFINE d == t.doc
  <1>1. t \in Transitions /\ Moves(t) /\ d \in Doc
    BY DEF PurchaseIInv, TypeOK, SessionsFit, Transitions
  <1>2. /\ t.to \in Status \ {"none", "confirmed"}
        /\ t.from \notin {"closed", "cancelled"}
    BY <1>1, Legal DEF Moves
  <1>3. /\ \A e \in Doc : status'[e] = IF e = d THEN t.to ELSE status[e]
        /\ status' \in [Doc -> Status]
        /\ restated' = IF status[d] = t.from THEN restated ELSE restated \union {d}
        /\ moving' = moving \ {t}
        /\ UNCHANGED <<received, delivery, published, receiving, lost, misjudged>>
    BY <1>1, <1>2 DEF PurchaseIInv, TypeOK, CommitTransition
  <1>4. d \in Order /\ t.to \in {"approved", "closed"} => d \in published
    BY <1>1 DEF Moves, CommitTransition, Announced, NeedsEvent
  <1> HIDE DEF d
  <1>5. TypeOK'
    <2>1. status[d] # "none"
      BY <1>1 DEF Moves, d
    <2>3. \A c \in Receipt : status'[c] # "none" => status'[delivery[c].order] # "none"
      BY <1>2, <1>3, <2>1 DEF PurchaseIInv, TypeOK, Doc
    <2> QED BY <1>1, <1>3, <2>3 DEF PurchaseIInv, TypeOK
  <1>6. SessionsFit'
    <2>1. \A o \in Order : status[o] = "closed" => status'[o] = "closed" \/ o \in restated'
      BY <1>2, <1>3 DEF Doc
    <2>2. \A l \in Line : received[l] <= received'[l]
      BY <1>3 DEF PurchaseIInv, TypeOK
    <2>3. ASSUME NEW u \in receiving PROVE Confirms(u)'
      <3>1. status[u.receipt] # "none" /\ u.receipt \in Receipt
        BY DEF PurchaseIInv, SessionsFit, Confirms, TypeOK
      <3>2. status'[u.receipt] # "none"
        BY <1>2, <1>3, <3>1 DEF Doc
      <3> QED BY <1>3, <2>1, <2>2, <3>2, StillConfirms DEF PurchaseIInv, TypeOK
    <2>4. ASSUME NEW u \in moving PROVE Moves(u)'
      <3>1. status[u.doc] # "none" /\ u.doc \in Doc
        BY DEF PurchaseIInv, SessionsFit, Moves, TypeOK
      <3>2. status'[u.doc] # "none"
        BY <1>2, <1>3, <3>1
      <3> QED BY <1>3, <3>2, StillMoves
    <2> QED BY <1>3, <2>3, <2>4 DEF PurchaseIInv, SessionsFit
  <1>7. ApprovedIsAnnounced'
    BY <1>3, <1>4 DEF PurchaseIInv, ApprovedIsAnnounced, Doc
  <1>8. ReceiptsOfAnnounced'
    <2>1. status[d] # "none"
      BY <1>1 DEF Moves, d
    <2> QED BY <1>3, <2>1 DEF PurchaseIInv, ReceiptsOfAnnounced, OrderOfReceipt, Doc
  <1>9. OpenIsIncomplete'
    BY <1>2, <1>3 DEF PurchaseIInv, OpenIsIncomplete, Doc, Lines
  <1> QED BY <1>5, <1>6, <1>7, <1>8, <1>9 DEF PurchaseIInv

-----------------------------------------------------------------------------
LEMMA BeginReceiveKeeps ==
    ASSUME PurchaseIInv, NEW r \in Req, NEW c \in Receipt, BeginReceive(r, c)
    PROVE  PurchaseIInv'
  <1> DEFINE new == [by |-> r, receipt |-> c, from |-> status[c], order |-> "unread",
                     got |-> <<>>, left |-> <<>>]
  <1>1. status[c] = "draft" /\ c \in Doc
    BY Legal DEF BeginReceive, Doc
  <1>2. new \in Confirmations
    BY <1>1, NoLines DEF Confirmations, Status
  <1>3. PICK t \in Confirmations : t = new
    BY <1>2
  <1>4. /\ receiving' = receiving \union {t}
        /\ UNCHANGED <<status, received, delivery, published, moving, lost, restated, misjudged>>
    BY <1>3 DEF BeginReceive, history
  <1>5. Confirms(t)'
    BY <1>1, <1>3, <1>4, NoLines DEF Confirms
  <1> QED BY <1>4, <1>5, SessionsKeep DEF PurchaseIInv, TypeOK

LEMMA ReadOrderKeeps ==
    ASSUME PurchaseIInv, NEW t \in receiving, ReadOrder(t)
    PROVE  PurchaseIInv'
  <1> DEFINE o == delivery[t.receipt].order
             new == [t EXCEPT !.order = status[o]]
  <1>1. t \in Confirmations /\ Confirms(t)
    BY DEF PurchaseIInv, SessionsFit
  <1>2. status[o] \in Status
    BY <1>1 DEF PurchaseIInv, TypeOK, Confirmations, Doc
  <1>3. /\ new \in Confirmations /\ new.receipt = t.receipt /\ new.from = t.from
        /\ new.order = status[o] /\ new.got = t.got /\ new.left = t.left
    BY <1>1, <1>2 DEF Confirmations
  <1> HIDE DEF new
  <1>4. PICK u \in Confirmations : u = new
    BY <1>3
  <1>5. /\ receiving' \subseteq receiving \union {u}
        /\ UNCHANGED <<status, received, delivery, published, moving, lost, restated, misjudged>>
    BY <1>4 DEF ReadOrder, history, new
  <1>6. Confirms(u)
    BY <1>1, <1>3, <1>4 DEF Confirms, OrderOfReceipt
  <1>7. Confirms(u)'
    BY <1>5, <1>6 DEF Confirms, OrderOfReceipt, Lines
  <1> QED BY <1>5, <1>7, SessionsKeep DEF PurchaseIInv, TypeOK

LEMMA ReadLinesKeeps ==
    ASSUME PurchaseIInv, NEW t \in receiving, ReadLines(t)
    PROVE  PurchaseIInv'
  <1> DEFINE c    == t.receipt
             mine == Lines(delivery[c].order)
             got  == [l \in mine |-> received[l]]
             left(kept) == [l \in mine |-> IF l \in kept
                                THEN received[l] + delivery[c].qty[ProductOf(l)]
                                ELSE received[l]]
  <1>1. t \in Confirmations /\ Confirms(t) /\ c \in Receipt
    BY DEF PurchaseIInv, SessionsFit, TypeOK
  <1>2. PICK kept \in SUBSET mine :
            receiving' = (receiving \ {t}) \union {[t EXCEPT !.got = got, !.left = left(kept)]}
    BY DEF ReadLines
  <1>3. UNCHANGED <<status, received, delivery, published, moving, lost, restated, misjudged>>
    BY DEF ReadLines, history
  <1>4. \A l \in mine : /\ l \in Line /\ received[l] \in Nat
                        /\ delivery[c].qty[ProductOf(l)] \in Nat
    BY <1>1, LineAssumption, LinesAreLines DEF PurchaseIInv, TypeOK
  <1>5. got \in Quantities /\ DOMAIN got = mine /\ \A l \in mine : got[l] = received[l]
    BY <1>4, LinesAreLines DEF Quantities
  <1>6. /\ left(kept) \in Quantities /\ DOMAIN left(kept) = mine
        /\ \A l \in mine : received[l] <= left(kept)[l]
    <2>1. \A l \in mine : left(kept)[l] \in Nat /\ received[l] <= left(kept)[l]
      BY <1>4
    <2>2. left(kept) \in [mine -> Nat]
      BY <2>1
    <2> QED BY <2>1, <2>2, LinesAreLines DEF Quantities
  <1> HIDE DEF got, left
  <1>7. /\ [t EXCEPT !.got = got, !.left = left(kept)] \in Confirmations
        /\ [t EXCEPT !.got = got, !.left = left(kept)].receipt = t.receipt
        /\ [t EXCEPT !.got = got, !.left = left(kept)].from = t.from
        /\ [t EXCEPT !.got = got, !.left = left(kept)].order = t.order
        /\ [t EXCEPT !.got = got, !.left = left(kept)].got = got
        /\ [t EXCEPT !.got = got, !.left = left(kept)].left = left(kept)
    BY <1>1, <1>5, <1>6 DEF Confirmations
  <1>8. PICK u \in Confirmations : u = [t EXCEPT !.got = got, !.left = left(kept)]
    BY <1>7
  <1>9. Confirms(u)
    <2>1. \A l \in DOMAIN u.got : u.got[l] <= u.left[l] /\ u.got[l] <= received[l]
      BY <1>4, <1>5, <1>6, <1>7, <1>8
    <2> QED BY <1>1, <1>5, <1>6, <1>7, <1>8, <2>1 DEF Confirms, OrderOfReceipt
  <1>10. Confirms(u)'
    BY <1>3, <1>9 DEF Confirms, OrderOfReceipt, Lines
  <1> QED BY <1>2, <1>3, <1>8, <1>10, SessionsKeep DEF PurchaseIInv, TypeOK

\* What a receipt that is confirmed writes.
LEMMA Received ==
    ASSUME PurchaseIInv, NEW t \in receiving, CommitReceive(t), NEW o, o = delivery[t.receipt].order
    PROVE  /\ t \in Confirmations /\ Confirms(t) /\ t.receipt \in Receipt \ Order /\ o \in Order
           /\ DOMAIN t.got = Lines(o) /\ DOMAIN t.left = Lines(o)
           /\ \A d \in Doc : status'[d] = IF d = t.receipt THEN "confirmed"
                                          ELSE IF d = o /\ ClosesOrder(t) THEN "closed"
                                          ELSE status[d]
           /\ status' \in [Doc -> Status]
           /\ \A l \in Line : received'[l] = IF l \in Written(t) THEN t.left[l] ELSE received[l]
           /\ received' \in [Line -> Nat]
           /\ \A l \in Written(t) : t.got[l] # received[l] => l \in lost'
           /\ \A l \in Line : received[l] <= received'[l] \/ l \in lost'
           /\ o \notin misjudged' => \A l \in Lines(o) : t.got[l] = received[l]
           /\ lost \subseteq lost' /\ lost' \subseteq Line
           /\ restated \subseteq restated' /\ restated' \subseteq Doc
           /\ status[t.receipt] # t.from => t.receipt \in restated'
           /\ ClosesOrder(t) /\ status[o] # t.order => o \in restated'
           /\ misjudged \subseteq misjudged' /\ misjudged' \subseteq Order
           /\ receiving' = receiving \ {t}
           /\ UNCHANGED <<delivery, published, moving>>
  <1>1. t \in Confirmations /\ Confirms(t) /\ t.receipt \in Receipt \ Order /\ o \in Order
    BY DocAssumption DEF PurchaseIInv, SessionsFit, TypeOK
  <1>2. DOMAIN t.got = Lines(o) /\ DOMAIN t.left = Lines(o)
    BY <1>1 DEF CommitReceive, Confirms, OrderOfReceipt
  <1>3. /\ \A d \in Doc : status'[d] = IF d = t.receipt THEN "confirmed"
                                        ELSE IF d = o /\ ClosesOrder(t) THEN "closed"
                                        ELSE status[d]
        /\ status' \in [Doc -> Status]
    <2>1. status' = [d \in Doc |-> CASE d = t.receipt           -> "confirmed"
                                     [] d = o /\ ClosesOrder(t) -> "closed"
                                     [] OTHER                    -> status[d]]
      BY DEF CommitReceive
    <2>2. \A d \in Doc : status'[d] = CASE d = t.receipt           -> "confirmed"
                                         [] d = o /\ ClosesOrder(t) -> "closed"
                                         [] OTHER                    -> status[d]
      BY <2>1
    <2>3. "closed" \in Status /\ "confirmed" \in Status
      BY DEF Status
    <2>4. \A d \in Doc : status'[d] = IF d = t.receipt THEN "confirmed"
                                     ELSE IF d = o /\ ClosesOrder(t) THEN "closed"
                                     ELSE status[d]
      BY <1>1, <2>2
    <2> QED BY <2>1, <2>3, <2>4 DEF PurchaseIInv, TypeOK
  <1>4. \A l \in Lines(o) : /\ l \in Line /\ t.got[l] \in Nat /\ t.left[l] \in Nat
                            /\ t.got[l] <= t.left[l]
    BY <1>1, <1>2, LinesAreLines DEF PurchaseIInv, TypeOK, Confirms
  <1>5. /\ \A l \in Line : received'[l] = IF l \in Written(t) THEN t.left[l] ELSE received[l]
        /\ received' = [l \in Line |-> IF l \in Written(t) THEN t.left[l] ELSE received[l]]
        /\ lost' = lost \union {l \in Written(t) : t.got[l] # received[l]}
        /\ receiving' = receiving \ {t}
        /\ UNCHANGED <<delivery, published, moving>>
    BY DEF CommitReceive
  <1>6. Written(t) \subseteq Lines(o)
    BY <1>2 DEF Written
  <1>7. received' \in [Line -> Nat]
    BY <1>4, <1>5, <1>6 DEF PurchaseIInv, TypeOK
  <1>8. \A l \in Line : received[l] <= received'[l] \/ l \in lost'
    BY <1>4, <1>5, <1>6 DEF PurchaseIInv, TypeOK
  <1>9. /\ restated' = restated
               \union (IF status[t.receipt] = t.from THEN {} ELSE {t.receipt})
               \union (IF ClosesOrder(t) /\ status[o] # t.order THEN {o} ELSE {})
        /\ misjudged' = IF \E l \in DOMAIN t.got : t.got[l] # received[l]
                         THEN misjudged \union {o} ELSE misjudged
    BY DEF CommitReceive
  <1>10. o \notin misjudged' => \A l \in Lines(o) : t.got[l] = received[l]
    BY <1>2, <1>9
  <1>11. lost \subseteq lost' /\ lost' \subseteq Line
    BY <1>4, <1>5, <1>6 DEF PurchaseIInv, TypeOK
  <1>12. /\ restated \subseteq restated' /\ restated' \subseteq Doc
         /\ status[t.receipt] # t.from => t.receipt \in restated'
         /\ ClosesOrder(t) /\ status[o] # t.order => o \in restated'
         /\ misjudged \subseteq misjudged' /\ misjudged' \subseteq Order
    BY <1>1, <1>9 DEF PurchaseIInv, TypeOK, Doc
  <1> QED BY <1>1, <1>2, <1>3, <1>5, <1>7, <1>8, <1>10, <1>11, <1>12

LEMMA CommitReceiveKeeps ==
    ASSUME PurchaseIInv, NEW t \in receiving, CommitReceive(t)
    PROVE  PurchaseIInv'
  <1>1. PICK o : o = delivery[t.receipt].order
    OBVIOUS
  <1>2. /\ Confirms(t) /\ t.receipt \in Receipt \ Order /\ o \in Order
        /\ DOMAIN t.got = Lines(o) /\ DOMAIN t.left = Lines(o)
        /\ \A d \in Doc : status'[d] = IF d = t.receipt THEN "confirmed"
                                       ELSE IF d = o /\ ClosesOrder(t) THEN "closed"
                                       ELSE status[d]
        /\ status' \in [Doc -> Status] /\ received' \in [Line -> Nat]
        /\ \A l \in Line : received'[l] = IF l \in Written(t) THEN t.left[l] ELSE received[l]
        /\ \A l \in Line : received[l] <= received'[l] \/ l \in lost'
        /\ o \notin misjudged' => \A l \in Lines(o) : t.got[l] = received[l]
        /\ lost \subseteq lost' /\ lost' \subseteq Line
        /\ restated \subseteq restated' /\ restated' \subseteq Doc
        /\ ClosesOrder(t) /\ status[o] # t.order => o \in restated'
        /\ misjudged \subseteq misjudged' /\ misjudged' \subseteq Order
        /\ receiving' = receiving \ {t}
        /\ UNCHANGED <<delivery, published, moving>>
    BY <1>1, Received
  <1>3. status[t.receipt] # "none"
    BY <1>2 DEF Confirms
  <1>4. \A d \in Doc : status[d] # "none" => status'[d] # "none"
    BY <1>2
  <1>5. \A c \in Receipt : status'[c] # "none" => status[c] # "none"
    BY <1>2, <1>3, DocAssumption DEF Doc
  <1>6. TypeOK'
    <2>1. \A c \in Receipt : status'[c] # "none" => status'[delivery[c].order] # "none"
      BY <1>4, <1>5 DEF PurchaseIInv, TypeOK, Doc
    <2> QED BY <1>2, <2>1 DEF PurchaseIInv, TypeOK
  <1>7. SessionsFit'
    <2>1. \A p \in Order : status[p] = "closed" => status'[p] = "closed"
      BY <1>2 DEF Doc
    <2>2. ASSUME NEW u \in receiving PROVE Confirms(u)'
      <3>1. status[u.receipt] # "none" /\ u.receipt \in Receipt
        BY DEF PurchaseIInv, SessionsFit, Confirms, TypeOK
      <3>2. status'[u.receipt] # "none"
        BY <1>4, <3>1 DEF Doc
      <3> QED BY <1>2, <2>1, <3>2, StillConfirms
    <2>3. ASSUME NEW u \in moving PROVE Moves(u)'
      <3>1. status[u.doc] # "none" /\ u.doc \in Doc
        BY DEF PurchaseIInv, SessionsFit, Moves, TypeOK
      <3> QED BY <1>2, <1>4, <3>1, StillMoves
    <2> QED BY <1>2, <2>2, <2>3 DEF PurchaseIInv, SessionsFit
  <1>8. ReceiptsOfAnnounced'
    BY <1>2, <1>5 DEF PurchaseIInv, ReceiptsOfAnnounced, OrderOfReceipt
  <1>9. ApprovedIsAnnounced'
    <2>1. o \in published
      BY <1>1, <1>2, <1>3 DEF PurchaseIInv, ReceiptsOfAnnounced, OrderOfReceipt
    <2> QED BY <1>2, <2>1 DEF PurchaseIInv, ApprovedIsAnnounced, Doc
  <1>10. OpenIsIncomplete'
    <2> SUFFICES ASSUME NEW p \in Order, p \notin restated', p \notin misjudged',
                        status'[p] \notin {"closed", "cancelled"}
                 PROVE  \E l \in Lines(p) : received'[l] < Ordered(l)
      BY DEF OpenIsIncomplete, Lines
    <2>1. CASE p # o
      <3>1. status'[p] = status[p]
        BY <1>2, <2>1 DEF Doc
      <3>2. PICK l \in Lines(p) : received[l] < Ordered(l)
        BY <1>2, <3>1 DEF PurchaseIInv, OpenIsIncomplete
      <3>3. l \in Line /\ l \notin Written(t)
        BY <1>2, <2>1 DEF Lines, Written
      <3> QED BY <1>2, <3>2, <3>3
    <2>2. CASE p = o
      <3>1. ~ClosesOrder(t)
        BY <1>2, <2>2 DEF Doc
      <3>2. t.order # "closed"
        <4>1. SUFFICES ASSUME t.order = "closed" PROVE FALSE
          OBVIOUS
        <4>2. status[o] = "closed"
          BY <1>1, <1>2, <2>2, <4>1 DEF Confirms, OrderOfReceipt
        <4> QED BY <1>2, <2>2, <4>2 DEF Doc
      <3>3. PICK l \in Lines(o) : ~(t.left[l] >= Ordered(l))
        BY <1>2, <3>1, <3>2 DEF ClosesOrder, AllReceived
      <3>4. l \in Line /\ t.left[l] \in Nat /\ Ordered(l) \in Nat
        BY <1>2, LineAssumption, LinesAreLines DEF PurchaseIInv, TypeOK
      <3>5. received'[l] = t.left[l]
        BY <1>2, <2>2, <3>4 DEF Written
      <3> QED BY <2>2, <3>3, <3>4, <3>5
    <2> QED BY <2>1, <2>2
  <1> QED BY <1>6, <1>7, <1>8, <1>9, <1>10 DEF PurchaseIInv

-----------------------------------------------------------------------------
LEMMA NextKeeps == ASSUME PurchaseIInv, Next PROVE PurchaseIInv'
  <1>1. ASSUME NEW d \in Doc, Create(d) PROVE PurchaseIInv'
    BY <1>1, CreateKeeps
  <1>2. ASSUME NEW c \in Receipt, NEW o \in Order, NEW qty \in Delivery,
               CreateReceipt(c, o, qty)
        PROVE  PurchaseIInv'
    BY <1>2, CreateReceiptKeeps
  <1>3. ASSUME NEW r \in Req, NEW d \in Doc, NEW to \in Status, BeginTransition(r, d, to)
        PROVE  PurchaseIInv'
    BY <1>3, BeginTransitionKeeps
  <1>4. ASSUME NEW t \in moving, PublishApproved(t) PROVE PurchaseIInv'
    BY <1>4, PublishApprovedKeeps
  <1>5. ASSUME NEW t \in moving, CommitTransition(t) PROVE PurchaseIInv'
    BY <1>5, CommitTransitionKeeps
  <1>6. CASE (\E t \in moving : RollbackTransition(t)) \/ (\E t \in receiving : RollbackReceive(t))
    BY <1>6, RollbackKeeps
  <1>7. ASSUME NEW r \in Req, NEW c \in Receipt, BeginReceive(r, c) PROVE PurchaseIInv'
    BY <1>7, BeginReceiveKeeps
  <1>8. ASSUME NEW t \in receiving, ReadOrder(t) PROVE PurchaseIInv'
    BY <1>8, ReadOrderKeeps
  <1>9. ASSUME NEW t \in receiving, ReadLines(t) PROVE PurchaseIInv'
    BY <1>9, ReadLinesKeeps
  <1>10. ASSUME NEW t \in receiving, CommitReceive(t) PROVE PurchaseIInv'
    BY <1>10, CommitReceiveKeeps
  <1> QED BY <1>1, <1>2, <1>3, <1>4, <1>5, <1>6, <1>7, <1>8, <1>9, <1>10 DEF Next

LEMMA StutterKeeps == ASSUME PurchaseIInv, UNCHANGED vars PROVE PurchaseIInv'
  BY SessionsKeep DEF vars, history, PurchaseIInv, TypeOK

LEMMA PurchaseInductive == Spec => []PurchaseIInv
  BY InitHolds, NextKeeps, StutterKeeps, PTL DEF Spec

\* The purchase documents and the sessions on them keep their types, and a
\* receipt always belongs to an order that exists.
THEOREM PurchaseTypeCorrect == Spec => []TypeOK
  BY PurchaseInductive, PTL DEF PurchaseIInv

\* transition_po never leaves an order approved, and no receipt closes one, of
\* which po.approved has not been published, wherever a session fails.
THEOREM ApprovedIsAnnouncedHolds == Spec => []ApprovedIsAnnounced
  BY PurchaseInductive, PTL DEF PurchaseIInv

\* _update_po_received leaves no complete order open, unless it judged it by
\* quantities that were about to change or its status was overwritten unread.
THEOREM CompleteIsClosedHolds == Spec => []CompleteIsClosedUnlessMisjudged
  <1>1. ASSUME PurchaseIInv PROVE CompleteIsClosedUnlessMisjudged
    BY <1>1 DEF PurchaseIInv, OpenIsIncomplete, CompleteIsClosedUnlessMisjudged
  <1> QED BY <1>1, PurchaseInductive, PTL

-----------------------------------------------------------------------------
\* What changes the status of a document, except to create it.
LEMMA StatusChanges ==
    ASSUME PurchaseIInv, [Next]_vars, NEW d \in Doc, status'[d] # status[d],
           status[d] # "none" \/ status'[d] # "draft"
    PROVE  \/ \E t \in moving : CommitTransition(t) /\ t.doc = d /\ status'[d] = t.to
           \/ \E t \in receiving : CommitReceive(t)
  <1>1. ASSUME NEW e \in Doc, Create(e) PROVE FALSE
    BY <1>1 DEF Create, PurchaseIInv, TypeOK
  <1>2. ASSUME NEW c \in Receipt, NEW o \in Order, NEW qty \in Delivery,
               CreateReceipt(c, o, qty)
        PROVE  FALSE
    BY <1>2 DEF CreateReceipt, PurchaseIInv, TypeOK
  <1>3. ASSUME NEW t \in moving, CommitTransition(t) PROVE t.doc = d /\ status'[d] = t.to
    BY <1>3 DEF CommitTransition, PurchaseIInv, TypeOK
  <1>4. \/ \E e \in Doc : Create(e)
        \/ \E c \in Receipt, o \in Order, qty \in Delivery : CreateReceipt(c, o, qty)
        \/ \E t \in moving : CommitTransition(t)
        \/ \E t \in receiving : CommitReceive(t)
    BY DEF Next, vars, BeginTransition, PublishApproved, RollbackTransition, BeginReceive,
           ReadOrder, ReadLines, RollbackReceive
  <1> QED BY <1>1, <1>2, <1>3, <1>4

\* validate_transition is passed by in two ways only: by a status that changed
\* after it was read, and by the receipt that closes its order.
THEOREM Enforced == Spec => TransitionsEnforcedUnlessStale
  <1>1. ASSUME PurchaseIInv, [Next]_vars, NEW d \in Doc, status[d] # "none", status'[d] # status[d]
        PROVE  \/ <<status[d], status'[d]>> \in VALID_TRANSITIONS(d)
               \/ d \in restated'
               \/ d \in Order /\ status'[d] = "closed" /\ receiving' # receiving
    <2>1. ASSUME NEW t \in moving, CommitTransition(t), t.doc = d, status'[d] = t.to
          PROVE  <<status[d], status'[d]>> \in VALID_TRANSITIONS(d) \/ d \in restated'
      BY <1>1, <2>1 DEF PurchaseIInv, SessionsFit, Moves, CommitTransition
    <2>2. ASSUME NEW t \in receiving, CommitReceive(t)
          PROVE  \/ <<status[d], status'[d]>> \in VALID_TRANSITIONS(d)
                 \/ d \in restated'
                 \/ d \in Order /\ status'[d] = "closed" /\ receiving' # receiving
      <3>1. PICK o : o = delivery[t.receipt].order
        OBVIOUS
      <3>2. /\ Confirms(t) /\ t.receipt \in Receipt /\ o \in Order
            /\ status'[d] = IF d = t.receipt THEN "confirmed"
                            ELSE IF d = o /\ ClosesOrder(t) THEN "closed" ELSE status[d]
            /\ status[t.receipt] # t.from => t.receipt \in restated'
            /\ receiving' = receiving \ {t}
        BY <1>1, <2>2, <3>1, Received
      <3>3. CASE d = t.receipt
        <4>1. <<"draft", "confirmed">> \in VALID_TRANSITIONS(d)
          BY <3>2, <3>3, DocAssumption DEF VALID_TRANSITIONS, ReceiptTransitions
        <4> QED BY <3>2, <3>3, <4>1 DEF Confirms
      <3>4. CASE d # t.receipt
        BY <1>1, <2>2, <3>2, <3>4
      <3> QED BY <3>3, <3>4
    <2> QED BY <1>1, <2>1, <2>2, StatusChanges
  <1>2. ASSUME PurchaseIInv, [Next]_vars
        PROVE  [\A d \in Doc : (status[d] # "none" /\ status'[d] # status[d]) =>
                    \/ <<status[d], status'[d]>> \in VALID_TRANSITIONS(d)
                    \/ d \in restated'
                    \/ d \in Order /\ status'[d] = "closed" /\ receiving' # receiving]_vars
    BY <1>1, <1>2
  <1> QED BY <1>2, PurchaseInductive, PTL DEF Spec, TransitionsEnforcedUnlessStale

\* _update_po_received closes an order only with all its lines received, except
\* for lines of which a quantity was lost.
THEOREM ClosedIsComplete == Spec => ClosedByReceiptIsComplete
  <1>1. ASSUME PurchaseIInv, [Next]_vars, NEW c \in Receipt, NEW o, o = delivery[c].order,
               status'[c] = "confirmed", status[c] # "confirmed",
               status'[o] = "closed", status[o] # "closed", NEW l \in Lines(o)
        PROVE  received'[l] >= Ordered(l) \/ l \in lost'
    <2>1. o \in Order /\ o \in Doc /\ c \in Doc /\ c # o /\ l \in Line
      BY <1>1, DocAssumption, LinesAreLines DEF PurchaseIInv, TypeOK, Doc
    <2>2. PICK t \in receiving : CommitReceive(t)
      <3>1. ASSUME NEW t \in moving, status'[c] = t.to PROVE FALSE
        BY <1>1, <3>1 DEF PurchaseIInv, SessionsFit, Moves
      <3> QED BY <1>1, <2>1, <3>1, StatusChanges
    <2>3. PICK p : p = delivery[t.receipt].order
      OBVIOUS
    <2>4. /\ Confirms(t) /\ t.receipt \in Receipt \ Order /\ p \in Order
          /\ DOMAIN t.got = Lines(p) /\ DOMAIN t.left = Lines(p)
          /\ \A d \in Doc : status'[d] = IF d = t.receipt THEN "confirmed"
                                         ELSE IF d = p /\ ClosesOrder(t) THEN "closed"
                                         ELSE status[d]
          /\ \A k \in Line : received'[k] = IF k \in Written(t) THEN t.left[k] ELSE received[k]
          /\ lost \subseteq lost'
      BY <1>1, <2>2, <2>3, Received
    <2>5. c = t.receipt /\ o = p /\ ClosesOrder(t)
      BY <1>1, <2>1, <2>3, <2>4
    <2>6. t.left[l] >= Ordered(l)
      BY <1>1, <2>4, <2>5 DEF ClosesOrder, AllReceived
    <2>7. CASE l \in Written(t)
      BY <2>1, <2>4, <2>6, <2>7
    <2>8. CASE l \notin Written(t)
      <3>1. t.left[l] = t.got[l] /\ (t.got[l] <= received[l] \/ l \in lost)
        BY <1>1, <2>4, <2>5, <2>8 DEF Written, Confirms
      <3>2. t.got[l] \in Nat /\ received[l] \in Nat /\ Ordered(l) \in Nat
        BY <1>1, <2>1, <2>2, <2>4, <2>5, LineAssumption DEF PurchaseIInv, TypeOK
      <3>3. received'[l] = received[l]
        BY <2>1, <2>4, <2>8
      <3> QED BY <2>4, <2>6, <3>1, <3>2, <3>3
    <2> QED BY <2>7, <2>8
  <1>2. ASSUME PurchaseIInv, [Next]_vars
        PROVE  [\A c \in Receipt :
                  LET o == delivery[c].order
                  IN  (/\ status'[c] = "confirmed" /\ status[c] # "confirmed"
                       /\ status'[o] = "closed" /\ status[o] # "closed") =>
                         \A l \in Lines(o) : received'[l] >= Ordered(l) \/ l \in lost']_vars
    BY <1>1, <1>2
  <1> QED BY <1>2, PurchaseInductive, PTL DEF Spec, ClosedByReceiptIsComplete

-----------------------------------------------------------------------------
(* The received quantity as a sum: a commit of a receipt adds to each line *)
(* of its order what it delivers of the product, if the line is the only   *)
(* one.                                                                    *)

Mine(l)  == {c \in Receipt : status[c] # "none" /\ delivery[c].order = OrderOf(l)}
Same(l)  == {k \in Lines(OrderOf(l)) : ProductOf(k) = ProductOf(l)}
CountedOf(l) == {c \in Mine(l) : Counted(c)}

Brought(l) == SumFunction([c \in CountedOf(l) |-> delivery[c].qty[ProductOf(l)]])

\* A session adds to the only line of a product what its receipt delivers of it.
AddsDelivery(t) ==
    \A l \in DOMAIN t.got :
        Same(l) = {l} => t.left[l] = t.got[l] + delivery[t.receipt].qty[ProductOf(l)]

AllBrought ==
    \A l \in Line \ lost :
        Mine(l) \intersect restated = {} /\ Same(l) = {l} => received[l] = Brought(l)

RInv ==
    /\ IsFiniteSet({c \in Receipt : Counted(c)})
    /\ \A t \in receiving : AddsDelivery(t)
    /\ AllBrought

LEMMA SameLines == \A l \in Line : Same(l)' = Same(l)
  BY DEF Same, Lines

\* Nothing that counts has changed.
LEMMA SameDeliveries ==
    ASSUME PurchaseIInv, RInv, received' = received,
           lost \subseteq lost', restated \subseteq restated',
           \A c \in Receipt : status[c] # "none" => /\ status'[c] # "none"
                                                    /\ delivery'[c] = delivery[c],
           \A c \in Receipt : c \in restated' \/ (Counted(c)' <=> Counted(c)),
           \A c \in Receipt : Counted(c)' => status[c] # "none"
    PROVE  AllBrought'
  <1>1. ASSUME NEW l \in Line \ lost', Mine(l)' \intersect restated' = {}, Same(l) = {l}
        PROVE  received'[l] = Brought(l)'
    <2>1. Mine(l) \subseteq Mine(l)'
      BY DEF Mine
    <2>2. received[l] = Brought(l)
      BY <1>1, <2>1 DEF RInv, AllBrought
    <2>3. CountedOf(l)' = CountedOf(l)
      BY <1>1, <2>1 DEF CountedOf, Mine, Counted
    <2>4. \A c \in CountedOf(l) : delivery'[c] = delivery[c]
      BY DEF CountedOf, Mine
    <2>5. Brought(l)' = Brought(l)
      BY <2>3, <2>4 DEF Brought
    <2> QED BY <2>2, <2>5
  <1> QED BY <1>1, SameLines DEF AllBrought

\* Nothing happens to the receipts.
LEMMA SameReceipts ==
    ASSUME PurchaseIInv, RInv, UNCHANGED <<received, delivery, lost, restated>>,
           \A c \in Receipt : status'[c] = status[c],
           \A t \in receiving' : t \in receiving \/ AddsDelivery(t)
    PROVE  RInv'
  <1>1. AllBrought'
    BY SameDeliveries DEF Counted
  <1>2. \A t \in receiving' : AddsDelivery(t)'
    <2>1. \A t \in receiving' : AddsDelivery(t)
      BY DEF RInv
    <2> QED BY <2>1 DEF AddsDelivery, Same, Lines
  <1>3. {c \in Receipt : Counted(c)}' = {c \in Receipt : Counted(c)}
    BY DEF Counted
  <1> QED BY <1>1, <1>2, <1>3 DEF RInv

LEMMA ReadLinesAdds ==
    ASSUME PurchaseIInv, RInv, NEW t \in receiving, ReadLines(t)
    PROVE  RInv'
  <1> DEFINE c    == t.receipt
             mine == Lines(delivery[c].order)
             got  == [l \in mine |-> received[l]]
             left(kept) == [l \in mine |-> IF l \in kept
                                THEN received[l] + delivery[c].qty[ProductOf(l)]
                                ELSE received[l]]
  <1>1. t \in Confirmations
    BY DEF PurchaseIInv, SessionsFit
  <1>2. PICK kept \in SUBSET mine :
            /\ \A l \in mine : \E k \in kept : ProductOf(k) = ProductOf(l)
            /\ receiving' = (receiving \ {t}) \union {[t EXCEPT !.got = got, !.left = left(kept)]}
    BY DEF ReadLines
  <1>3. PICK u : u = [t EXCEPT !.got = got, !.left = left(kept)]
    OBVIOUS
  <1>4. u.receipt = c /\ u.got = got /\ u.left = left(kept)
    BY <1>1, <1>3 DEF Confirmations
  <1>5. AddsDelivery(u)
    <2> SUFFICES ASSUME NEW l \in mine, Same(l) = {l}
                 PROVE  left(kept)[l] = got[l] + delivery[c].qty[ProductOf(l)]
      BY <1>4 DEF AddsDelivery
    <2>1. PICK k \in kept : ProductOf(k) = ProductOf(l)
      BY <1>2
    <2>2. k \in Same(l)
      BY <2>1 DEF Same, Lines
    <2>3. l \in kept
      BY <2>1, <2>2
    <2> QED BY <2>3
  <1> QED BY <1>2, <1>3, <1>5, SameReceipts DEF ReadLines, history

LEMMA CreateReceiptAdds ==
    ASSUME PurchaseIInv, RInv, NEW c \in Receipt, NEW o \in Order, NEW qty \in Delivery,
           CreateReceipt(c, o, qty)
    PROVE  RInv'
  <1>1. /\ status[c] = "none"
        /\ \A d \in Receipt : status'[d] = IF d = c THEN "draft" ELSE status[d]
        /\ \A d \in Receipt : d # c => delivery'[d] = delivery[d]
        /\ UNCHANGED <<received, receiving, lost, restated>>
    BY DEF CreateReceipt, PurchaseIInv, TypeOK, Doc, history
  <1>2. \A d \in Receipt : Counted(d)' <=> Counted(d)
    BY <1>1 DEF Counted
  <1>3. AllBrought'
    BY <1>1, <1>2, SameDeliveries DEF Counted
  <1>4. \A t \in receiving' : AddsDelivery(t)'
    <2>1. \A t \in receiving : t.receipt \in Receipt /\ t.receipt # c /\ AddsDelivery(t)
      BY <1>1 DEF PurchaseIInv, SessionsFit, Confirms, TypeOK, RInv
    <2> QED BY <1>1, <2>1 DEF AddsDelivery, Same, Lines
  <1>5. {d \in Receipt : Counted(d)}' = {d \in Receipt : Counted(d)}
    BY <1>2
  <1> QED BY <1>3, <1>4, <1>5 DEF RInv

LEMMA CommitTransitionAdds ==
    ASSUME PurchaseIInv, RInv, NEW t \in moving, CommitTransition(t)
    PROVE  RInv'
  <1>1. PICK d \in Doc : d = t.doc
    BY DEF PurchaseIInv, TypeOK
  <1>2. <<t.from, t.to>> \in VALID_TRANSITIONS(d) /\ t.to # "confirmed" /\ status[d] # "none"
    BY <1>1 DEF PurchaseIInv, SessionsFit, Moves
  <1>3. /\ \A c \in Receipt : status'[c] = IF c = d THEN t.to ELSE status[c]
        /\ restated' = IF status[d] = t.from THEN restated ELSE restated \union {d}
        /\ UNCHANGED <<received, delivery, receiving, lost>>
    BY <1>1 DEF CommitTransition, PurchaseIInv, TypeOK, Doc
  <1>4. d \in Receipt => t.to # "none" /\ (t.to = "closed" <=> t.from \in {"confirmed", "closed"})
    BY <1>2, DocAssumption DEF VALID_TRANSITIONS, ReceiptTransitions
  <1>5. \A c \in Receipt : c \in restated' \/ (Counted(c)' <=> Counted(c))
    BY <1>2, <1>3, <1>4 DEF Counted
  <1>6. AllBrought'
    <2>1. \A c \in Receipt : status[c] # "none" => status'[c] # "none"
      BY <1>3, <1>4
    <2>2. \A c \in Receipt : Counted(c)' => status[c] # "none"
      BY <1>2, <1>3 DEF Counted
    <2>3. restated \subseteq restated'
      BY <1>3
    <2> QED BY <1>3, <1>5, <2>1, <2>2, <2>3, SameDeliveries
  <1>7. \A u \in receiving' : AddsDelivery(u)'
    BY <1>3 DEF AddsDelivery, Same, Lines, RInv
  <1>8. IsFiniteSet({c \in Receipt : Counted(c)}')
    <2>1. {c \in Receipt : Counted(c)}' \subseteq {c \in Receipt : Counted(c)} \union {d}
      BY <1>3 DEF Counted
    <2>2. IsFiniteSet({c \in Receipt : Counted(c)} \union {d})
      BY FS_AddElement DEF RInv
    <2> QED BY <2>1, <2>2, FS_Subset
  <1> QED BY <1>6, <1>7, <1>8 DEF RInv

LEMMA CommitReceiveAdds ==
    ASSUME PurchaseIInv, RInv, NEW t \in receiving, CommitReceive(t)
    PROVE  RInv'
  <1>1. PICK o : o = delivery[t.receipt].order
    OBVIOUS
  <1>2. PICK c : c = t.receipt
    OBVIOUS
  <1>3. /\ Confirms(t) /\ c \in Receipt \ Order /\ o \in Order
        /\ DOMAIN t.got = Lines(o) /\ DOMAIN t.left = Lines(o)
        /\ \A d \in Doc : status'[d] = IF d = c THEN "confirmed"
                                       ELSE IF d = o /\ ClosesOrder(t) THEN "closed"
                                       ELSE status[d]
        /\ \A l \in Line : received'[l] = IF l \in Written(t) THEN t.left[l] ELSE received[l]
        /\ \A l \in Written(t) : t.got[l] # received[l] => l \in lost'
        /\ lost \subseteq lost' /\ restated \subseteq restated'
        /\ status[c] # t.from => c \in restated'
        /\ receiving' = receiving \ {t}
        /\ delivery' = delivery
    BY <1>1, <1>2, Received
  <1>4. status[c] # "none" /\ t.from = "draft"
    BY <1>2, <1>3 DEF Confirms
  <1>5. \A d \in Receipt : status'[d] = IF d = c THEN "confirmed" ELSE status[d]
    BY <1>3, DocAssumption DEF Doc
  <1>6. \A l \in Line : Mine(l)' = Mine(l)
    BY <1>3, <1>4, <1>5 DEF Mine
  <1>7. AllBrought'
    <2> SUFFICES ASSUME NEW l \in Line \ lost', Mine(l) \intersect restated' = {}, Same(l) = {l}
                 PROVE  received'[l] = Brought(l)'
      BY <1>6, SameLines DEF AllBrought
    <2>1. received[l] = Brought(l)
      BY <1>3 DEF RInv, AllBrought
    <2>2. CASE OrderOf(l) # o
      <3>1. CountedOf(l)' = CountedOf(l)
        BY <1>1, <1>2, <1>5, <1>6, <2>2 DEF CountedOf, Mine, Counted
      <3>2. Brought(l)' = Brought(l)
        BY <1>3, <3>1 DEF Brought
      <3>3. l \notin Written(t)
        BY <1>3, <2>2 DEF Written, Lines
      <3> QED BY <1>3, <2>1, <3>2, <3>3
    <2>3. CASE OrderOf(l) = o
      <3> DEFINE C == CountedOf(l)
                 f == [d \in C |-> delivery[d].qty[ProductOf(l)]]
                 g == [d \in C \union {c} |-> delivery[d].qty[ProductOf(l)]]
      <3>1. c \in Mine(l) /\ status[c] = "draft"
        BY <1>1, <1>2, <1>3, <1>4, <2>3 DEF Mine
      <3>2. CountedOf(l)' = C \union {c} /\ c \notin C
        BY <1>5, <1>6, <3>1 DEF CountedOf, Counted, Mine
      <3>3. IsFiniteSet(C)
        BY FS_Subset DEF RInv, CountedOf, Mine
      <3>4. \A d \in C \union {c} : delivery[d].qty[ProductOf(l)] \in Nat
        BY <1>3, LineAssumption DEF PurchaseIInv, TypeOK, CountedOf, Mine
      <3>5. Brought(l)' = SumFunctionOnSet(g, C \union {c}) /\ Brought(l) = SumFunctionOnSet(f, C)
        BY <1>3, <3>2 DEF Brought, SumFunction
      <3>6. /\ \A d \in C : f[d] = g[d]
            /\ \A d \in C \union {c} : g[d] \in Int
            /\ g[c] = delivery[c].qty[ProductOf(l)]
        BY <3>4
      <3> HIDE DEF C, f, g
      <3>7. SumFunctionOnSet(g, C \union {c}) = g[c] + SumFunctionOnSet(g, C)
        BY <3>2, <3>3, <3>6, SumInsert
      <3>8. SumFunctionOnSet(f, C) = SumFunctionOnSet(g, C)
        BY <3>3, <3>6, SumSameValues
      <3>9. l \in Lines(o) /\ l \in Line
        BY <2>3 DEF Lines
      <3>10. t.left[l] = t.got[l] + g[c]
        BY <1>2, <1>3, <3>6, <3>9 DEF RInv, AddsDelivery
      <3>11. received'[l] = received[l] + g[c]
        <4>1. t.got[l] \in Nat /\ received[l] \in Nat /\ g[c] \in Int
          BY <1>3, <3>6, <3>9 DEF PurchaseIInv, TypeOK
        <4>2. CASE t.left[l] = t.got[l]
          BY <1>3, <3>9, <3>10, <4>1, <4>2 DEF Written
        <4>3. CASE t.left[l] # t.got[l]
          BY <1>3, <3>9, <3>10, <4>1, <4>3 DEF Written
        <4> QED BY <4>2, <4>3
      <3>12. g[c] \in Int /\ received[l] \in Int
        BY <3>6 DEF PurchaseIInv, TypeOK
      <3> QED BY <2>1, <3>5, <3>7, <3>8, <3>11, <3>12
    <2> QED BY <2>2, <2>3
  <1>8. \A u \in receiving' : AddsDelivery(u)'
    BY <1>3 DEF AddsDelivery, Same, Lines, RInv
  <1>9. IsFiniteSet({d \in Receipt : Counted(d)}')
    <2>1. {d \in Receipt : Counted(d)}' \subseteq {d \in Receipt : Counted(d)} \union {c}
      BY <1>5 DEF Counted
    <2>2. IsFiniteSet({d \in Receipt : Counted(d)} \union {c})
      BY FS_AddElement DEF RInv
    <2> QED BY <2>1, <2>2, FS_Subset
  <1> QED BY <1>7, <1>8, <1>9 DEF RInv

LEMMA DeliveriesKept == PurchaseIInv /\ RInv /\ [Next]_vars => RInv'
  <1> SUFFICES ASSUME PurchaseIInv, RInv, [Next]_vars PROVE RInv'
    OBVIOUS
  <1>1. ASSUME NEW d \in Doc, Create(d) PROVE RInv'
    <2>1. \A c \in Receipt : status'[c] = status[c]
      BY <1>1, DocAssumption DEF Create, PurchaseIInv, TypeOK, Doc
    <2> QED BY <1>1, <2>1, SameReceipts DEF Create, history
  <1>2. ASSUME NEW c \in Receipt, NEW o \in Order, NEW qty \in Delivery,
               CreateReceipt(c, o, qty)
        PROVE  RInv'
    BY <1>2, CreateReceiptAdds
  <1>3. ASSUME NEW t \in moving, CommitTransition(t) PROVE RInv'
    BY <1>3, CommitTransitionAdds
  <1>4. ASSUME NEW r \in Req, NEW c \in Receipt, BeginReceive(r, c) PROVE RInv'
    <2>1. PICK u : u = [by |-> r, receipt |-> c, from |-> status[c], order |-> "unread",
                        got |-> <<>>, left |-> <<>>]
      OBVIOUS
    <2>2. AddsDelivery(u)
      BY <2>1, NoLines DEF AddsDelivery
    <2> QED BY <1>4, <2>1, <2>2, SameReceipts DEF BeginReceive, history
  <1>5. ASSUME NEW t \in receiving, ReadOrder(t) PROVE RInv'
    <2>1. PICK u : u = [t EXCEPT !.order = status[delivery[t.receipt].order]]
      OBVIOUS
    <2>2. u.got = t.got /\ u.left = t.left /\ u.receipt = t.receipt
      BY <2>1 DEF PurchaseIInv, SessionsFit, Confirmations
    <2>3. AddsDelivery(u)
      BY <2>2 DEF RInv, AddsDelivery
    <2> QED BY <1>5, <2>1, <2>3, SameReceipts DEF ReadOrder, history
  <1>6. ASSUME NEW t \in receiving, ReadLines(t) PROVE RInv'
    BY <1>6, ReadLinesAdds
  <1>7. ASSUME NEW t \in receiving, CommitReceive(t) PROVE RInv'
    BY <1>7, CommitReceiveAdds
  <1>8. ASSUME receiving' \subseteq receiving,
               UNCHANGED <<status, received, delivery, lost, restated>>
        PROVE  RInv'
    BY <1>8, SameReceipts
  <1>9. \/ \E d \in Doc : Create(d)
        \/ \E c \in Receipt, o \in Order, qty \in Delivery : CreateReceipt(c, o, qty)
        \/ \E t \in moving : CommitTransition(t)
        \/ \E r \in Req, c \in Receipt : BeginReceive(r, c)
        \/ \E t \in receiving : ReadOrder(t)
        \/ \E t \in receiving : ReadLines(t)
        \/ \E t \in receiving : CommitReceive(t)
        \/ /\ receiving' \subseteq receiving
           /\ UNCHANGED <<status, received, delivery, lost, restated>>
    BY DEF Next, vars, history, BeginTransition, PublishApproved, RollbackTransition, RollbackReceive
  <1> QED BY <1>1, <1>2, <1>3, <1>4, <1>5, <1>6, <1>7, <1>8, <1>9

\* What an order line has received is what the confirmed receipts delivered of
\* its product, unless sessions overlapped on the line or on a receipt.
THEOREM ReceivedIsDeliveredHolds == Spec => []ReceivedIsDelivered
  <1>1. Init => RInv
    <2> SUFFICES ASSUME Init PROVE RInv
      OBVIOUS
    <2>1. {c \in Receipt : Counted(c)} = {} /\ \A l \in Line : CountedOf(l) = {}
      BY DEF Init, Counted, CountedOf, Mine, Doc
    <2>2. \A l \in Line : Brought(l) = 0
      BY <2>1, SumEmpty DEF Brought, SumFunction
    <2> QED BY <2>1, <2>2, FS_EmptySet DEF RInv, AllBrought, Init
  <1>2. RInv => ReceivedIsDelivered
    BY DEF RInv, AllBrought, ReceivedIsDelivered, Mine, Same, CountedOf, Brought
  <1>3. PurchaseIInv /\ RInv /\ [Next]_vars => RInv'
    BY DeliveriesKept
  <1> QED BY <1>1, <1>2, <1>3, PurchaseInductive, PTL DEF Spec

-----------------------------------------------------------------------------
(* Suppliers, their tiers and ratings: module Suppliers. A session that    *)
(* decides a change holds it as it was read, and the row with its number   *)
(* is there still.                                                         *)

CallbackRow == [by : SourcingReq, does : {"callback"}, change : ChangeRow,
                approved : BOOLEAN, saw : Tier \union {"none"}, supplier : Supplier]

RatingRow == [by : SourcingReq, does : {"rating"}, supplier : Supplier,
              period : RatingPeriod, score : Rated, saw : 0 .. 100]

\* A callback decides a change that was pending when it was read; a row with
\* its number is there still.
CallbackOK(t) ==
    /\ t \in CallbackRow
    /\ t.change.approval = "pending"
    /\ t.change.supplier = t.supplier
    /\ \E c \in changes : c.id = t.change.id /\ c.supplier = t.supplier

SourcingOK == \A t \in sourcing : CallbackOK(t) \/ t \in RatingRow

ChangesAreKeyed == \A c, d \in changes : c.id = d.id => c = d

SourcingHistory ==
    /\ promised \in [Supplier -> Tier \union {"none"}]
    /\ lastRating \in [Supplier -> 0 .. 100]

SupplierIInv ==
    /\ SupplierTypeOK
    /\ SourcingHistory
    /\ SourcingOK
    /\ ChangesAreKeyed
    /\ SupplierIsAsDecided
    /\ TierHasApproval

-----------------------------------------------------------------------------
LEMMA SupplierInitHolds == SupplierInit => SupplierIInv
  <1> SUFFICES ASSUME SupplierInit PROVE SupplierIInv
    OBVIOUS
  <1> USE DEF SupplierInit
  <1>1. SupplierTypeOK /\ SourcingHistory
    BY DEF SupplierTypeOK, SourcingHistory
  <1>2. SourcingOK /\ ChangesAreKeyed
    BY DEF SourcingOK, ChangesAreKeyed
  <1>3. SupplierIsAsDecided /\ TierHasApproval
    BY DEF SupplierIsAsDecided, TierHasApproval
  <1> QED BY <1>1, <1>2, <1>3 DEF SupplierIInv

LEMMA FormOfSourcing ==
    ASSUME SourcingOK, NEW t \in sourcing
    PROVE  /\ t.does = "callback" => CallbackOK(t)
           /\ t.does = "rating" => t \in RatingRow
  <1>1. CallbackOK(t) => t.does = "callback"
    BY DEF CallbackOK, CallbackRow
  <1>2. t \in RatingRow => t.does = "rating"
    BY DEF RatingRow
  <1> QED BY <1>1, <1>2 DEF SourcingOK

\* Rows of changes may be added or decided, but keep their number and supplier.
LEMMA SourcingChanges ==
    ASSUME SourcingOK,
           \A c \in changes : \E d \in changes' : d.id = c.id /\ d.supplier = c.supplier,
           \A t \in sourcing' \ sourcing : CallbackOK(t)' \/ t \in RatingRow
    PROVE  SourcingOK'
  <1>1. ASSUME NEW t \in sourcing, CallbackOK(t) PROVE CallbackOK(t)'
    BY <1>1 DEF CallbackOK
  <1> QED BY <1>1 DEF SourcingOK

\* A step that leaves suppliers and changes alone.
LEMMA SameSuppliers ==
    ASSUME SupplierIInv, UNCHANGED <<tier, rating, changes, ratings, started, promised, lastRating, outrun>>,
           \A t \in sourcing' \ sourcing : CallbackOK(t)' \/ t \in RatingRow
    PROVE  SupplierIInv'
  <1>1. SourcingOK'
    BY SourcingChanges DEF SupplierIInv
  <1>2. SupplierTypeOK' /\ SourcingHistory' /\ ChangesAreKeyed'
    BY DEF SupplierIInv, SupplierTypeOK, SourcingHistory, ChangesAreKeyed
  <1>3. SupplierIsAsDecided' /\ TierHasApproval'
    BY DEF SupplierIInv, SupplierIsAsDecided, TierHasApproval
  <1> QED BY <1>1, <1>2, <1>3 DEF SupplierIInv

LEMMA CreateSupplierKeeps ==
    ASSUME SupplierIInv, NEW s \in Supplier, NEW t \in Tier, CreateSupplier(s, t)
    PROVE  SupplierIInv'
  <1> USE DEF SupplierIInv, CreateSupplier
  <1>1. SupplierTypeOK' /\ SourcingHistory'
    BY DEF SupplierTypeOK, SourcingHistory
  <1>2. SourcingOK' /\ ChangesAreKeyed'
    BY SourcingChanges DEF ChangesAreKeyed
  <1>3. SupplierIsAsDecided'
    BY DEF SupplierIsAsDecided, SupplierTypeOK, SourcingHistory
  <1>4. TierHasApproval'
    BY DEF TierHasApproval, SupplierTypeOK
  <1> QED BY <1>1, <1>2, <1>3, <1>4

LEMMA RequestTierChangeKeeps ==
    ASSUME SupplierIInv, NEW id \in TierChange, NEW s \in Supplier, NEW to \in Tier,
           RequestTierChange(id, s, to)
    PROVE  SupplierIInv'
  <1> PICK c : c = [id |-> id, supplier |-> s, from |-> tier[s], to |-> to, approval |-> "pending"]
    OBVIOUS
  <1>1. c \in ChangeRow /\ c.id = id
    BY DEF ChangeRow, SupplierIInv, SupplierTypeOK, RequestTierChange
  <1>2. /\ changes' = changes \union {c} /\ \A d \in changes : d.id # id
        /\ UNCHANGED <<tier, rating, ratings, sourcing, started, promised, lastRating, outrun>>
    BY DEF RequestTierChange
  <1>3. SupplierTypeOK' /\ SourcingHistory' /\ ChangesAreKeyed'
    BY <1>1, <1>2 DEF SupplierIInv, SupplierTypeOK, SourcingHistory, ChangesAreKeyed
  <1>4. SourcingOK'
    BY <1>2, SourcingChanges DEF SupplierIInv
  <1>5. SupplierIsAsDecided' /\ TierHasApproval'
    BY <1>2 DEF SupplierIInv, SupplierIsAsDecided, TierHasApproval
  <1> QED BY <1>3, <1>4, <1>5 DEF SupplierIInv

LEMMA BeginCallbackKeeps ==
    ASSUME SupplierIInv, NEW r \in SourcingReq, NEW c \in Decidable, NEW approved \in BOOLEAN,
           BeginCallback(r, c, approved)
    PROVE  SupplierIInv'
  <1> PICK t : t = [by |-> r, does |-> "callback", change |-> c, approved |-> approved,
                    saw |-> tier[c.supplier], supplier |-> c.supplier]
    OBVIOUS
  <1>1. c \in changes /\ c \in ChangeRow /\ c.approval = "pending"
    BY DEF Decidable, SupplierIInv, SupplierTypeOK
  <1>2. c.supplier \in Supplier /\ tier[c.supplier] \in Tier \union {"none"}
    BY <1>1 DEF ChangeRow, SupplierIInv, SupplierTypeOK
  <1>3. t \in CallbackRow /\ t.change = c /\ t.supplier = c.supplier
    BY <1>1, <1>2 DEF CallbackRow
  <1>4. CallbackOK(t)
    BY <1>1, <1>3 DEF CallbackOK
  <1>5. /\ sourcing' = sourcing \union {t}
        /\ UNCHANGED <<supplierTables, started, promised, lastRating, outrun>>
    BY DEF BeginCallback
  <1>6. CallbackOK(t)'
    BY <1>4, <1>5 DEF CallbackOK, supplierTables
  <1> QED BY <1>5, <1>6, SameSuppliers DEF supplierTables

LEMMA CommitCallbackKeeps ==
    ASSUME SupplierIInv, NEW t \in sourcing, CommitCallback(t)
    PROVE  SupplierIInv'
  <1>1. CallbackOK(t)
    BY FormOfSourcing DEF SupplierIInv, CommitCallback
  <1>2. /\ t.change \in ChangeRow /\ t.supplier \in Supplier /\ t.saw \in Tier \union {"none"}
        /\ t.change.to \in Tier /\ t.change.approval = "pending" /\ t.approved \in BOOLEAN
        /\ t.change.supplier = t.supplier
    BY <1>1 DEF CallbackOK, CallbackRow, ChangeRow
  <1> PICK d : d = Decided(t)
    OBVIOUS
  <1>3. /\ d \in ChangeRow /\ d.id = t.change.id /\ d.supplier = t.supplier
        /\ d.to = t.change.to /\ (t.approved => d.approval = "approved")
    BY <1>2 DEF Decided, ChangeRow
  <1>4. /\ changes' = {c \in changes : c.id # t.change.id} \union {d}
        /\ tier' = [tier EXCEPT ![t.supplier] = TierAfter(t)]
        /\ promised' = [promised EXCEPT ![t.supplier] = IF t.approved THEN t.change.to ELSE @]
        /\ outrun' = IF t.change \in changes /\ t.saw = tier[t.supplier]
                     THEN outrun ELSE outrun \union {t.supplier}
        /\ sourcing' = sourcing \ {t}
        /\ UNCHANGED <<rating, ratings, started, lastRating>>
    BY DEF CommitCallback
  <1>5. TierAfter(t) \in Tier \union {"none"}
    BY <1>2 DEF TierAfter, SupplierIInv, SupplierTypeOK
  <1>6. SupplierTypeOK' /\ SourcingHistory'
    BY <1>2, <1>3, <1>4, <1>5 DEF SupplierIInv, SupplierTypeOK, SourcingHistory
  <1>7. SourcingOK'
    <2>1. \A c \in changes : c.id = t.change.id => c.supplier = t.supplier
      BY <1>1 DEF CallbackOK, SupplierIInv, ChangesAreKeyed
    <2>2. \A c \in changes : \E e \in changes' : e.id = c.id /\ e.supplier = c.supplier
      BY <1>3, <1>4, <2>1
    <2> QED BY <1>4, <2>2, SourcingChanges DEF SupplierIInv
  <1>8. ChangesAreKeyed'
    BY <1>3, <1>4 DEF SupplierIInv, ChangesAreKeyed
  <1>9. ASSUME NEW s \in Supplier, s \notin outrun', s = t.supplier
        PROVE  /\ tier'[s] = promised'[s] /\ tier[s] = promised[s]
               /\ t.change \in changes /\ s \notin outrun
               /\ IF t.approved THEN tier'[s] = t.change.to ELSE tier'[s] = tier[s]
    <2>1. t.change \in changes /\ t.saw = tier[s] /\ s \notin outrun
      BY <1>4, <1>9
    <2>2. tier[s] = promised[s]
      BY <2>1 DEF SupplierIInv, SupplierIsAsDecided
    <2>3. tier'[s] = TierAfter(t)
      BY <1>4, <1>9 DEF SupplierIInv, SupplierTypeOK
    <2>4. promised'[s] = IF t.approved THEN t.change.to ELSE promised[s]
      BY <1>4, <1>9 DEF SupplierIInv, SourcingHistory
    <2> QED BY <1>9, <2>1, <2>2, <2>3, <2>4 DEF TierAfter
  <1>10. ASSUME NEW s \in Supplier, s \notin outrun', s # t.supplier
         PROVE  tier'[s] = tier[s] /\ promised'[s] = promised[s] /\ s \notin outrun
    BY <1>4, <1>10 DEF SupplierIInv, SupplierTypeOK, SourcingHistory
  <1>11. SupplierIsAsDecided'
    BY <1>4, <1>9, <1>10 DEF SupplierIInv, SupplierIsAsDecided
  <1>12. ASSUME NEW s \in Supplier, s \notin outrun', tier'[s] # started'[s]
         PROVE  \E c \in changes' : c.supplier = s /\ c.to = tier'[s] /\ c.approval = "approved"
    <2>1. CASE s = t.supplier /\ t.approved
      BY <1>3, <1>4, <1>9, <1>12, <2>1
    <2>2. CASE ~(s = t.supplier /\ t.approved)
      <3>1. tier'[s] = tier[s] /\ s \notin outrun
        BY <1>2, <1>9, <1>10, <1>12, <2>2
      <3>2. PICK c \in changes : c.supplier = s /\ c.to = tier[s] /\ c.approval = "approved"
        BY <1>4, <1>12, <3>1 DEF SupplierIInv, TierHasApproval
      <3>3. c.id # t.change.id
        <4> SUFFICES ASSUME c.id = t.change.id PROVE FALSE
          OBVIOUS
        <4>1. c.supplier = t.supplier
          BY <1>1 DEF CallbackOK, SupplierIInv, ChangesAreKeyed
        <4>2. t.change \in changes
          BY <1>9, <1>12, <3>2, <4>1
        <4>3. c = t.change
          BY <4>2 DEF SupplierIInv, ChangesAreKeyed
        <4> QED BY <1>2, <3>2, <4>3
      <3> QED BY <1>4, <3>1, <3>2, <3>3
    <2> QED BY <2>1, <2>2
  <1>13. TierHasApproval'
    BY <1>12 DEF TierHasApproval
  <1> QED BY <1>6, <1>7, <1>8, <1>11, <1>13 DEF SupplierIInv

LEMMA BeginRatingKeeps ==
    ASSUME SupplierIInv, NEW r \in SourcingReq, NEW s \in Supplier, NEW p \in RatingPeriod,
           NEW n \in Rated, BeginRating(r, s, p, n)
    PROVE  SupplierIInv'
  <1> PICK t : t = [by |-> r, does |-> "rating", supplier |-> s, period |-> p, score |-> n,
                    saw |-> rating[s]]
    OBVIOUS
  <1>1. t \in RatingRow
    BY DEF RatingRow, SupplierIInv, SupplierTypeOK
  <1>2. /\ sourcing' = sourcing \union {t}
        /\ UNCHANGED <<supplierTables, started, promised, lastRating, outrun>>
    BY DEF BeginRating
  <1> QED BY <1>1, <1>2, SameSuppliers DEF supplierTables

LEMMA CommitRatingKeeps ==
    ASSUME SupplierIInv, NEW t \in sourcing, CommitRating(t)
    PROVE  SupplierIInv'
  <1>1. t \in RatingRow
    BY FormOfSourcing DEF SupplierIInv, CommitRating
  <1>2. t.supplier \in Supplier /\ t.score \in Rated /\ t.saw \in 0 .. 100 /\ t.score \in 0 .. 100
    BY <1>1, RatedAssumption DEF RatingRow
  <1>3. /\ ratings' = ratings \union [supplier : {t.supplier}, period : {t.period}, score : {t.score}]
        /\ rating' = [rating EXCEPT ![t.supplier] = ScoreAfter(t)]
        /\ lastRating' = [lastRating EXCEPT ![t.supplier] = t.score]
        /\ outrun' = IF t.saw = rating[t.supplier] THEN outrun ELSE outrun \union {t.supplier}
        /\ sourcing' = sourcing \ {t}
        /\ UNCHANGED <<tier, changes, started, promised>>
    BY DEF CommitRating
  <1>4. ScoreAfter(t) \in 0 .. 100
    BY <1>2 DEF ScoreAfter, SupplierIInv, SupplierTypeOK
  <1>5. \A row \in ratings' : row.supplier \in Supplier /\ row.score \in Rated
    BY <1>2, <1>3 DEF SupplierIInv, SupplierTypeOK
  <1>6. SupplierTypeOK' /\ SourcingHistory'
    BY <1>2, <1>3, <1>4, <1>5 DEF SupplierIInv, SupplierTypeOK, SourcingHistory
  <1>7. SourcingOK' /\ ChangesAreKeyed'
    BY <1>3, SourcingChanges DEF SupplierIInv, ChangesAreKeyed
  <1>8. SupplierIsAsDecided'
    <2> SUFFICES ASSUME NEW s \in Supplier, s \notin outrun'
                 PROVE  tier'[s] = promised'[s] /\ rating'[s] = lastRating'[s]
      BY DEF SupplierIsAsDecided
    <2>1. tier[s] = promised[s] /\ rating[s] = lastRating[s]
      BY <1>3 DEF SupplierIInv, SupplierIsAsDecided
    <2>2. CASE s = t.supplier
      <3>1. rating'[s] = ScoreAfter(t) /\ lastRating'[s] = t.score
        BY <1>3, <2>2 DEF SupplierIInv, SupplierTypeOK, SourcingHistory
      <3>2. t.saw = rating[s]
        BY <1>3, <2>2
      <3> QED BY <1>3, <2>1, <2>2, <3>1, <3>2 DEF ScoreAfter
    <2>3. CASE s # t.supplier
      BY <1>3, <2>1, <2>3 DEF SupplierIInv, SupplierTypeOK, SourcingHistory
    <2> QED BY <2>2, <2>3
  <1>9. TierHasApproval'
    BY <1>3 DEF SupplierIInv, TierHasApproval
  <1> QED BY <1>6, <1>7, <1>8, <1>9 DEF SupplierIInv

LEMMA SupplierRollbackKeeps ==
    ASSUME SupplierIInv, NEW t \in sourcing, SupplierRollback(t)
    PROVE  SupplierIInv'
  <1>1. sourcing' \subseteq sourcing /\ UNCHANGED <<supplierTables, started, promised, lastRating, outrun>>
    BY DEF SupplierRollback
  <1> QED BY <1>1, SameSuppliers DEF supplierTables

LEMMA SupplierNextKeeps == ASSUME SupplierIInv, SupplierNext PROVE SupplierIInv'
  <1>1. ASSUME NEW s \in Supplier, NEW t \in Tier, CreateSupplier(s, t) PROVE SupplierIInv'
    BY <1>1, CreateSupplierKeeps
  <1>2. ASSUME NEW id \in TierChange, NEW s \in Supplier, NEW to \in Tier,
               RequestTierChange(id, s, to)
        PROVE  SupplierIInv'
    BY <1>2, RequestTierChangeKeeps
  <1>3. ASSUME NEW r \in SourcingReq, NEW c \in Decidable, NEW approved \in BOOLEAN,
               BeginCallback(r, c, approved)
        PROVE  SupplierIInv'
    BY <1>3, BeginCallbackKeeps
  <1>4. ASSUME NEW t \in sourcing, CommitCallback(t) PROVE SupplierIInv'
    BY <1>4, CommitCallbackKeeps
  <1>5. ASSUME NEW r \in SourcingReq, NEW s \in Supplier, NEW p \in RatingPeriod, NEW n \in Rated,
               BeginRating(r, s, p, n)
        PROVE  SupplierIInv'
    BY <1>5, BeginRatingKeeps
  <1>6. ASSUME NEW t \in sourcing, CommitRating(t) PROVE SupplierIInv'
    BY <1>6, CommitRatingKeeps
  <1>7. ASSUME NEW t \in sourcing, SupplierRollback(t) PROVE SupplierIInv'
    BY <1>7, SupplierRollbackKeeps
  <1> QED BY <1>1, <1>2, <1>3, <1>4, <1>5, <1>6, <1>7 DEF SupplierNext

LEMMA SupplierStutterKeeps == ASSUME SupplierIInv, UNCHANGED supplierVars PROVE SupplierIInv'
  BY SameSuppliers DEF supplierVars, supplierTables

LEMMA SupplierInductive == SupplierSpec => []SupplierIInv
  BY SupplierInitHolds, SupplierNextKeeps, SupplierStutterKeeps, PTL DEF SupplierSpec

\* A supplier has the tier of the change approved last and the score of the
\* rating added last, and one that has left the tier the client gave it has an approved
\* change to where it is, unless a session wrote over a row that had changed.
THEOREM SuppliersAreWhereDecided == SupplierSpec => []SuppliersAreAsDecided
  <1>1. SupplierIInv => SuppliersAreAsDecided
    BY DEF SupplierIInv, SuppliersAreAsDecided
  <1> QED BY <1>1, SupplierInductive, PTL

-----------------------------------------------------------------------------
(* The migration from V4: module Migration. TablesAreDone says that the    *)
(* tables before the one being loaded have had all their rows loaded or    *)
(* skipped.                                                                *)

Migrated == {a.row : a \in added}

Done == {"loaded", "passed", "rejected"}

\* A key has been drawn by a row that was loaded or skipped.
KeysAreDrawn ==
    outcome # "failed" => \A c \in ids : \E k \in errors \union Migrated : Key(v4[k]) = c

\* What was added refers to keys that had been drawn.
AddedRefer ==
    \A a \in added :
        /\ a.row \in DOMAIN v4 \ errors
        /\ v4[a.row].refs \subseteq ids
        /\ a.parent # NoKey => a.parent \in ids /\ a.parent = v4[a.row].parent

\* Every row of the tables done so far has been loaded or skipped.
TablesAreDone ==
    /\ stage \in 1 .. 8
    /\ outcome # "failed" =>
          \A k \in LoadedTables : k < stage => RowsOf(Tables[k]) \subseteq errors \union Migrated
    /\ outcome \in Done => stage \notin LoadedTables

\* Lines are counted with what they belong to.
NoLineIsError == \A e \in errors : v4[e].table \notin LineTables

MigrationIInv ==
    /\ v4 \in Source /\ errors \subseteq DOMAIN v4
    /\ KeysAreDrawn
    /\ AddedRefer
    /\ TablesAreDone
    /\ NoLineIsError
    /\ outcome = "passed" => errors = {}
    /\ FailsForAReason

-----------------------------------------------------------------------------
LEMMA SevenTables == LoadedTables = 1 .. 7
  BY DEF LoadedTables, Tables

LEMMA MigrationInitHolds == MigrationInit => MigrationIInv
  BY DEF MigrationInit, MigrationIInv, KeysAreDrawn, AddedRefer, TablesAreDone, Done, Migrated, NoLineIsError,
         FailsForAReason, LoadedTables, Tables

LEMMA LoadRowKeeps ==
    ASSUME MigrationIInv, LoadRow
    PROVE  MigrationIInv'
  <1>1. PICK next : next = Min(Left)
    OBVIOUS
  <1>2. PICK row : row = v4[next]
    OBVIOUS
  <1>3. /\ outcome = "running" /\ Left # {}
        /\ ids' = ids \union Drawn(row)
        /\ added' = IF Loadable(row)
                    THEN added \union {[row |-> next, parent |-> ParentGiven(row)]} ELSE added
        /\ errors' = IF Loadable(row) THEN errors ELSE errors \union {next}
        /\ UNCHANGED <<v4, prior, stage, outcome>>
    BY <1>1, <1>2 DEF LoadRow
  <1>4. next \in Left
    <2>1. Left \subseteq Nat
      BY SourceAssumption DEF MigrationIInv, Left, RowsOf
    <2>2. \E n \in Left : \A m \in Left : n <= m
      <3> DEFINE L == Left
      <3>1. L \subseteq Nat /\ L # {}
        BY <1>3, <2>1
      <3> HIDE DEF L
      <3>2. \E n \in L : \A m \in L : n <= m
        BY <3>1, LeastNatural
      <3> QED BY <3>2 DEF L
    <2> QED BY <1>1, <2>2 DEF Min
  <1>5. next \in DOMAIN v4 /\ next \notin errors /\ next \notin Migrated
    BY <1>4 DEF Left, RowsOf, Migrated
  <1>6. Drawn(row) \subseteq {Key(v4[next])}
    BY <1>2 DEF Drawn
  <1>7. errors \union Migrated \union {next} = (errors \union Migrated)'
    <2>1. CASE Loadable(row)
      <3>1. added' = added \union {[row |-> next, parent |-> ParentGiven(row)]} /\ errors' = errors
        BY <1>3, <2>1
      <3>2. PICK one : one = [row |-> next, parent |-> ParentGiven(row)]
        OBVIOUS
      <3>3. one.row = next /\ added' = added \union {one}
        BY <3>1, <3>2
      <3>4. {a.row : a \in added'} = {a.row : a \in added} \union {next}
        BY <3>3
      <3> QED BY <3>1, <3>4 DEF Migrated
    <2>2. CASE ~ Loadable(row)
      BY <1>3, <2>2 DEF Migrated
    <2> QED BY <2>1, <2>2
  <1>8. KeysAreDrawn'
    BY <1>3, <1>6, <1>7 DEF MigrationIInv, KeysAreDrawn
  <1>9. AddedRefer'
    <2>1. \A a \in added : a.row # next
      BY <1>5 DEF Migrated
    <2>2. Loadable(row) => row.refs \subseteq ids
      BY DEF Loadable
    <2>3. ParentGiven(row) # NoKey => ParentGiven(row) \in ids /\ ParentGiven(row) = row.parent
      BY DEF ParentGiven
    <2> QED BY <1>2, <1>3, <1>5, <2>1, <2>2, <2>3 DEF MigrationIInv, AddedRefer
  <1>10. TablesAreDone'
    BY <1>3, <1>7 DEF MigrationIInv, TablesAreDone, Done, RowsOf
  <1>11. v4' \in Source /\ errors' \subseteq DOMAIN v4'
    BY <1>3, <1>5 DEF MigrationIInv
  <1>12. FailsForAReason' /\ outcome' # "passed"
    BY <1>3 DEF FailsForAReason
  <1>13. NoLineIsError'
    <2>1. v4[next].table = Tables[stage] /\ stage \in LoadedTables
      BY <1>4 DEF Left, RowsOf, LoadRow
    <2>2. v4[next].table \notin LineTables
      BY <2>1 DEF LoadedTables, Tables, LineTables
    <2> QED BY <1>3, <2>2 DEF MigrationIInv, NoLineIsError
  <1> QED BY <1>8, <1>9, <1>10, <1>11, <1>12, <1>13 DEF MigrationIInv

LEMMA FlushKeeps ==
    ASSUME MigrationIInv, Flush
    PROVE  MigrationIInv'
  <1>1. /\ outcome = "running" /\ stage \in LoadedTables /\ Left = {} /\ stage' = stage + 1
        /\ UNCHANGED <<v4, prior, ids, added, errors, outcome>>
    BY DEF Flush
  <1>2. RowsOf(Tables[stage]) \subseteq errors \union Migrated
    BY <1>1 DEF Left, Migrated
  <1>3. TablesAreDone'
    <2>1. stage' \in 1 .. 8
      BY <1>1, SevenTables
    <2>2. \A k \in LoadedTables : k < stage' => k < stage \/ k = stage
      BY <1>1, SevenTables
    <2> QED BY <1>1, <1>2, <2>1, <2>2 DEF MigrationIInv, TablesAreDone, Done, RowsOf, Migrated
  <1>4. KeysAreDrawn' /\ AddedRefer' /\ NoLineIsError' /\ FailsForAReason'
    BY <1>1 DEF MigrationIInv, KeysAreDrawn, AddedRefer, NoLineIsError, FailsForAReason, Migrated
  <1> QED BY <1>1, <1>3, <1>4 DEF MigrationIInv

LEMMA FlushFailsKeeps ==
    ASSUME MigrationIInv, FlushFails
    PROVE  MigrationIInv'
  <1>1. /\ outcome = "running" /\ stage \in LoadedTables /\ ~Passes /\ outcome' = "failed" /\ added' = {}
        /\ UNCHANGED <<v4, prior, stage, ids, errors>>
    BY DEF FlushFails
  <1>2. KeysAreDrawn' /\ AddedRefer' /\ TablesAreDone' /\ NoLineIsError'
    BY <1>1 DEF MigrationIInv, KeysAreDrawn, AddedRefer, TablesAreDone, Done, NoLineIsError
  <1>3. FailsForAReason'
    <2>1. CASE ~KeysHold
      <3>1. PICK a \in added :
               \E c \in v4[a.row].refs \union {v4[a.row].parent} : c \in ids /\ c \notin AddedKeys
        BY <2>1 DEF KeysHold, MigrationIInv, AddedRefer
      <3>2. PICK c \in v4[a.row].refs \union {v4[a.row].parent} : c \in ids /\ c \notin AddedKeys
        BY <3>1
      <3>3. PICK e \in errors \union Migrated : Key(v4[e]) = c
        BY <1>1, <3>2 DEF MigrationIInv, KeysAreDrawn
      <3>4. e \in errors
        BY <3>2, <3>3 DEF AddedKeys, Migrated
      <3>5. a.row \in DOMAIN v4 \ errors
        BY DEF MigrationIInv, AddedRefer
      <3> QED BY <1>1, <3>2, <3>3, <3>4, <3>5 DEF FailsForAReason
    <2>2. CASE ~ColumnsHold \/ ~CodesAreUnique
      <3>1. Given \subseteq DOMAIN v4 \ errors
        BY DEF Given, MigrationIInv, AddedRefer, LinesFor, NoLineIsError
      <3>2. CASE ~ColumnsHold
        BY <1>1, <3>1, <3>2 DEF FailsForAReason, ColumnsHold
      <3>3. CASE ~CodesAreUnique
        BY <1>1, <3>1, <3>3 DEF FailsForAReason, CodesAreUnique, SameCode
      <3> QED BY <2>2, <3>2, <3>3
    <2>3. CASE \E lines \in LineTables : ~LinesGrouped(lines)
      BY <1>1, <2>3 DEF FailsForAReason, LinesGrouped, RowsOf
    <2> QED BY <1>1, <2>1, <2>2, <2>3 DEF Passes, LineTables
  <1> QED BY <1>1, <1>2, <1>3 DEF MigrationIInv

LEMMA CommitMigrationKeeps ==
    ASSUME MigrationIInv, CommitMigration
    PROVE  MigrationIInv'
  <1>1. /\ outcome = "running" /\ outcome' = "loaded" /\ stage \notin LoadedTables
        /\ UNCHANGED <<v4, prior, stage, ids, added, errors>>
    BY DEF CommitMigration
  <1>2. KeysAreDrawn' /\ AddedRefer' /\ TablesAreDone' /\ NoLineIsError' /\ FailsForAReason'
    BY <1>1 DEF MigrationIInv, KeysAreDrawn, AddedRefer, TablesAreDone, Done, RowsOf, Migrated,
                NoLineIsError, FailsForAReason
  <1> QED BY <1>1, <1>2 DEF MigrationIInv

LEMMA ReconcileKeeps ==
    ASSUME MigrationIInv, Reconcile
    PROVE  MigrationIInv'
  <1>1. /\ outcome = "loaded" /\ outcome' \in {"passed", "rejected"}
        /\ outcome' = "passed" => errors = {}
        /\ UNCHANGED <<v4, prior, stage, ids, added, errors>>
    BY DEF Reconcile, NoErrors
  <1>2. KeysAreDrawn' /\ AddedRefer' /\ TablesAreDone' /\ NoLineIsError' /\ FailsForAReason'
    BY <1>1 DEF MigrationIInv, KeysAreDrawn, AddedRefer, TablesAreDone, Done, RowsOf, Migrated,
                NoLineIsError, FailsForAReason
  <1> QED BY <1>1, <1>2 DEF MigrationIInv

LEMMA MigrationStays ==
    ASSUME MigrationIInv, UNCHANGED migrationVars
    PROVE  MigrationIInv'
  BY DEF migrationVars, MigrationIInv, KeysAreDrawn, AddedRefer, TablesAreDone, RowsOf, Migrated, NoLineIsError,
         FailsForAReason, LinesGrouped, SameCode

LEMMA MigrationNextKeeps ==
    ASSUME MigrationIInv, [MigrationNext]_<<warehouseVars, migrationVars>>
    PROVE  MigrationIInv'
  BY LoadRowKeeps, FlushKeeps, FlushFailsKeeps, CommitMigrationKeeps, ReconcileKeeps,
     MigrationStays DEF MigrationNext, UseWarehouses

LEMMA PassedMeansComplete == ASSUME MigrationIInv PROVE PassedIsComplete
  <1> SUFFICES ASSUME outcome = "passed" PROVE
        /\ \A k \in LoadedTables : AddedOf(Tables[k]) = RowsOf(Tables[k])
        /\ \A lines \in LineTables : \A k \in RowsOf(lines) : v4[k].refs \subseteq AddedKeys \/
               \A o \in RowsOf("order") \union RowsOf("stocktake") : v4[k].refs # {Key(v4[o])}
    BY DEF PassedIsComplete
  <1>1. \A k \in LoadedTables : k < stage
    BY SevenTables DEF MigrationIInv, TablesAreDone, Done
  <1>2. \A k \in LoadedTables : RowsOf(Tables[k]) \subseteq Migrated
    BY <1>1 DEF MigrationIInv, TablesAreDone
  <1>3. \A k \in LoadedTables : AddedOf(Tables[k]) = RowsOf(Tables[k])
    BY <1>2 DEF AddedOf, Migrated
  <1>4. RowsOf("order") \union RowsOf("stocktake") \subseteq Migrated
    <2>1. 4 \in LoadedTables /\ Tables[4] = "order" /\ 7 \in LoadedTables /\ Tables[7] = "stocktake"
      BY DEF LoadedTables, Tables
    <2> QED BY <1>2, <2>1
  <1>5. \A o \in RowsOf("order") \union RowsOf("stocktake") : Key(v4[o]) \in AddedKeys
    BY <1>4 DEF AddedKeys, Migrated
  <1> QED BY <1>3, <1>5

\* A migration that passes has taken over every row of the seven tables it loads,
\* and every line whose order or stocktake is in the source; one fails only where
\* a row refers to one that was skipped, where a row violates a constraint of its
\* table, or where a line cannot be read.
THEOREM MigrationIsWholeHolds == MigrationSpec => []MigrationIsWhole
  <1>1. MigrationIInv => MigrationIsWhole
    BY PassedMeansComplete DEF MigrationIInv, MigrationIsWhole
  <1>2. MigrationSpec => []MigrationIInv
    BY MigrationInitHolds, MigrationNextKeeps, PTL DEF MigrationSpec
  <1> QED BY <1>1, <1>2, PTL

-----------------------------------------------------------------------------
(* The tree of a warehouse, of locations that were created or migrated.    *)

\* f lists the nodes of the tree of a warehouse by depth.
AreNodes(f, w) ==
    f = [n \in Nat |-> IF n = 0 THEN Roots(w)
                       ELSE f[n - 1] \union UNION {Children(w, l) : l \in f[n - 1]}]

\* No location is above itself: of some locations one hangs under none of them.
NoLoops ==
    \A S \in SUBSET locations : S # {} => \E l \in S : \A p \in S : p.id # l.parent

IdsAreKeys == \A k, l \in locations : k.id = l.id => k = l

LEMMA ShownIsNodes ==
    ASSUME NEW w
    PROVE  Shown(w) = (CHOOSE f : AreNodes(f, w))[Cardinality(Place)]
  BY DEF Shown, AreNodes

LEMMA NodesExist ==
    ASSUME NEW w
    PROVE  \E f : AreNodes(f, w)
  <1> DEFINE L == LocationsOf(w)
             S == [N \in SUBSET L |-> N \union UNION {Children(w, l) : l \in N}]
  <1>1. S \in [SUBSET L -> SUBSET L]
    BY DEF Children
  <1>2. Roots(w) \in SUBSET L
    BY DEF Roots
  <1>3. \A N \in SUBSET L : S[N] = N \union UNION {Children(w, l) : l \in N}
    OBVIOUS
  <1> DEFINE X == SUBSET L
             x0 == Roots(w)
  <1> HIDE DEF S
  <1>4. PICK f \in [Nat -> X] : f[0] = x0 /\ \A n \in Nat : f[n + 1] = S[f[n]]
    <2>1. CanIterate(X, x0, S)
      BY <1>1, <1>2 DEF CanIterate
    <2> HIDE DEF X, x0
    <2>2. PICK f : IsIteration(f, X, x0, S)
      BY <2>1, Iterates
    <2> QED BY <2>2 DEF IsIteration
  <1> HIDE DEF L
  <1>5. ASSUME NEW n \in Nat
        PROVE  f[n] = IF n = 0 THEN Roots(w)
                      ELSE f[n - 1] \union UNION {Children(w, l) : l \in f[n - 1]}
    <2>1. CASE n = 0
      BY <1>4, <2>1
    <2>2. CASE n # 0
      <3>1. PICK m \in Nat : n = m + 1
        <4>1. n - 1 \in Nat /\ n = (n - 1) + 1
          BY <2>2
        <4> QED BY <4>1
      <3>2. n - 1 = m /\ f[m] \in SUBSET L
        BY <1>4, <3>1
      <3> QED BY <1>3, <1>4, <2>2, <3>1, <3>2
    <2> QED BY <2>1, <2>2
  <1> QED BY <1>4, <1>5 DEF AreNodes

\* What the nodes are, depth by depth.
LEMMA NodesByDepth ==
    ASSUME NEW w, NEW f, AreNodes(f, w)
    PROVE  /\ f[0] = Roots(w)
           /\ \A n \in Nat : f[n + 1] = f[n] \union UNION {Children(w, l) : l \in f[n]}
  <1>1. ASSUME NEW m \in Nat
        PROVE  f[m] = IF m = 0 THEN Roots(w)
                      ELSE f[m - 1] \union UNION {Children(w, l) : l \in f[m - 1]}
    BY DEF AreNodes
  <1>2. ASSUME NEW n \in Nat PROVE n + 1 \in Nat /\ n + 1 # 0 /\ (n + 1) - 1 = n
    OBVIOUS
  <1> QED BY <1>1, <1>2

LEMMA NodesAreLocations ==
    ASSUME NEW w, NEW f, AreNodes(f, w), NEW n \in Nat
    PROVE  Roots(w) \subseteq f[n] /\ f[n] \subseteq LocationsOf(w)
  <1> DEFINE Fits(k) == Roots(w) \subseteq f[k] /\ f[k] \subseteq LocationsOf(w)
             T == {k \in Nat : ~Fits(k)}
  <1> SUFFICES ASSUME T # {} PROVE FALSE
    OBVIOUS
  <1>1. PICK k \in T : \A j \in T : k <= j
    BY LeastNatural
  <1>2. k \in Nat /\ ~Fits(k)
    OBVIOUS
  <1>3. k # 0
    BY <1>2, NodesByDepth DEF Roots
  <1>4. PICK j \in Nat : k = j + 1
    <2>1. k - 1 \in Nat /\ k = (k - 1) + 1
      BY <1>2, <1>3
    <2> QED BY <2>1
  <1>5. Fits(j)
    BY <1>1, <1>4
  <1>6. f[j + 1] = f[j] \union UNION {Children(w, l) : l \in f[j]}
    BY NodesByDepth
  <1>7. \A l \in f[j] : Children(w, l) \subseteq LocationsOf(w)
    BY DEF Children
  <1> QED BY <1>2, <1>4, <1>5, <1>6, <1>7

\* A level more shows something more, until all is shown.
LEMMA NodesGrow ==
    ASSUME NoLoops, NEW w, NEW f, AreNodes(f, w), NEW n \in Nat, f[n] # LocationsOf(w)
    PROVE  f[n + 1] # f[n] /\ f[n] \subseteq f[n + 1]
  <1> DEFINE D == LocationsOf(w) \ f[n]
  <1>1. Roots(w) \subseteq f[n] /\ f[n] \subseteq LocationsOf(w)
    BY NodesAreLocations
  <1>2. D # {} /\ D \in SUBSET locations
    BY <1>1 DEF LocationsOf
  <1>3. PICK l \in D : \A p \in D : p.id # l.parent
    BY <1>2 DEF NoLoops
  <1>4. l \in LocationsOf(w) /\ l \notin f[n] /\ l \notin Roots(w)
    BY <1>1
  <1>5. PICK p \in LocationsOf(w) : p.id = l.parent
    BY <1>4 DEF Roots
  <1>6. p \in f[n]
    BY <1>3, <1>5
  <1>7. l \in Children(w, p)
    BY <1>4, <1>5 DEF Children
  <1>8. f[n + 1] = f[n] \union UNION {Children(w, q) : q \in f[n]}
    BY NodesByDepth
  <1> QED BY <1>4, <1>6, <1>7, <1>8

LEMMA FewLocations ==
    ASSUME locations \subseteq LocationRow, IdsAreKeys, NEW w
    PROVE  /\ IsFiniteSet(LocationsOf(w)) /\ Cardinality(LocationsOf(w)) <= Cardinality(Place)
           /\ Cardinality(Place) \in Nat /\ Cardinality(LocationsOf(w)) \in Nat
  <1> DEFINE L == LocationsOf(w)
             to == [l \in L |-> l.id]
  <1>1. \A l \in L : l.id \in Place
    BY DEF LocationsOf, LocationRow
  <1>2. to \in Injection(L, Place)
    BY <1>1 DEF LocationsOf, IdsAreKeys, Injection, IsInjective
  <1>4. IsFiniteSet(Place)
    BY PlaceAssumption
  <1>5. IsFiniteSet(L) /\ Cardinality(L) <= Cardinality(Place)
    <2> HIDE DEF to, L
    <2> QED BY <1>2, <1>4, FS_Injection
  <1>6. Cardinality(Place) \in Nat /\ Cardinality(L) \in Nat
    BY <1>4, <1>5, FS_CardinalityType
  <1> QED BY <1>5, <1>6

LEMMA ManyNodes ==
    ASSUME NoLoops, locations \subseteq LocationRow, IdsAreKeys,
           NEW w, NEW f, AreNodes(f, w), NEW n \in Nat
    PROVE  f[n] = LocationsOf(w) \/ Cardinality(f[n]) >= n
  <1> DEFINE Fits(k) == f[k] = LocationsOf(w) \/ Cardinality(f[k]) >= k
             T == {k \in Nat : ~Fits(k)}
  <1> SUFFICES ASSUME T # {} PROVE FALSE
    OBVIOUS
  <1>1. PICK k \in T : \A j \in T : k <= j
    BY LeastNatural
  <1>2. k \in Nat /\ ~Fits(k)
    OBVIOUS
  <1>3. ASSUME NEW j \in Nat
        PROVE  f[j] \subseteq LocationsOf(w) /\ IsFiniteSet(f[j]) /\ Cardinality(f[j]) \in Nat
    <2>1. f[j] \subseteq LocationsOf(w)
      BY NodesAreLocations
    <2>2. IsFiniteSet(f[j])
      BY <2>1, FewLocations, FS_Subset
    <2> QED BY <2>1, <2>2, FS_CardinalityType
  <1>4. k # 0
    BY <1>2, <1>3
  <1>5. PICK j \in Nat : k = j + 1
    <2>1. k - 1 \in Nat /\ k = (k - 1) + 1
      BY <1>2, <1>4
    <2> QED BY <2>1
  <1>6. Fits(j)
    BY <1>1, <1>5
  <1>7. CASE f[j] = LocationsOf(w)
    <2>1. f[j] \subseteq f[j + 1]
      BY NodesByDepth
    <2>2. f[j + 1] \subseteq LocationsOf(w)
      BY <1>3
    <2>4. f[j + 1] = LocationsOf(w)
      <3> DEFINE A == f[j]
                 B == f[j + 1]
                 C == LocationsOf(w)
      <3>1. A = C /\ A \subseteq B /\ B \subseteq C
        BY <1>7, <2>1, <2>2
      <3> HIDE DEF A, B, C
      <3>2. B = C
        BY <3>1
      <3> QED BY <3>2 DEF B, C
    <2> QED BY <1>2, <1>5, <2>4
  <1>8. CASE f[j] # LocationsOf(w)
    <2>1. f[j + 1] # f[j] /\ f[j] \subseteq f[j + 1]
      BY <1>8, NodesGrow
    <2>2. /\ IsFiniteSet(f[j + 1]) /\ Cardinality(f[j]) \in Nat /\ Cardinality(f[j + 1]) \in Nat
      BY <1>3
    <2>3. Cardinality(f[j]) < Cardinality(f[j + 1])
      BY <2>1, <2>2, FS_Subset
    <2>4. Cardinality(f[j]) >= j
      BY <1>6, <1>8
    <2> QED BY <1>2, <1>5, <2>2, <2>3, <2>4
  <1> QED BY <1>7, <1>8

\* Without a loop above itself every location is shown.
LEMMA AllAreShown ==
    ASSUME NoLoops, locations \subseteq LocationRow, IdsAreKeys, NEW w
    PROVE  Shown(w) = LocationsOf(w)
  <1> DEFINE f == CHOOSE f : AreNodes(f, w)
             n == Cardinality(Place)
  <1>1. AreNodes(f, w) /\ Shown(w) = f[n]
    BY NodesExist, ShownIsNodes
  <1>2. /\ n \in Nat /\ IsFiniteSet(LocationsOf(w)) /\ Cardinality(LocationsOf(w)) <= n
        /\ Cardinality(LocationsOf(w)) \in Nat
    BY FewLocations
  <1> HIDE DEF f, n
  <1>3. f[n] \subseteq LocationsOf(w)
    BY <1>1, <1>2, NodesAreLocations
  <1>4. f[n] = LocationsOf(w) \/ Cardinality(f[n]) >= n
    BY <1>1, <1>2, ManyNodes
  <1>5. IsFiniteSet(f[n]) /\ Cardinality(f[n]) \in Nat
    BY <1>2, <1>3, FS_Subset, FS_CardinalityType
  <1>6. CASE Cardinality(f[n]) >= n
    <2>1. Cardinality(f[n]) <= Cardinality(LocationsOf(w))
      BY <1>2, <1>3, FS_Subset
    <2>2. Cardinality(f[n]) = Cardinality(LocationsOf(w))
      BY <1>2, <1>5, <1>6, <2>1
    <2>3. LocationsOf(w) = f[n]
      BY <1>2, <1>3, <2>2, FS_Subset
    <2> QED BY <1>1, <2>3
  <1> QED BY <1>1, <1>4, <1>6

-----------------------------------------------------------------------------
\* The locations given to the session so far.
Places == {a \in added : v4[a.row].table = "location"}

PlaceOf(a) ==
    [id |-> v4[a.row].id, warehouse |-> (CHOOSE k \in v4[a.row].refs : TRUE)[2],
     level |-> v4[a.row].level, parent |-> a.parent[2]]

\* A row is given to the session once, after the rows of its table before it.
LoadedInTurn ==
    /\ outcome # "failed" =>
          \A j, k \in DOMAIN v4 :
              v4[j].table = v4[k].table /\ k \in errors \union Migrated
                  /\ j \notin errors \union Migrated => k < j
    /\ \A a, b \in added : a.row = b.row => a = b

\* The parent a location was given is of a row before it.
ParentsBefore ==
    \A a \in Places : a.parent # NoKey => \E k \in DOMAIN v4 : k < a.row /\ Key(v4[k]) = a.parent

\* Nothing in order loses its parent.
ParentsGiven ==
    /\ \A k \in errors \union Migrated : v4[k].table = "location" => Key(v4[k]) \in ids
    /\ PlacedInV4 /\ ~OutOfOrder => \A a \in Places : a.parent = v4[a.row].parent

\* Beyond the flush of their table the parents of all locations are there.
ParentsLoaded ==
    stage > 2 => \A a \in Places : a.parent # NoKey => \E b \in added : Key(v4[b.row]) = a.parent

TreeIInv ==
    /\ MigrationIInv
    /\ LoadedInTurn
    /\ ParentsBefore
    /\ ParentsGiven
    /\ ParentsLoaded
    /\ outcome = "running" => locations = {}
    /\ locations \subseteq LocationRow
    /\ IdsAreKeys
    /\ \A l \in locations : l.parent = NoParent \/ \E p \in locations : p.id = l.parent
    /\ NoLoops
    /\ PlacedUnlessOutOfOrder

\* What the invariant says of the locations.
TreeStands ==
    /\ locations \subseteq LocationRow
    /\ IdsAreKeys
    /\ \A l \in locations : l.parent = NoParent \/ \E p \in locations : p.id = l.parent
    /\ NoLoops

LEMMA RowsAreNumbered ==
    ASSUME v4 \in Source
    PROVE  /\ DOMAIN v4 \subseteq Nat
           /\ \A j, k \in DOMAIN v4 : Key(v4[j]) = Key(v4[k]) => j = k
           /\ \A k \in DOMAIN v4 : v4[k].table # "none"
           /\ \A k \in DOMAIN v4 : v4[k].table = "location" =>
                 /\ v4[k].id \in Place /\ v4[k].level \in Level
                 /\ v4[k].parent \in ({"location"} \X Place) \union {NoKey}
                 /\ \E w \in Warehouse : v4[k].refs = {<<"warehouse", w>>}
  BY SourceAssumption

LEMMA TreeInitHolds == WarehouseInit /\ MigrationInit => TreeIInv
  <1> SUFFICES ASSUME WarehouseInit, MigrationInit PROVE TreeIInv
    OBVIOUS
  <1>1. /\ locations = {} /\ added = {} /\ errors = {} /\ stage = 1 /\ ids = {}
    BY DEF WarehouseInit, MigrationInit
  <1>2. MigrationIInv
    BY MigrationInitHolds
  <1>3. Places = {} /\ Migrated = {}
    BY <1>1 DEF Places, Migrated
  <1>4. LoadedInTurn /\ ParentsBefore /\ ParentsGiven /\ ParentsLoaded
    BY <1>1, <1>3 DEF LoadedInTurn, ParentsBefore, ParentsGiven, ParentsLoaded
  <1>5. IdsAreKeys /\ NoLoops /\ PlacedUnlessOutOfOrder
    BY <1>1 DEF IdsAreKeys, NoLoops, PlacedUnlessOutOfOrder
  <1> QED BY <1>1, <1>2, <1>4, <1>5 DEF TreeIInv

\* A location created here hangs under one that is there, or is a root.
LEMMA CreateLocationStands ==
    ASSUME TreeStands, NEW id \in Place, NEW w \in Warehouse, NEW level \in Level,
           NEW parent \in Place \union {NoParent}, CreateLocation(id, w, level, parent)
    PROVE  /\ TreeStands'
           /\ \A l \in locations : WellPlaced(l) => WellPlaced(l)'
           /\ \A l \in locations' \ locations : WellPlaced(l)'
  <1> DEFINE new == [id |-> id, warehouse |-> w, level |-> level, parent |-> parent]
  <1>1. /\ \A l \in locations : l.id # id
        /\ locations' = locations \union {new}
        /\ parent # NoParent => \E p \in locations : p.id = parent
        /\ \A p \in locations : p.id = parent => p.warehouse = w
        /\ ValidHierarchy(level, {l \in locations : l.id = parent})
    BY PlaceAssumption DEF CreateLocation, TreeStands, LocationRow
  <1>2. new \in LocationRow /\ new.id = id /\ new.parent = parent /\ new.level = level
        /\ new.warehouse = w
    BY DEF LocationRow
  <1> HIDE DEF new
  <1>3. id # NoParent
    BY PlaceAssumption
  <1>4. (locations \subseteq LocationRow)'
    BY <1>1, <1>2 DEF TreeStands
  <1>5. IdsAreKeys'
    BY <1>1, <1>2 DEF TreeStands, IdsAreKeys
  <1>6. (\A l \in locations : l.parent = NoParent \/ \E p \in locations : p.id = l.parent)'
    BY <1>1, <1>2 DEF TreeStands
  <1>7. NoLoops'
    <2> SUFFICES ASSUME NEW S, S \subseteq locations \union {new}, S # {}
                 PROVE  \E l \in S : \A p \in S : p.id # l.parent
      BY <1>1 DEF NoLoops
    <2>1. CASE S \ {new} = {}
      <3>1. S = {new}
        BY <2>1
      <3>2. id # parent
        BY <1>1, <1>3
      <3> QED BY <1>2, <3>1, <3>2
    <2>2. CASE S \ {new} # {}
      <3>1. S \ {new} \in SUBSET locations
        OBVIOUS
      <3>2. PICK l \in S \ {new} : \A p \in S \ {new} : p.id # l.parent
        BY <2>2, <3>1 DEF TreeStands, NoLoops
      <3>3. l \in locations /\ l.parent # id
        BY <1>1, <1>3, <3>1, <3>2 DEF TreeStands
      <3> QED BY <1>2, <3>2, <3>3
    <2> QED BY <2>1, <2>2
  <1>8. \A l \in locations : WellPlaced(l) => WellPlaced(l)'
    BY <1>1 DEF WellPlaced
  <1>9. WellPlaced(new)'
    <2>1. CASE level = "zone"
      <3>1. \A p \in locations : p.id # parent
        BY <1>1, <2>1 DEF ValidHierarchy, VALID_PARENT_LEVEL
      <3> QED BY <1>1, <1>2, <2>1, <3>1 DEF WellPlaced
    <2>2. CASE level # "zone"
      <3>1. VALID_PARENT_LEVEL[level] # NoParent
        BY <2>2 DEF VALID_PARENT_LEVEL, Level, NoParent
      <3>2. PICK p \in locations : p.id = parent /\ p.level = VALID_PARENT_LEVEL[level]
        BY <1>1, <3>1 DEF ValidHierarchy
      <3>3. p.warehouse = w
        BY <1>1, <3>2
      <3> QED BY <1>1, <1>2, <2>2, <3>2, <3>3 DEF WellPlaced
    <2> QED BY <2>1, <2>2
  <1> QED BY <1>1, <1>4, <1>5, <1>6, <1>7, <1>8, <1>9 DEF TreeStands

LEMMA UseWarehousesKeeps ==
    ASSUME TreeIInv, UseWarehouses
    PROVE  TreeIInv'
  <1>1. UNCHANGED <<v4, prior, stage, ids, added, errors, outcome>> /\ outcome # "running"
        /\ WarehouseNext
    BY DEF UseWarehouses, migrationVars
  <1>2. MigrationIInv'
    BY <1>1, MigrationStays DEF TreeIInv, migrationVars
  <1>3. LoadedInTurn' /\ ParentsBefore' /\ ParentsGiven' /\ ParentsLoaded'
    BY <1>1 DEF TreeIInv, LoadedInTurn, ParentsBefore, ParentsGiven, ParentsLoaded, Places, Migrated,
                PlacedInV4, OutOfOrder
  <1>4. TreeStands
    BY DEF TreeIInv, TreeStands
  <1>5. PlacedInV4' = PlacedInV4 /\ OutOfOrder' = OutOfOrder
    BY <1>1 DEF PlacedInV4, OutOfOrder
  <1>6. ASSUME NEW w \in Warehouse, CreateWarehouse(w)
        PROVE  TreeStands' /\ PlacedUnlessOutOfOrder'
    <2>1. locations' = locations
      BY <1>6 DEF CreateWarehouse
    <2> QED BY <1>1, <1>4, <1>5, <2>1 DEF TreeIInv, TreeStands, IdsAreKeys, NoLoops,
               PlacedUnlessOutOfOrder, WellPlaced
  <1>7. ASSUME NEW id \in Place, NEW w \in Warehouse, NEW level \in Level,
               NEW parent \in Place \union {NoParent}, CreateLocation(id, w, level, parent)
        PROVE  TreeStands' /\ PlacedUnlessOutOfOrder'
    <2>1. /\ TreeStands'
          /\ \A l \in locations : WellPlaced(l) => WellPlaced(l)'
          /\ \A l \in locations' \ locations : WellPlaced(l)'
      BY <1>4, <1>7, CreateLocationStands
    <2>2. PlacedUnlessOutOfOrder'
      BY <1>1, <1>5, <2>1 DEF TreeIInv, PlacedUnlessOutOfOrder
    <2> QED BY <2>1, <2>2
  <1>8. TreeStands' /\ PlacedUnlessOutOfOrder'
    BY <1>1, <1>6, <1>7 DEF WarehouseNext
  <1> QED BY <1>1, <1>2, <1>3, <1>8 DEF TreeIInv, TreeStands

LEMMA LeastIsLeft ==
    ASSUME v4 \in Source, Left # {}
    PROVE  Min(Left) \in Left /\ \A m \in Left : Min(Left) <= m
  <1>1. Left \subseteq Nat
    BY SourceAssumption DEF Left, RowsOf
  <1> DEFINE L == Left
  <1>2. L \subseteq Nat /\ L # {}
    BY <1>1
  <1>3. Min(Left) = Min(L)
    OBVIOUS
  <1> HIDE DEF L
  <1>4. \E n \in L : \A m \in L : n <= m
    BY <1>2, LeastNatural
  <1>5. Min(L) \in L /\ \A m \in L : Min(L) <= m
    BY <1>4 DEF Min
  <1> QED BY <1>3, <1>5 DEF L

\* What a round of the loop does, to the least row that is left.
LEMMA LoadRowDoes ==
    ASSUME MigrationIInv, LoadRow
    PROVE  \E next, one :
              /\ next \in Left
              /\ \A m \in Left : next <= m
              /\ next \in DOMAIN v4 /\ next \notin errors \union Migrated
              /\ v4[next].table = Tables[stage]
              /\ ids' = ids \union Drawn(v4[next])
              /\ one = [row |-> next, parent |-> ParentGiven(v4[next])]
              /\ added' \in {added, added \union {one}}
              /\ (errors \union Migrated)' = errors \union Migrated \union {next}
              /\ outcome = "running" /\ stage \in LoadedTables
              /\ UNCHANGED <<v4, prior, stage, outcome, warehouseVars>>
  <1> DEFINE n == Min(Left)
  <1>1. PICK next : next = n
    OBVIOUS
  <1>2. PICK row : row = v4[next]
    OBVIOUS
  <1>3. PICK one : one = [row |-> next, parent |-> ParentGiven(row)]
    OBVIOUS
  <1>4. /\ outcome = "running" /\ stage \in LoadedTables /\ Left # {}
        /\ ids' = ids \union Drawn(row)
        /\ added' = IF Loadable(row) THEN added \union {one} ELSE added
        /\ errors' = IF Loadable(row) THEN errors ELSE errors \union {next}
        /\ UNCHANGED <<v4, prior, stage, outcome, warehouseVars>>
    BY <1>1, <1>2, <1>3 DEF LoadRow
  <1>5. next \in Left /\ \A m \in Left : next <= m
    BY <1>1, <1>4, LeastIsLeft DEF MigrationIInv
  <1>6. next \in DOMAIN v4 /\ next \notin errors \union Migrated /\ v4[next].table = Tables[stage]
    BY <1>5 DEF Left, RowsOf, Migrated
  <1>7. errors \union Migrated \union {next} = (errors \union Migrated)'
    <2>1. CASE Loadable(row)
      <3>1. one.row = next /\ added' = added \union {one} /\ errors' = errors
        BY <1>3, <1>4, <2>1
      <3>2. {a.row : a \in added'} = {a.row : a \in added} \union {next}
        BY <3>1
      <3> QED BY <3>1, <3>2 DEF Migrated
    <2>2. CASE ~ Loadable(row)
      BY <1>4, <2>2 DEF Migrated
    <2> QED BY <2>1, <2>2
  <1> QED BY <1>2, <1>3, <1>4, <1>5, <1>6, <1>7

LEMMA LoadRowStands ==
    ASSUME TreeIInv, LoadRow
    PROVE  TreeIInv'
  <1>1. MigrationIInv /\ MigrationIInv'
    BY LoadRowKeeps DEF TreeIInv
  <1>2. PICK next, one :
              /\ next \in Left
              /\ \A m \in Left : next <= m
              /\ next \in DOMAIN v4 /\ next \notin errors \union Migrated
              /\ v4[next].table = Tables[stage]
              /\ ids' = ids \union Drawn(v4[next])
              /\ one = [row |-> next, parent |-> ParentGiven(v4[next])]
              /\ added' \in {added, added \union {one}}
              /\ (errors \union Migrated)' = errors \union Migrated \union {next}
              /\ outcome = "running" /\ stage \in LoadedTables
              /\ UNCHANGED <<v4, prior, stage, outcome, warehouseVars>>
    BY <1>1, LoadRowDoes
  <1>3. PICK row : row = v4[next]
    OBVIOUS
  <1>4. one.row = next /\ one.parent = ParentGiven(row)
    BY <1>2, <1>3
  <1>5. PICK loaded : loaded = errors \union Migrated
    OBVIOUS
  <1>6. v4' = v4 /\ stage' = stage /\ outcome' = outcome /\ locations' = locations
    BY <1>2 DEF warehouseVars
  <1>7. /\ DOMAIN v4 \subseteq Nat
        /\ \A k \in DOMAIN v4 : v4[k].table = "location" =>
              v4[k].parent \in ({"location"} \X Place) \union {NoKey}
    BY <1>1, RowsAreNumbered DEF MigrationIInv
  <1>8. loaded \subseteq DOMAIN v4
    BY <1>1, <1>5 DEF MigrationIInv, AddedRefer, Migrated
  <1>9. \A j \in DOMAIN v4 : v4[j].table = row.table /\ j # next /\ j \notin loaded => next < j
    <2> SUFFICES ASSUME NEW j \in DOMAIN v4, v4[j].table = row.table, j # next, j \notin loaded
                 PROVE  next < j
      OBVIOUS
    <2>1. j \in Left
      BY <1>2, <1>3, <1>5 DEF Left, RowsOf, Migrated
    <2> QED BY <1>2, <1>7, <2>1
  <1>10. \A k \in loaded : v4[k].table = row.table => k < next
    BY <1>1, <1>2, <1>3, <1>5, <1>8 DEF TreeIInv, LoadedInTurn
  <1>11. LoadedInTurn'
    <2>1. ASSUME NEW j \in DOMAIN v4, NEW k \in DOMAIN v4, v4[j].table = v4[k].table,
                 k \in loaded \union {next}, j \notin loaded \union {next}
          PROVE  k < j
      <3>1. CASE k \in loaded
        BY <1>2, <1>5, <2>1, <3>1 DEF TreeIInv, LoadedInTurn
      <3>2. CASE k = next
        BY <1>3, <1>9, <2>1, <3>2
      <3> QED BY <2>1, <3>1, <3>2
    <2>2. \A a, b \in added' : a.row = b.row => a = b
      <3>1. \A a \in added : a.row # next
        BY <1>2 DEF Migrated
      <3> QED BY <1>2, <1>4, <3>1 DEF TreeIInv, LoadedInTurn
    <2> QED BY <1>2, <1>5, <1>6, <2>1, <2>2 DEF LoadedInTurn
  <1>12. Places' \subseteq Places \union {one} /\ (row.table # "location" => Places' \subseteq Places)
    BY <1>2, <1>3, <1>4, <1>6 DEF Places
  <1>13. ParentsBefore'
    <2> SUFFICES ASSUME NEW a \in Places', a.parent # NoKey
                 PROVE  \E k \in DOMAIN v4 : k < a.row /\ Key(v4[k]) = a.parent
      <3>1. (\A k \in DOMAIN v4 : Key(v4[k]) = Key(v4[k])') /\ DOMAIN v4' = DOMAIN v4
        BY <1>6 DEF Key
      <3> QED BY <3>1 DEF ParentsBefore
    <2>1. CASE a \in Places
      BY <2>1 DEF TreeIInv, ParentsBefore
    <2>2. CASE a \notin Places
      <3>0. a = one /\ row.table = "location"
        BY <1>12, <2>2
      <3>1. a.parent = row.parent /\ row.parent \in ids
        BY <1>4, <3>0 DEF ParentGiven
      <3>2. PICK k \in loaded : Key(v4[k]) = row.parent
        BY <1>1, <1>2, <1>5, <3>1 DEF MigrationIInv, KeysAreDrawn
      <3>3. row.parent \in {"location"} \X Place
        BY <1>2, <1>3, <1>7, <3>0, <3>1
      <3>4. v4[k].table = "location"
        BY <3>2, <3>3 DEF Key
      <3> QED BY <1>4, <1>8, <1>10, <3>0, <3>1, <3>2, <3>4
    <2> QED BY <2>1, <2>2
  <1>14. ParentsGiven'
    <2>1. ASSUME NEW k \in loaded \union {next}, v4[k].table = "location"
          PROVE  Key(v4[k]) \in ids'
      <3>1. CASE k \in loaded
        BY <1>2, <1>5, <2>1, <3>1 DEF TreeIInv, ParentsGiven
      <3>2. CASE k = next
        BY <1>2, <2>1, <3>2 DEF Drawn
      <3> QED BY <2>1, <3>1, <3>2
    <2>2. ASSUME PlacedInV4, ~OutOfOrder, row.table = "location"
          PROVE  ParentGiven(row) = row.parent
      <3> SUFFICES ASSUME row.parent # NoKey PROVE row.parent \in ids
        BY DEF ParentGiven
      <3>1. PICK j \in DOMAIN v4 : row.parent = Key(v4[j])
        BY <1>2, <1>3, <2>2 DEF PlacedInV4
      <3>2. ~(next <= j)
        BY <1>2, <1>3, <2>2, <3>1 DEF OutOfOrder
      <3>3. row.parent \in {"location"} \X Place
        BY <1>2, <1>3, <1>7, <2>2
      <3>4. v4[j].table = "location"
        BY <3>1, <3>3 DEF Key
      <3>5. j \in Nat /\ next \in Nat
        BY <1>2, <1>7
      <3>6. j \in loaded
        BY <1>9, <2>2, <3>2, <3>4, <3>5
      <3> QED BY <1>5, <3>1, <3>4, <3>6 DEF TreeIInv, ParentsGiven
    <2>3. ASSUME PlacedInV4, ~OutOfOrder, NEW a \in Places'
          PROVE  a.parent = v4[a.row].parent
      <3>1. CASE a \in Places
        BY <2>3, <3>1 DEF TreeIInv, ParentsGiven
      <3>2. CASE a \notin Places
        <4>1. a = one /\ row.table = "location"
          BY <1>12, <2>3, <3>2
        <4> QED BY <1>3, <1>4, <2>2, <2>3, <4>1
      <3> QED BY <3>1, <3>2
    <2>4. PlacedInV4' = PlacedInV4 /\ OutOfOrder' = OutOfOrder
      BY <1>6 DEF PlacedInV4, OutOfOrder
    <2> QED BY <1>2, <1>5, <1>6, <2>1, <2>3, <2>4 DEF ParentsGiven
  <1>15. ParentsLoaded'
    <2>1. stage > 2 => row.table # "location"
      BY <1>2, <1>3, SevenTables DEF Tables
    <2>2. stage > 2 => Places' \subseteq Places
      BY <1>12, <2>1
    <2>3. added \subseteq added'
      BY <1>2
    <2> QED BY <1>6, <2>2, <2>3 DEF TreeIInv, ParentsLoaded
  <1>16. PlacedUnlessOutOfOrder'
    BY <1>2, <1>6 DEF TreeIInv, PlacedUnlessOutOfOrder
  <1> QED BY <1>1, <1>2, <1>6, <1>11, <1>13, <1>14, <1>15, <1>16 DEF TreeIInv, IdsAreKeys, NoLoops

\* A flush that passes has found the parents of all locations.
LEMMA FlushStands ==
    ASSUME TreeIInv, Flush
    PROVE  TreeIInv'
  <1>1. /\ outcome = "running" /\ KeysHold
        /\ UNCHANGED <<v4, prior, ids, added, errors, outcome, warehouseVars>>
    BY DEF Flush, Passes
  <1>2. MigrationIInv'
    BY FlushKeeps DEF TreeIInv
  <1>3. LoadedInTurn' /\ ParentsBefore' /\ ParentsGiven'
    BY <1>1 DEF TreeIInv, LoadedInTurn, ParentsBefore, ParentsGiven, Places, Migrated,
                PlacedInV4, OutOfOrder
  <1>4. ParentsLoaded'
    BY <1>1 DEF KeysHold, AddedKeys, ParentsLoaded, Places
  <1>5. locations' = locations /\ outcome' = outcome
    BY <1>1 DEF warehouseVars
  <1>6. IdsAreKeys' /\ NoLoops' /\ PlacedUnlessOutOfOrder'
    BY <1>1, <1>5 DEF TreeIInv, IdsAreKeys, NoLoops, PlacedUnlessOutOfOrder
  <1> QED BY <1>1, <1>2, <1>3, <1>4, <1>5, <1>6 DEF TreeIInv

LEMMA FlushFailsStands ==
    ASSUME TreeIInv, FlushFails
    PROVE  TreeIInv'
  <1>1. /\ outcome = "running" /\ outcome' = "failed" /\ added' = {}
        /\ UNCHANGED <<v4, prior, stage, ids, errors, warehouseVars>>
    BY DEF FlushFails
  <1>2. MigrationIInv'
    BY FlushFailsKeeps DEF TreeIInv
  <1>3. LoadedInTurn' /\ ParentsBefore' /\ ParentsGiven' /\ ParentsLoaded'
    BY <1>1 DEF TreeIInv, LoadedInTurn, ParentsBefore, ParentsGiven, ParentsLoaded, Places, Migrated
  <1>4. locations' = locations /\ locations = {}
    BY <1>1 DEF warehouseVars, TreeIInv
  <1>5. IdsAreKeys' /\ NoLoops' /\ PlacedUnlessOutOfOrder'
    BY <1>4 DEF IdsAreKeys, NoLoops, PlacedUnlessOutOfOrder
  <1> QED BY <1>1, <1>2, <1>3, <1>4, <1>5 DEF TreeIInv

LEMMA ReconcileStands ==
    ASSUME TreeIInv, Reconcile
    PROVE  TreeIInv'
  <1>1. /\ outcome = "loaded" /\ outcome' \in {"passed", "rejected"}
        /\ UNCHANGED <<v4, prior, stage, ids, added, errors, warehouseVars>>
    BY DEF Reconcile
  <1>2. MigrationIInv'
    BY ReconcileKeeps DEF TreeIInv
  <1>3. LoadedInTurn' /\ ParentsBefore' /\ ParentsGiven' /\ ParentsLoaded'
    BY <1>1 DEF TreeIInv, LoadedInTurn, ParentsBefore, ParentsGiven, ParentsLoaded, Places, Migrated,
                PlacedInV4, OutOfOrder
  <1>4. locations' = locations
    BY <1>1 DEF warehouseVars
  <1>5. IdsAreKeys' /\ NoLoops' /\ PlacedUnlessOutOfOrder'
    BY <1>1, <1>4 DEF TreeIInv, IdsAreKeys, NoLoops, PlacedUnlessOutOfOrder, WellPlaced,
                      PlacedInV4, OutOfOrder
  <1> QED BY <1>1, <1>2, <1>3, <1>4, <1>5 DEF TreeIInv

\* The row of a location that is committed.
LEMMA PlaceOfRow ==
    ASSUME MigrationIInv, NEW a \in Places
    PROVE  /\ PlaceOf(a) \in LocationRow
           /\ PlaceOf(a).id = v4[a.row].id /\ PlaceOf(a).level = v4[a.row].level
           /\ v4[a.row].refs = {<<"warehouse", PlaceOf(a).warehouse>>}
           /\ a.parent = NoKey => PlaceOf(a).parent = NoParent
           /\ a.parent # NoKey => a.parent = <<"location", PlaceOf(a).parent>>
  <1>1. a \in added /\ a.row \in DOMAIN v4 /\ v4[a.row].table = "location"
    BY DEF Places, MigrationIInv, AddedRefer
  <1>2. /\ v4[a.row].id \in Place /\ v4[a.row].level \in Level
        /\ v4[a.row].parent \in ({"location"} \X Place) \union {NoKey}
        /\ \E w \in Warehouse : v4[a.row].refs = {<<"warehouse", w>>}
    BY <1>1, RowsAreNumbered DEF MigrationIInv
  <1>3. PICK w \in Warehouse : v4[a.row].refs = {<<"warehouse", w>>}
    BY <1>2
  <1>4. (CHOOSE k \in v4[a.row].refs : TRUE)[2] = w
    <2>1. <<"warehouse", w>> \in v4[a.row].refs
      BY <1>3
    <2>2. (CHOOSE k \in v4[a.row].refs : TRUE) \in v4[a.row].refs
      BY <2>1
    <2>3. (CHOOSE k \in v4[a.row].refs : TRUE) = <<"warehouse", w>>
      BY <1>3, <2>2
    <2>4. PICK c : c = (CHOOSE k \in v4[a.row].refs : TRUE)
      OBVIOUS
    <2>5. c = <<"warehouse", w>>
      BY <2>3, <2>4
    <2>6. c[2] = w
      BY <2>5
    <2> QED BY <2>4, <2>6
  <1>5. a.parent = NoKey => a.parent[2] = NoParent
    BY DEF NoKey
  <1>6. a.parent # NoKey => a.parent[2] \in Place /\ a.parent = <<"location", a.parent[2]>>
    BY <1>1, <1>2 DEF MigrationIInv, AddedRefer
  <1>7. PlaceOf(a) = [id |-> v4[a.row].id, warehouse |-> w,
                      level |-> v4[a.row].level, parent |-> a.parent[2]]
    BY <1>4 DEF PlaceOf
  <1>8. a.parent[2] \in Place \union {NoParent}
    BY <1>5, <1>6
  <1> QED BY <1>2, <1>3, <1>5, <1>6, <1>7, <1>8 DEF LocationRow

\* Two rows of one key are one, and were given to the session once.
LEMMA OnePlace ==
    ASSUME TreeIInv, NEW a \in Places, NEW b \in Places, v4[a.row].id = v4[b.row].id
    PROVE  a = b
  <1>1. a \in added /\ b \in added /\ v4[a.row].table = v4[b.row].table
    BY DEF Places
  <1>2. a.row \in DOMAIN v4 /\ b.row \in DOMAIN v4
    BY <1>1 DEF TreeIInv, MigrationIInv, AddedRefer
  <1>3. a.row = b.row
    BY <1>1, <1>2, RowsAreNumbered DEF TreeIInv, MigrationIInv, Key
  <1> QED BY <1>1, <1>3 DEF TreeIInv, LoadedInTurn

\* The parent of a location that is committed is committed with it.
LEMMA ParentOf ==
    ASSUME TreeIInv, stage > 2, NEW a \in Places, a.parent # NoKey
    PROVE  \E b \in Places : Key(v4[b.row]) = a.parent /\ PlaceOf(b).id = PlaceOf(a).parent
  <1>1. a.parent = <<"location", PlaceOf(a).parent>>
    BY PlaceOfRow DEF TreeIInv
  <1>2. PICK b \in added : Key(v4[b.row]) = a.parent
    BY DEF TreeIInv, ParentsLoaded
  <1>3. b \in Places /\ v4[b.row].id = PlaceOf(a).parent
    BY <1>1, <1>2 DEF Key, Places
  <1>4. PlaceOf(b).id = v4[b.row].id
    BY <1>3, PlaceOfRow DEF TreeIInv
  <1> QED BY <1>2, <1>3, <1>4

\* Of some locations that are committed, the one of the first row hangs under none.
LEMMA PlacesHaveNoLoops ==
    ASSUME TreeIInv, NEW S, S \subseteq {PlaceOf(a) : a \in Places}, S # {}
    PROVE  \E l \in S : \A p \in S : p.id # l.parent
  <1> DEFINE A == {a \in Places : PlaceOf(a) \in S}
             R == {a.row : a \in A}
  <1>1. R \subseteq Nat /\ R # {}
    BY RowsAreNumbered DEF Places, TreeIInv, MigrationIInv, AddedRefer
  <1>2. \E k \in R : \A j \in R : k <= j
    <2> HIDE DEF R
    <2> QED BY <1>1, LeastNatural
  <1>3. PICK a \in A : \A b \in A : a.row <= b.row
    BY <1>2
  <1> SUFFICES ASSUME NEW b \in A, PlaceOf(b).id = PlaceOf(a).parent PROVE FALSE
    BY <1>3
  <1>4. a \in Places /\ b \in Places /\ a.row \in Nat /\ b.row \in Nat /\ a.row <= b.row
    BY <1>1, <1>3
  <1>5. /\ PlaceOf(b).id \in Place /\ PlaceOf(b).id = v4[b.row].id
        /\ a.parent = NoKey => PlaceOf(a).parent = NoParent
        /\ a.parent # NoKey => a.parent = <<"location", PlaceOf(a).parent>>
    BY <1>4, PlaceOfRow DEF TreeIInv, LocationRow
  <1>6. a.parent # NoKey
    BY <1>5, PlaceAssumption
  <1>7. PICK j \in DOMAIN v4 : j < a.row /\ Key(v4[j]) = a.parent
    BY <1>4, <1>6 DEF TreeIInv, ParentsBefore
  <1>8. b.row \in DOMAIN v4 /\ Key(v4[b.row]) = a.parent
    BY <1>4, <1>5, <1>6 DEF Key, Places, TreeIInv, MigrationIInv, AddedRefer
  <1>9. j = b.row
    BY <1>7, <1>8, RowsAreNumbered DEF TreeIInv, MigrationIInv
  <1> QED BY <1>4, <1>7, <1>9

LEMMA CommitMigrationStands ==
    ASSUME TreeIInv, CommitMigration
    PROVE  TreeIInv'
  <1>1. /\ outcome = "running" /\ outcome' = "loaded" /\ stage \notin LoadedTables
        /\ locations' = locations \union MigratedPlaces
        /\ UNCHANGED <<v4, prior, stage, ids, added, errors>>
    BY DEF CommitMigration
  <1>2. MigrationIInv /\ MigrationIInv'
    BY CommitMigrationKeeps DEF TreeIInv
  <1>3. stage > 2
    BY <1>1, <1>2, SevenTables DEF MigrationIInv, TablesAreDone
  <1>4. LoadedInTurn' /\ ParentsBefore' /\ ParentsGiven' /\ ParentsLoaded'
    BY <1>1 DEF TreeIInv, LoadedInTurn, ParentsBefore, ParentsGiven, ParentsLoaded, Places, Migrated,
                PlacedInV4, OutOfOrder
  <1>5. locations' = {PlaceOf(a) : a \in Places}
    BY <1>1 DEF TreeIInv, MigratedPlaces, Places, PlaceOf
  <1>6. (locations \subseteq LocationRow)'
    BY <1>2, <1>5, PlaceOfRow
  <1>7. IdsAreKeys'
    BY <1>2, <1>5, PlaceOfRow, OnePlace DEF IdsAreKeys
  <1>8. (\A l \in locations : l.parent = NoParent \/ \E p \in locations : p.id = l.parent)'
    BY <1>2, <1>3, <1>5, PlaceOfRow, ParentOf
  <1>9. NoLoops'
    BY <1>5, PlacesHaveNoLoops DEF NoLoops
  <1>10. PlacedUnlessOutOfOrder'
    <2> SUFFICES ASSUME PlacedInV4, ~OutOfOrder, NEW a \in Places
                 PROVE  WellPlaced(PlaceOf(a))'
      <3>1. PlacedInV4' = PlacedInV4 /\ OutOfOrder' = OutOfOrder
        BY <1>1 DEF PlacedInV4, OutOfOrder
      <3>2. ASSUME \A a \in Places : WellPlaced(PlaceOf(a))' /\ PlaceOf(a)' = PlaceOf(a)
            PROVE  (\A l \in locations : WellPlaced(l))'
        BY <1>5, <3>2 DEF WellPlaced
      <3>3. \A a \in Places : PlaceOf(a)' = PlaceOf(a)
        BY <1>1 DEF PlaceOf
      <3> QED BY <1>1, <3>1, <3>2, <3>3 DEF PlacedUnlessOutOfOrder
    <2>0. PICK l : l = PlaceOf(a)
      OBVIOUS
    <2>5. PlaceOf(a)' = l
      BY <1>1, <2>0 DEF PlaceOf
    <2> SUFFICES WellPlaced(l)'
      BY <2>5 DEF WellPlaced
    <2>1. a.row \in DOMAIN v4 /\ v4[a.row].table = "location" /\ a.parent = v4[a.row].parent
      BY <1>2 DEF Places, TreeIInv, ParentsGiven, MigrationIInv, AddedRefer
    <2>2. /\ PlaceOf(a).level = v4[a.row].level
          /\ v4[a.row].refs = {<<"warehouse", PlaceOf(a).warehouse>>}
          /\ a.parent = NoKey => PlaceOf(a).parent = NoParent
          /\ a.parent # NoKey => a.parent = <<"location", PlaceOf(a).parent>>
      BY <1>2, PlaceOfRow
    <2>3. CASE v4[a.row].level = "zone"
      <3>1. a.parent = NoKey
        BY <2>1, <2>3 DEF PlacedInV4
      <3> QED BY <2>0, <2>2, <2>3, <3>1 DEF WellPlaced
    <2>4. CASE v4[a.row].level # "zone"
      <3>1. PICK j \in DOMAIN v4 : /\ v4[a.row].parent = Key(v4[j])
                                   /\ v4[j].refs = v4[a.row].refs
                                   /\ v4[j].level = VALID_PARENT_LEVEL[v4[a.row].level]
        BY <2>1, <2>4 DEF PlacedInV4
      <3>2. v4[j].table # "none"
        BY <1>2, <3>1, RowsAreNumbered DEF MigrationIInv
      <3>3. a.parent # NoKey
        BY <2>1, <3>1, <3>2 DEF Key, NoKey
      <3>4. PICK b \in Places : Key(v4[b.row]) = a.parent /\ PlaceOf(b).id = PlaceOf(a).parent
        BY <1>3, <3>3, ParentOf
      <3>5. b.row \in DOMAIN v4
        BY <1>2 DEF Places, MigrationIInv, AddedRefer
      <3>6. b.row = j
        BY <1>2, <2>1, <3>1, <3>4, <3>5, RowsAreNumbered DEF MigrationIInv
      <3>7. /\ PlaceOf(b).level = v4[j].level
            /\ v4[j].refs = {<<"warehouse", PlaceOf(b).warehouse>>}
        BY <1>2, <3>6, PlaceOfRow
      <3>8. PICK p : p = PlaceOf(b)
        OBVIOUS
      <3>9. p.warehouse = l.warehouse
        <4>1. PICK x, y : x = <<"warehouse", p.warehouse>> /\ y = <<"warehouse", l.warehouse>>
          OBVIOUS
        <4>2. {x} = {y}
          BY <2>0, <2>2, <3>1, <3>7, <3>8, <4>1
        <4>3. x = y
          BY <4>2
        <4> QED BY <4>1, <4>3
      <3>10. p \in locations' /\ p.id = l.parent /\ p.level = VALID_PARENT_LEVEL[l.level]
        BY <1>5, <2>0, <2>2, <3>1, <3>4, <3>7, <3>8
      <3>11. l.level # "zone"
        BY <2>0, <2>2, <2>4
      <3> QED BY <3>9, <3>10, <3>11 DEF WellPlaced
    <2> QED BY <2>3, <2>4
  <1> QED BY <1>1, <1>2, <1>4, <1>6, <1>7, <1>8, <1>9, <1>10 DEF TreeIInv

LEMMA TreeStays ==
    ASSUME TreeIInv, UNCHANGED <<warehouseVars, migrationVars>>
    PROVE  TreeIInv'
  <1>1. UNCHANGED <<v4, prior, stage, ids, added, errors, outcome, locations>>
    BY DEF warehouseVars, migrationVars
  <1>2. MigrationIInv'
    BY MigrationStays DEF TreeIInv
  <1>3. LoadedInTurn' /\ ParentsBefore' /\ ParentsGiven' /\ ParentsLoaded'
    BY <1>1 DEF TreeIInv, LoadedInTurn, ParentsBefore, ParentsGiven, ParentsLoaded, Places, Migrated,
                PlacedInV4, OutOfOrder
  <1>4. IdsAreKeys' /\ NoLoops' /\ PlacedUnlessOutOfOrder'
    BY <1>1 DEF TreeIInv, IdsAreKeys, NoLoops, PlacedUnlessOutOfOrder, WellPlaced,
                PlacedInV4, OutOfOrder
  <1> QED BY <1>1, <1>2, <1>3, <1>4 DEF TreeIInv

LEMMA TreeNextKeeps ==
    ASSUME TreeIInv, [MigrationNext]_<<warehouseVars, migrationVars>>
    PROVE  TreeIInv'
  BY LoadRowStands, FlushStands, FlushFailsStands, CommitMigrationStands, ReconcileStands,
     UseWarehousesKeeps, TreeStays DEF MigrationNext

\* The tree of a warehouse shows every location of it, created or migrated: a
\* migrated one hangs under a row before its own, so that none is above itself.
\* And each hangs where its level belongs, unless V4 had it otherwise or lists
\* a location before the one it hangs under.
THEOREM TreeIsSoundHolds == MigrationSpec => []TreeIsSound
  <1>1. TreeIInv => TreeIsSound
    BY AllAreShown DEF TreeIInv, TreeIsSound, TreeShowsAll
  <1>2. MigrationSpec => []TreeIInv
    BY TreeInitHolds, TreeNextKeeps, PTL DEF MigrationSpec
  <1> QED BY <1>1, <1>2, PTL
=============================================================================
