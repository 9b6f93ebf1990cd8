-------------------------- MODULE FactoryProofs --------------------------
(***************************************************************************)
(* Theorems about modules WorkOrder, Safety, Equipment, ProductStructure   *)
(* and Scheduling for any number of orders, tickets, products, hazards,    *)
(* machines, stations and sessions and any quantities, capacities and      *)
(* hours.                                                                  *)
(*                                                                         *)
(* WorkOrder: a session that has announced its order keeps the quantity it *)
(* announced until it commits. One that adds to the order leaves the sum   *)
(* it flushed. One that reports nothing leaves the quantity alone: it has  *)
(* seen it as it is, or another report has come in since, and then it is   *)
(* that report which has announced the order. The completed quantity is a  *)
(* sum over the reported tickets, to which a report adds its own.          *)
(*                                                                         *)
(* Safety: the requests have times of their own, and a request has either  *)
(* seen the rows of its hazard or is among those that overlapped.          *)
(*                                                                         *)
(* Equipment: a scan generates jobs of plans that were due when it read    *)
(* them; the downtime of a day is the size of a union of spans, or more.   *)
(*                                                                         *)
(* ProductStructure: a session that makes a version has seen the one       *)
(* before. What a session found below a component is still all there is    *)
(* below it, unless another one has added edges meanwhile; so no edge      *)
(* closes a circle. Then the levels of the rollup and of the explosion     *)
(* come to an end, and the cost of a product is a sum that can be taken    *)
(* level by level or part by part.                                         *)
(*                                                                         *)
(* Scheduling: the slots of the stations together take the orders one by   *)
(* one, so that the first free slot of all is the first moment at which    *)
(* fewer orders are under way than there are slots.                        *)
(***************************************************************************)
EXTENDS WorkOrder, ProductStructure, Safety, Equipment, Scheduling, SumTheorems, SequenceTheorems

\* Sessions move a work order to the next status of the chain.
MovesForward == \A s \in moving : Allowed(s.from, s.to)

FlushedIsKnown ==
    \A s \in reporting : Flushed(s) =>
        /\ s.qty > 0 => s.left = s.saw + s.qty
        /\ s.qty = 0 => \/ s.left = completed[OrderOf(s.ticket)]
                        \/ Reported(OrderOf(s.ticket)) # {}

\* Only tickets that exist are reported.
TicketsExist == \A s \in reporting : ticket[s.ticket] # "none"

AnnouncedIsOnStream ==
    \A s \in reporting : s.stage = "announced" => announced[OrderOf(s.ticket)] # {}

WorkIInv ==
    /\ TypeOK
    /\ MovesForward
    /\ TicketsExist
    /\ FlushedIsKnown
    /\ AnnouncedIsOnStream
    /\ ReachedIsAnnounced

Sessions == [by : Req, ticket : Ticket, qty : Qty, saw : Nat, left : Nat,
             stage : {"begun", "read", "flushed", "announced"}]

Moves == [by : Req, order : Order, from : Status, to : Status]

-----------------------------------------------------------------------------
LEMMA InitHolds == Init => WorkIInv
  <1> SUFFICES ASSUME Init PROVE WorkIInv
    OBVIOUS
  <1> USE DEF Init
  <1>1. TypeOK
    BY OrderAssumption DEF TypeOK, Status
  <1>2. MovesForward /\ TicketsExist /\ FlushedIsKnown /\ AnnouncedIsOnStream
    BY DEF MovesForward, TicketsExist, FlushedIsKnown, AnnouncedIsOnStream
  <1>3. ReachedIsAnnounced
    BY DEF ReachedIsAnnounced, Reported
  <1> QED BY <1>1, <1>2, <1>3 DEF WorkIInv

LEMMA NextOfChain ==
    ASSUME NEW a \in Status, NEW b \in Status, Allowed(a, b)
    PROVE  a # "none" /\ b # "none" /\ Rank(b) = Rank(a) + 1
  BY DEF Allowed, Status, Rank

\* A step that touches neither reports nor quantities keeps what is known of them.
LEMMA SameReports ==
    ASSUME WorkIInv, reporting' = reporting,
           completed' = completed, announced' = announced,
           \A t \in Ticket : /\ ticket'[t] = "reported" <=> ticket[t] = "reported"
                             /\ ticket[t] # "none" => ticket'[t] # "none"
    PROVE  TicketsExist' /\ FlushedIsKnown' /\ AnnouncedIsOnStream' /\ ReachedIsAnnounced'
  <1>1. \A w : Reported(w)' = Reported(w)
    BY DEF Reported
  <1>2. FlushedIsKnown'
    BY <1>1 DEF WorkIInv, FlushedIsKnown, Flushed
  <1>3. AnnouncedIsOnStream' /\ ReachedIsAnnounced'
    BY <1>1 DEF WorkIInv, AnnouncedIsOnStream, ReachedIsAnnounced
  <1>4. TicketsExist'
    BY DEF WorkIInv, TypeOK, TicketsExist
  <1> QED BY <1>2, <1>3, <1>4

LEMMA CreateOrderKeeps ==
    ASSUME WorkIInv, NEW w \in Order, CreateOrder(w)
    PROVE  WorkIInv'
  <1>1. TypeOK'
    BY OrderAssumption DEF WorkIInv, TypeOK, CreateOrder, history, Status
  <1>2. MovesForward'
    BY DEF WorkIInv, MovesForward, CreateOrder
  <1> QED BY <1>1, <1>2, SameReports DEF WorkIInv, CreateOrder

LEMMA CreateTicketKeeps ==
    ASSUME WorkIInv, NEW t \in Ticket, CreateTicket(t)
    PROVE  WorkIInv'
  <1>1. TypeOK'
    BY OrderAssumption DEF WorkIInv, TypeOK, CreateTicket, history
  <1>2. MovesForward'
    BY DEF WorkIInv, MovesForward, CreateTicket
  <1>3. \A u \in Ticket : /\ ticket'[u] = "reported" <=> ticket[u] = "reported"
                         /\ ticket[u] # "none" => ticket'[u] # "none"
    BY DEF WorkIInv, TypeOK, CreateTicket
  <1> QED BY <1>1, <1>2, <1>3, SameReports DEF WorkIInv, CreateTicket

LEMMA BeginTransitionKeeps ==
    ASSUME WorkIInv, NEW r \in Req, NEW w \in Order, NEW to \in Status, BeginTransition(r, w, to)
    PROVE  WorkIInv'
  <1> DEFINE m == [by |-> r, order |-> w, from |-> status[w], to |-> to]
  <1>1. m \in Moves /\ Allowed(m.from, m.to) /\ moving' = moving \union {m}
    BY DEF WorkIInv, TypeOK, BeginTransition, Moves
  <1>2. /\ reporting' = reporting
        /\ UNCHANGED <<status, completed, ticket, quantity, announced, lost, doubled, restated>>
    BY DEF BeginTransition, tables, history
  <1> HIDE DEF m
  <1>3. TypeOK'
    BY <1>1, <1>2 DEF WorkIInv, TypeOK, Moves
  <1>4. MovesForward'
    BY <1>1 DEF WorkIInv, MovesForward
  <1> QED BY <1>2, <1>3, <1>4, SameReports DEF WorkIInv

LEMMA CommitTransitionKeeps ==
    ASSUME WorkIInv, NEW s \in moving, CommitTransition(s)
    PROVE  WorkIInv'
  <1>1. s \in Moves /\ Allowed(s.from, s.to)
    BY DEF WorkIInv, TypeOK, MovesForward, Moves
  <1>2. s.order \in Order /\ s.to \in Status /\ s.to # "none"
    BY <1>1, NextOfChain DEF Moves
  <1>3. TypeOK'
    BY <1>2, OrderAssumption DEF WorkIInv, TypeOK, CommitTransition
  <1>4. MovesForward'
    BY DEF WorkIInv, MovesForward, CommitTransition
  <1> QED BY <1>3, <1>4, SameReports DEF WorkIInv, CommitTransition

LEMMA RollbackTransitionKeeps ==
    ASSUME WorkIInv, NEW s \in moving, RollbackTransition(s)
    PROVE  WorkIInv'
  <1>1. /\ moving' \subseteq moving /\ reporting' = reporting
        /\ UNCHANGED <<status, completed, ticket, quantity, announced, lost, doubled, restated>>
    BY DEF RollbackTransition, tables, history
  <1>2. TypeOK'
    BY <1>1 DEF WorkIInv, TypeOK
  <1>3. MovesForward'
    BY <1>1 DEF WorkIInv, MovesForward
  <1> QED BY <1>1, <1>2, <1>3, SameReports DEF WorkIInv

\* A session that begins a report or goes on with one, and is then t.
LEMMA ReportGoesOn ==
    ASSUME WorkIInv, NEW t \in Sessions, reporting' \subseteq reporting \union {t},
           moving' = moving, status' = status, completed' = completed, ticket' = ticket,
           quantity' = quantity, history' = history, announced' \in [Order -> SUBSET Nat],
           \A w \in Order : announced[w] \subseteq announced'[w],
           ticket[t.ticket] # "none",
           Flushed(t) => /\ t.qty > 0 => t.left = t.saw + t.qty
                         /\ t.qty = 0 => \/ t.left = completed[OrderOf(t.ticket)]
                                         \/ Reported(OrderOf(t.ticket)) # {},
           t.stage = "announced" => announced'[OrderOf(t.ticket)] # {}
    PROVE  WorkIInv'
  <1>1. TypeOK'
    BY DEF WorkIInv, TypeOK, Sessions, history
  <1>2. MovesForward'
    BY DEF WorkIInv, MovesForward
  <1>3. \A w : Reported(w)' = Reported(w)
    BY DEF Reported
  <1>4. FlushedIsKnown'
    BY <1>3 DEF WorkIInv, FlushedIsKnown, Flushed
  <1>5. AnnouncedIsOnStream'
    <2> SUFFICES ASSUME NEW s \in reporting', s.stage = "announced"
                 PROVE  announced'[OrderOf(s.ticket)] # {}
      BY DEF AnnouncedIsOnStream
    <2>1. CASE s = t
      BY <2>1
    <2>2. CASE s \in reporting
      <3>1. OrderOf(s.ticket) \in Order
        BY <2>2, OrderAssumption DEF WorkIInv, TypeOK
      <3> QED BY <2>2, <3>1 DEF WorkIInv, AnnouncedIsOnStream
    <2> QED BY <2>1, <2>2
  <1>6. ReachedIsAnnounced'
    BY <1>3 DEF WorkIInv, ReachedIsAnnounced
  <1>7. TicketsExist'
    BY DEF WorkIInv, TicketsExist
  <1> QED BY <1>1, <1>2, <1>4, <1>5, <1>6, <1>7 DEF WorkIInv

LEMMA BeginReportKeeps ==
    ASSUME WorkIInv, NEW r \in Req, NEW k \in Ticket, NEW q \in Qty, BeginReport(r, k, q)
    PROVE  WorkIInv'
  <1> DEFINE t == [by |-> r, ticket |-> k, qty |-> q, stage |-> "begun", saw |-> 0, left |-> 0]
  <1>1. t \in Sessions /\ ~Flushed(t) /\ t.stage # "announced"
    BY DEF Sessions, Flushed
  <1>2. reporting' = reporting \union {t} /\ UNCHANGED <<tables, moving, history>>
    BY DEF BeginReport
  <1>3. announced \in [Order -> SUBSET Nat]
    BY DEF WorkIInv, TypeOK
  <1>4. ticket[t.ticket] # "none"
    BY DEF BeginReport, Reportable
  <1> HIDE DEF t
  <1> QED BY <1>1, <1>2, <1>3, <1>4, ReportGoesOn DEF tables

LEMMA ReadOrderKeeps ==
    ASSUME WorkIInv, NEW s \in reporting, ReadOrder(s)
    PROVE  WorkIInv'
  <1> DEFINE t == [s EXCEPT !.stage = "read", !.saw = completed[OrderOf(s.ticket)]]
  <1>1. s \in Sessions /\ OrderOf(s.ticket) \in Order
    BY OrderAssumption DEF WorkIInv, TypeOK, Sessions
  <1>2. completed[OrderOf(s.ticket)] \in Nat /\ announced \in [Order -> SUBSET Nat]
    BY <1>1 DEF WorkIInv, TypeOK
  <1>3. t \in Sessions /\ ~Flushed(t) /\ t.stage # "announced" /\ ticket[t.ticket] # "none"
    BY <1>1, <1>2 DEF Sessions, Flushed, WorkIInv, TicketsExist
  <1>4. reporting' \subseteq reporting \union {t} /\ UNCHANGED <<tables, moving, history>>
    BY DEF ReadOrder, Step
  <1> HIDE DEF t
  <1> QED BY <1>2, <1>3, <1>4, ReportGoesOn DEF tables

LEMMA FlushKeeps ==
    ASSUME WorkIInv, NEW s \in reporting, Flush(s)
    PROVE  WorkIInv'
  <1> DEFINE w == OrderOf(s.ticket)
             n == IF s.qty > 0 THEN s.saw + s.qty ELSE completed[w]
             t == [s EXCEPT !.stage = "flushed", !.left = n]
  <1>1. s \in Sessions /\ w \in Order
    BY OrderAssumption DEF WorkIInv, TypeOK, Sessions
  <1>2. completed[w] \in Nat /\ announced \in [Order -> SUBSET Nat]
    BY <1>1 DEF WorkIInv, TypeOK
  <1>3. /\ t \in Sessions /\ t.stage = "flushed" /\ t.ticket = s.ticket
        /\ t.qty > 0 => t.left = t.saw + t.qty
        /\ t.qty = 0 => t.left = completed[OrderOf(t.ticket)]
    <2>1. s.qty \in Nat /\ s.saw \in Nat
      BY <1>1, QtyAssumption DEF Sessions
    <2>2. n \in Nat /\ (s.qty > 0 => n = s.saw + s.qty) /\ (s.qty = 0 => n = completed[w])
      BY <1>2, <2>1
    <2> HIDE DEF n
    <2>3. /\ t \in Sessions /\ t.stage = "flushed" /\ t.ticket = s.ticket
          /\ t.qty = s.qty /\ t.saw = s.saw /\ t.left = n
      BY <1>1, <2>2 DEF Sessions
    <2> QED BY <2>2, <2>3
  <1>4. ticket[s.ticket] # "none"
    BY DEF WorkIInv, TicketsExist
  <1>5. reporting' \subseteq reporting \union {t} /\ UNCHANGED <<tables, moving, history>>
    BY DEF Flush, Step
  <1> HIDE DEF t, w
  <1> QED BY <1>2, <1>3, <1>4, <1>5, ReportGoesOn DEF tables

LEMMA PublishKeeps ==
    ASSUME WorkIInv, NEW s \in reporting, Publish(s)
    PROVE  WorkIInv'
  <1> DEFINE t == [s EXCEPT !.stage = "announced"]
  <1>1. s \in Sessions /\ OrderOf(s.ticket) \in Order
    BY OrderAssumption DEF WorkIInv, TypeOK, Sessions
  <1>2. /\ t \in Sessions /\ t.ticket = s.ticket /\ t.qty = s.qty /\ t.saw = s.saw
        /\ t.left = s.left
    BY <1>1 DEF Sessions
  <1>3. Flushed(s) /\ s.left \in Nat
    BY <1>1 DEF Publish, Flushed, Sessions
  <1>4. /\ announced' \in [Order -> SUBSET Nat]
        /\ \A w \in Order : announced[w] \subseteq announced'[w]
        /\ announced'[OrderOf(s.ticket)] # {}
    BY <1>1, <1>3 DEF WorkIInv, TypeOK, Publish
  <1>5. /\ reporting' \subseteq reporting \union {t} /\ history' = history
        /\ UNCHANGED <<status, completed, ticket, quantity, moving>>
    BY DEF Publish, Step
  <1>6. /\ s.qty > 0 => s.left = s.saw + s.qty
        /\ s.qty = 0 => \/ s.left = completed[OrderOf(s.ticket)]
                        \/ Reported(OrderOf(s.ticket)) # {}
    BY <1>3 DEF WorkIInv, FlushedIsKnown
  <1>7. ticket[s.ticket] # "none"
    BY DEF WorkIInv, TicketsExist
  <1> HIDE DEF t
  <1> QED BY <1>2, <1>4, <1>5, <1>6, <1>7, ReportGoesOn

LEMMA RollbackReportKeeps ==
    ASSUME WorkIInv, NEW s \in reporting, RollbackReport(s)
    PROVE  WorkIInv'
  <1>1. reporting' \subseteq reporting /\ UNCHANGED <<tables, moving, history>>
    BY DEF RollbackReport
  <1>2. s \in Sessions /\ s \in reporting
    BY DEF WorkIInv, TypeOK, Sessions
  <1>3. announced \in [Order -> SUBSET Nat]
    BY DEF WorkIInv, TypeOK
  <1>4. Flushed(s) => /\ s.qty > 0 => s.left = s.saw + s.qty
                      /\ s.qty = 0 => \/ s.left = completed[OrderOf(s.ticket)]
                                      \/ Reported(OrderOf(s.ticket)) # {}
    BY DEF WorkIInv, FlushedIsKnown
  <1>5. s.stage = "announced" => announced[OrderOf(s.ticket)] # {}
    BY DEF WorkIInv, AnnouncedIsOnStream
  <1>6. ticket[s.ticket] # "none"
    BY DEF WorkIInv, TicketsExist
  <1> QED BY <1>1, <1>2, <1>3, <1>4, <1>5, <1>6, ReportGoesOn DEF tables

LEMMA CommitReportKeeps ==
    ASSUME WorkIInv, NEW s \in reporting, CommitReport(s)
    PROVE  WorkIInv'
  <1> DEFINE w == OrderOf(s.ticket)
  <1>1. s \in Sessions /\ s.ticket \in Ticket /\ w \in Order /\ s.qty \in Nat
    BY OrderAssumption, QtyAssumption DEF WorkIInv, TypeOK, Sessions
  <1>2. /\ ticket' = [ticket EXCEPT ![s.ticket] = "reported"]
        /\ quantity' = [quantity EXCEPT ![s.ticket] = IF s.qty > 0 THEN s.qty ELSE @]
        /\ completed' = [completed EXCEPT ![w] = IF s.qty > 0 THEN s.saw + s.qty ELSE @]
        /\ lost' \subseteq lost \union {w} /\ doubled' \subseteq doubled \union {s.ticket}
        /\ restated' = restated /\ reporting' \subseteq reporting
        /\ UNCHANGED <<status, announced, moving>>
    BY DEF CommitReport, Adds
  <1>3. s.stage = "announced" \/ (s.stage = "flushed" /\ ~Reached(s))
    BY DEF CommitReport
  <1>4. Flushed(s) /\ (s.left >= Planned(w) => announced[w] # {})
    BY <1>1, <1>3 DEF WorkIInv, Flushed, Reached, AnnouncedIsOnStream
  <1>5. /\ s.qty > 0 => s.left = s.saw + s.qty
        /\ s.qty = 0 => s.left = completed[w] \/ Reported(w) # {}
    BY <1>4 DEF WorkIInv, FlushedIsKnown
  <1>6. \A o : Reported(o) \subseteq Reported(o)' /\ (o # w => Reported(o)' = Reported(o))
    BY <1>1, <1>2 DEF WorkIInv, TypeOK, Reported
  <1>7. Reported(w)' # {}
    BY <1>1, <1>2 DEF WorkIInv, TypeOK, Reported
  <1> HIDE DEF w
  <1>8. TypeOK'
    <2>1. /\ completed' \in [Order -> Nat] /\ quantity' \in [Ticket -> Nat]
          /\ ticket' \in [Ticket -> {"none", "open", "reported"}]
      BY <1>1, <1>2 DEF WorkIInv, TypeOK, Sessions
    <2>2. \A t \in Ticket : ticket'[t] # "none" => status'[OrderOf(t)] # "none"
      <3>1. ticket[s.ticket] # "none" => status[OrderOf(s.ticket)] # "none"
        BY <1>1 DEF WorkIInv, TypeOK
      <3>2. ticket[s.ticket] # "none"
        BY DEF WorkIInv, TicketsExist
      <3> QED BY <1>1, <1>2, <3>1, <3>2 DEF WorkIInv, TypeOK
    <2> QED BY <1>1, <1>2, <2>1, <2>2 DEF WorkIInv, TypeOK
  <1>9. MovesForward'
    BY <1>2 DEF WorkIInv, MovesForward
  <1>10. FlushedIsKnown'
    <2> SUFFICES ASSUME NEW t \in reporting', Flushed(t)
                 PROVE  /\ t.qty > 0 => t.left = t.saw + t.qty
                        /\ t.qty = 0 => \/ t.left = completed'[OrderOf(t.ticket)]
                                        \/ Reported(OrderOf(t.ticket))' # {}
      BY DEF FlushedIsKnown, Flushed
    <2>1. t \in reporting
      BY <1>2
    <2>2. /\ t.qty > 0 => t.left = t.saw + t.qty
          /\ t.qty = 0 => t.left = completed[OrderOf(t.ticket)] \/ Reported(OrderOf(t.ticket)) # {}
      BY <2>1 DEF WorkIInv, FlushedIsKnown
    <2>3. OrderOf(t.ticket) \in Order
      BY <2>1, OrderAssumption DEF WorkIInv, TypeOK
    <2>4. OrderOf(t.ticket) # w => completed'[OrderOf(t.ticket)] = completed[OrderOf(t.ticket)]
      BY <1>2, <2>3 DEF WorkIInv, TypeOK
    <2> QED BY <1>6, <1>7, <2>2, <2>4
  <1>11. AnnouncedIsOnStream'
    BY <1>2 DEF WorkIInv, AnnouncedIsOnStream
  <1>12. ReachedIsAnnounced'
    <2> SUFFICES ASSUME NEW o \in Order, Reported(o)' # {}, completed'[o] >= Planned(o)
                 PROVE  announced'[o] # {}
      BY DEF ReachedIsAnnounced
    <2>1. CASE o # w
      <3>1. completed'[o] = completed[o] /\ Reported(o) # {}
        BY <1>2, <1>6, <2>1 DEF WorkIInv, TypeOK
      <3> QED BY <1>2, <3>1 DEF WorkIInv, ReachedIsAnnounced
    <2>2. CASE o = w /\ s.qty > 0
      <3>1. completed'[w] = s.left
        BY <1>1, <1>2, <1>5, <2>2 DEF WorkIInv, TypeOK
      <3> QED BY <1>2, <1>4, <2>2, <3>1
    <2>3. CASE o = w /\ s.qty = 0
      <3>1. completed'[w] = completed[w]
        BY <1>1, <1>2, <2>3 DEF WorkIInv, TypeOK
      <3>2. CASE s.left = completed[w]
        BY <1>2, <1>4, <2>3, <3>1, <3>2
      <3>3. CASE Reported(w) # {}
        BY <1>2, <2>3, <3>1, <3>3 DEF WorkIInv, ReachedIsAnnounced
      <3> QED BY <1>5, <2>3, <3>2, <3>3
    <2> QED BY <1>1, <2>1, <2>2, <2>3
  <1>13. TicketsExist'
    BY <1>1, <1>2 DEF WorkIInv, TypeOK, TicketsExist
  <1> QED BY <1>8, <1>9, <1>10, <1>11, <1>12, <1>13 DEF WorkIInv

-----------------------------------------------------------------------------
LEMMA NextKeeps == ASSUME WorkIInv, Next PROVE WorkIInv'
  <1>1. ASSUME NEW w \in Order, CreateOrder(w) PROVE WorkIInv'
    BY <1>1, CreateOrderKeeps
  <1>2. ASSUME NEW t \in Ticket, CreateTicket(t) PROVE WorkIInv'
    BY <1>2, CreateTicketKeeps
  <1>3. ASSUME NEW r \in Req, NEW w \in Order, NEW to \in Status, BeginTransition(r, w, to)
        PROVE  WorkIInv'
    BY <1>3, BeginTransitionKeeps
  <1>4. ASSUME NEW s \in moving, CommitTransition(s) PROVE WorkIInv'
    BY <1>4, CommitTransitionKeeps
  <1>5. ASSUME NEW s \in moving, RollbackTransition(s) PROVE WorkIInv'
    BY <1>5, RollbackTransitionKeeps
  <1>6. ASSUME NEW r \in Req, NEW t \in Ticket, NEW q \in Qty, BeginReport(r, t, q)
        PROVE  WorkIInv'
    BY <1>6, BeginReportKeeps
  <1>7. ASSUME NEW s \in reporting, ReadOrder(s) PROVE WorkIInv'
    BY <1>7, ReadOrderKeeps
  <1>8. ASSUME NEW s \in reporting, Flush(s) PROVE WorkIInv'
    BY <1>8, FlushKeeps
  <1>9. ASSUME NEW s \in reporting, Publish(s) PROVE WorkIInv'
    BY <1>9, PublishKeeps
  <1>10. ASSUME NEW s \in reporting, CommitReport(s) PROVE WorkIInv'
    BY <1>10, CommitReportKeeps
  <1>11. ASSUME NEW s \in reporting, RollbackReport(s) PROVE WorkIInv'
    BY <1>11, RollbackReportKeeps
  <1> QED BY <1>1, <1>2, <1>3, <1>4, <1>5, <1>6, <1>7, <1>8, <1>9, <1>10, <1>11 DEF Next

LEMMA StutterKeeps == ASSUME WorkIInv, UNCHANGED vars PROVE WorkIInv'
  <1> USE DEF WorkIInv, vars, tables, history
  <1>1. TypeOK' /\ MovesForward' /\ TicketsExist'
    BY DEF TypeOK, MovesForward, TicketsExist
  <1>2. FlushedIsKnown' /\ AnnouncedIsOnStream' /\ ReachedIsAnnounced'
    BY DEF FlushedIsKnown, Flushed, AnnouncedIsOnStream, ReachedIsAnnounced, Reported
  <1> QED BY <1>1, <1>2

LEMMA WorkInductive == Spec => []WorkIInv
  BY InitHolds, NextKeeps, StutterKeeps, PTL DEF Spec

\* The tables of the shop floor and the sessions on them keep their types, and
\* a ticket always belongs to a work order that exists.
THEOREM WorkTypeCorrect == Spec => []TypeOK
  BY WorkInductive, PTL DEF WorkIInv

\* However reports of one work order overlap, and whatever quantity they lose:
\* once a committed report has brought it to its plan, report() has published
\* work_order.completed.
THEOREM ReachedIsAnnouncedHolds == Spec => []ReachedIsAnnounced
  BY WorkInductive, PTL DEF WorkIInv

\* transition_status moves a work order to the next status of the chain, unless
\* the status had changed since the session read it.
THEOREM WorkForward == Spec => ForwardUnlessStale
  <1>1. ASSUME WorkIInv, [Next]_vars, NEW w \in Order, status'[w] # status[w]
        PROVE  Rank(status'[w]) = Rank(status[w]) + 1 \/ w \in restated'
    <2>1. ASSUME NEW o \in Order, CreateOrder(o)
          PROVE  Rank(status'[w]) = Rank(status[w]) + 1
      BY <1>1, <2>1 DEF WorkIInv, TypeOK, CreateOrder, Rank
    <2>2. ASSUME NEW s \in moving, CommitTransition(s)
          PROVE  Rank(status'[w]) = Rank(status[w]) + 1 \/ w \in restated'
      <3>1. s.order = w /\ status'[w] = s.to
        BY <1>1, <2>2 DEF WorkIInv, TypeOK, CommitTransition
      <3>2. s.from \in Status /\ s.to \in Status /\ Allowed(s.from, s.to)
        BY <1>1, <2>2 DEF WorkIInv, TypeOK, MovesForward
      <3>3. CASE status[w] = s.from
        BY <3>1, <3>2, <3>3, NextOfChain
      <3>4. CASE status[w] # s.from
        BY <2>2, <3>1, <3>4 DEF CommitTransition
      <3> QED BY <3>3, <3>4
    <2>3. CASE UNCHANGED status
      BY <1>1, <2>3
    <2>4. \/ \E o \in Order : CreateOrder(o)
          \/ \E s \in moving : CommitTransition(s)
          \/ UNCHANGED status
      BY <1>1 DEF Next, vars, tables, CreateTicket, BeginTransition, RollbackTransition,
                  BeginReport, ReadOrder, Flush, Publish, CommitReport, RollbackReport
    <2> QED BY <2>1, <2>2, <2>3, <2>4
  <1>2. ASSUME WorkIInv, [Next]_vars
        PROVE  [\A w \in Order : status'[w] # status[w] =>
                    Rank(status'[w]) = Rank(status[w]) + 1 \/ w \in restated']_vars
    BY <1>1, <1>2
  <1> QED BY <1>2, WorkInductive, PTL DEF Spec, ForwardUnlessStale

-----------------------------------------------------------------------------
(* The completed quantity as a sum: each commit of a report adds its       *)
(* ticket to the reported ones of its order.                               *)

AllReported == {t \in Ticket : ticket[t] = "reported"}

\* Finitely many tickets are reported, and the others have reported nothing.
CInv ==
    /\ IsFiniteSet(AllReported)
    /\ \A t \in Ticket : ticket[t] # "reported" => quantity[t] = 0
    /\ CompletedIsReported

LEMMA SameCompleted ==
    ASSUME CInv, UNCHANGED <<completed, quantity, lost, doubled>>,
           \A t \in Ticket : ticket'[t] = "reported" <=> ticket[t] = "reported"
    PROVE  CInv'
  <1>1. AllReported' = AllReported /\ \A w : Reported(w)' = Reported(w)
    BY DEF AllReported, Reported
  <1>2. CompletedIsReported'
    BY <1>1 DEF CInv, CompletedIsReported
  <1> QED BY <1>1, <1>2 DEF CInv

LEMMA CommitReportCounts ==
    ASSUME WorkIInv, CInv, NEW s \in reporting, CommitReport(s)
    PROVE  CInv'
  <1>1. PICK t \in Ticket : t = s.ticket
    BY DEF WorkIInv, TypeOK
  <1>2. PICK q \in Nat : q = s.qty
    BY QtyAssumption DEF WorkIInv, TypeOK
  <1>3. PICK w \in Order : w = OrderOf(t)
    BY OrderAssumption
  <1>4. /\ ticket' = [ticket EXCEPT ![t] = "reported"]
        /\ quantity' = [quantity EXCEPT ![t] = IF q > 0 THEN q ELSE quantity[t]]
        /\ completed' = [completed EXCEPT ![w] = IF q > 0 THEN s.saw + q ELSE completed[w]]
        /\ lost' = IF q > 0 /\ s.saw # completed[w] THEN lost \union {w} ELSE lost
        /\ doubled' = IF ticket[t] = "reported" THEN doubled \union {t} ELSE doubled
    BY <1>1, <1>2, <1>3 DEF CommitReport, Adds
  <1>5. ticket \in [Ticket -> {"none", "open", "reported"}] /\ quantity \in [Ticket -> Nat]
        /\ completed \in [Order -> Nat]
    BY DEF WorkIInv, TypeOK
  <1>6. AllReported' = AllReported \union {t} /\ IsFiniteSet(AllReported')
    <2>1. AllReported' = AllReported \union {t}
      BY <1>4, <1>5 DEF AllReported
    <2> QED BY <2>1, FS_AddElement DEF CInv
  <1>7. \A u \in Ticket : ticket'[u] # "reported" => quantity'[u] = 0
    BY <1>4, <1>5 DEF CInv
  <1>8. CompletedIsReported'
    <2> SUFFICES ASSUME NEW x \in Order, x \notin lost', Reported(x)' \intersect doubled' = {}
                 PROVE  completed'[x] = SumFunctionOnSet(quantity', Reported(x)')
      BY DEF CompletedIsReported
    <2>1. IsFiniteSet(Reported(x)) /\ \A u \in Reported(x) : quantity[u] \in Int
      BY <1>5, FS_Subset DEF CInv, AllReported, Reported
    <2>2. Reported(x) \subseteq Reported(x)'
      BY <1>4, <1>5 DEF Reported
    <2>3. completed[x] = SumFunctionOnSet(quantity, Reported(x))
      BY <1>4, <2>2 DEF CInv, CompletedIsReported
    <2>4. CASE x # w
      <3>1. Reported(x)' = Reported(x) /\ t \notin Reported(x)
        BY <1>3, <1>4, <1>5, <2>4 DEF Reported
      <3>2. \A u \in Reported(x) : quantity[u] = quantity'[u]
        BY <1>4, <1>5, <3>1 DEF Reported
      <3>3. SumFunctionOnSet(quantity, Reported(x)) = SumFunctionOnSet(quantity', Reported(x))
        BY <2>1, <3>2, SumSameValues
      <3> QED BY <1>4, <1>5, <2>3, <2>4, <3>1, <3>3
    <2>5. CASE x = w
      <3>1. ticket[t] # "reported" /\ quantity[t] = 0
        <4>1. t \in Reported(x)'
          BY <1>3, <1>4, <1>5, <2>5 DEF Reported
        <4> QED BY <1>4, <4>1 DEF CInv
      <3>2. Reported(x)' = Reported(x) \union {t} /\ t \notin Reported(x)
        BY <1>3, <1>4, <1>5, <2>5, <3>1 DEF Reported
      <3>3. quantity'[t] = q
        BY <1>4, <1>5, <3>1
      <3>4. completed'[x] = q + completed[x]
        BY <1>4, <1>5, <2>5
      <3>5. \A u \in Reported(x) : quantity[u] = quantity'[u]
        BY <1>4, <1>5, <3>2 DEF Reported
      <3>6. SumFunctionOnSet(quantity, Reported(x)) = SumFunctionOnSet(quantity', Reported(x))
        BY <2>1, <3>5, SumSameValues
      <3>7. \A u \in Reported(x) \union {t} : quantity'[u] \in Int
        BY <2>1, <3>3, <3>5
      <3>8. SumFunctionOnSet(quantity', Reported(x) \union {t})
              = quantity'[t] + SumFunctionOnSet(quantity', Reported(x))
        BY <2>1, <3>2, <3>7, SumInsert
      <3> QED BY <2>3, <3>2, <3>3, <3>4, <3>6, <3>8
    <2> QED BY <2>4, <2>5
  <1> QED BY <1>6, <1>7, <1>8 DEF CInv

LEMMA CompletedKept == WorkIInv /\ CInv /\ [Next]_vars => CInv'
  <1> SUFFICES ASSUME WorkIInv, CInv, [Next]_vars PROVE CInv'
    OBVIOUS
  <1> USE DEF tables, history
  <1>1. ASSUME NEW t \in Ticket, CreateTicket(t) PROVE CInv'
    <2>1. \A u \in Ticket : ticket'[u] = "reported" <=> ticket[u] = "reported"
      BY <1>1 DEF WorkIInv, TypeOK, CreateTicket
    <2> QED BY <1>1, <2>1, SameCompleted DEF CreateTicket
  <1>2. ASSUME NEW s \in reporting, CommitReport(s) PROVE CInv'
    BY <1>2, CommitReportCounts
  <1>3. ASSUME UNCHANGED <<completed, ticket, quantity, lost, doubled>> PROVE CInv'
    BY <1>3, SameCompleted
  <1>4. \/ \E t \in Ticket : CreateTicket(t)
        \/ \E s \in reporting : CommitReport(s)
        \/ UNCHANGED <<completed, ticket, quantity, lost, doubled>>
    BY DEF Next, vars, CreateOrder, BeginTransition, CommitTransition, RollbackTransition,
           BeginReport, ReadOrder, Flush, Publish, RollbackReport
  <1> QED BY <1>1, <1>2, <1>3, <1>4

\* The completed quantity of an order is the sum of its reported tickets unless
\* reports overlapped on the order or on a ticket.
THEOREM CompletedIsReportedHolds == Spec => []CompletedIsReported
  <1>1. Init => CInv
    <2> SUFFICES ASSUME Init PROVE CInv
      OBVIOUS
    <2>1. AllReported = {} /\ \A w : Reported(w) = {}
      BY DEF Init, AllReported, Reported
    <2>2. CompletedIsReported
      BY <2>1, SumEmpty DEF Init, CompletedIsReported
    <2> QED BY <2>1, <2>2, FS_EmptySet DEF CInv, Init
  <1>2. CInv => CompletedIsReported
    BY DEF CInv
  <1>3. WorkIInv /\ CInv /\ [Next]_vars => CInv'
    BY CompletedKept
  <1> QED BY <1>1, <1>2, <1>3, WorkInductive, PTL DEF Spec

-----------------------------------------------------------------------------
(* Safety hazards and their log: module Safety. NothingMissed: what a      *)
(* request has not missed was there before it began and is there still, so *)
(* that the last row of the log is the one it continues.                   *)

KnownRow == [by : SafetyReq, at : 1 .. opened, step : {"known"}, missed : SUBSET Danger]

FlushedRow == [by : SafetyReq, at : 1 .. opened, step : {"flushed"}, missed : SUBSET Danger,
               hazard : Danger, from : HazardStatus \union {"none"}, to : HazardStatus]

PatrolOK == patrol \subseteq KnownRow \union FlushedRow

\* Every transaction has a time of its own, and leaves at most one row.
TimesAreApart ==
    /\ \A s, t \in patrol : s.at = t.at => s = t
    /\ \A e \in trail : e.at <= opened /\ \A s \in patrol : e.at # s.at
    /\ \A d, e \in trail : d.at = e.at => d = e

\* What a request has not missed was there before it began, and is there still.
NothingMissed ==
    \A s \in patrol :
        /\ \A e \in trail : e.hazard \notin s.missed => e.at < s.at
        /\ s.step = "flushed" /\ s.hazard \notin s.missed => s.from = danger[s.hazard]

Rectified ==
    /\ \A h \in Danger : danger[h] = "verified" => "rectified_at" \in stamps[h]
    /\ \A s \in patrol : s.step = "flushed" /\ s.to = "closed" => "rectified_at" \in stamps[s.hazard]
    /\ ClosedIsRectified

SafetyIInv ==
    /\ SafetyTypeOK
    /\ PatrolOK
    /\ TimesAreApart
    /\ NothingMissed
    /\ LogTellsHistory
    /\ Rectified

-----------------------------------------------------------------------------
LEMMA SafetyInitHolds == SafetyInit => SafetyIInv
  <1> SUFFICES ASSUME SafetyInit PROVE SafetyIInv
    OBVIOUS
  <1> USE DEF SafetyInit
  <1>1. SafetyTypeOK
    BY MaxOpenedAssumption DEF SafetyTypeOK
  <1>2. PatrolOK /\ TimesAreApart /\ NothingMissed
    BY DEF PatrolOK, TimesAreApart, NothingMissed
  <1>3. LogTellsHistory
    BY DEF LogTellsHistory, AuditLog, LeadTo
  <1>4. Rectified
    BY DEF Rectified, ClosedIsRectified
  <1> QED BY <1>1, <1>2, <1>3, <1>4 DEF SafetyIInv

\* The log and the status of the hazards stay.
LEMMA SameLog ==
    ASSUME SafetyIInv, UNCHANGED <<danger, trail, crossing>>
    PROVE  LogTellsHistory'
  BY DEF SafetyIInv, LogTellsHistory, AuditLog, Before, LeadTo, IsLast

\* A request goes on, or ends; none but its own row changes.
LEMMA PatrolGoesOn ==
    ASSUME SafetyIInv, NEW s \in patrol, UNCHANGED <<opened, danger, stamps, trail, crossing>>,
           reported' \subseteq Danger,
           \A t \in patrol' : t \in patrol \/
              /\ t \in FlushedRow /\ s \notin patrol'
              /\ t.at = s.at /\ t.missed = s.missed /\ t.from = danger[t.hazard]
              /\ t.to = "closed" => t.from = "verified",
           \A t, u \in patrol' \ patrol : t = u
    PROVE  SafetyIInv'
  <1>1. PatrolOK'
    BY DEF SafetyIInv, PatrolOK, KnownRow, FlushedRow
  <1>2. SafetyTypeOK'
    BY DEF SafetyIInv, SafetyTypeOK, FlushedRow
  <1>3. TimesAreApart'
    BY DEF SafetyIInv, TimesAreApart
  <1>4. NothingMissed'
    BY DEF SafetyIInv, NothingMissed
  <1>5. Rectified'
    BY DEF SafetyIInv, Rectified, ClosedIsRectified, FlushedRow
  <1> QED BY <1>1, <1>2, <1>3, <1>4, <1>5, SameLog DEF SafetyIInv

LEMMA AuthenticateKeeps ==
    ASSUME SafetyIInv, NEW r \in SafetyReq, Authenticate(r)
    PROVE  SafetyIInv'
  <1>1. PICK s : s = [by |-> r, at |-> opened + 1, step |-> "known", missed |-> {}]
    OBVIOUS
  <1>2. opened \in Nat /\ opened + 1 <= MaxOpened /\ MaxOpened \in Nat
    BY MaxOpenedAssumption DEF SafetyIInv, SafetyTypeOK, Authenticate
  <1>3. /\ opened' = opened + 1 /\ patrol' = patrol \union {s}
        /\ UNCHANGED <<danger, stamps, trail, reported, crossing>>
    BY <1>1 DEF Authenticate, safetyTables
  <1>4. PatrolOK' /\ \A t \in patrol : t.at \in 1 .. opened
    BY <1>1, <1>2, <1>3 DEF SafetyIInv, PatrolOK, KnownRow, FlushedRow
  <1>5. SafetyTypeOK'
    BY <1>1, <1>2, <1>3, <1>4 DEF SafetyIInv, SafetyTypeOK
  <1>6. \A e \in trail : e.at \in Nat /\ e.at <= opened
    BY <1>2 DEF SafetyIInv, SafetyTypeOK, TimesAreApart, AuditRow
  <1>7. TimesAreApart'
    <2>1. s.at = opened + 1 /\ \A t \in patrol : t.at \in Nat /\ t.at <= opened
      BY <1>1, <1>2, <1>4
    <2>2. \A t, u \in patrol' : t.at = u.at => t = u
      BY <1>2, <1>3, <2>1 DEF SafetyIInv, TimesAreApart
    <2>3. \A e \in trail' : e.at <= opened' /\ \A t \in patrol' : e.at # t.at
      BY <1>2, <1>3, <1>6, <2>1 DEF SafetyIInv, TimesAreApart
    <2>4. \A d, e \in trail' : d.at = e.at => d = e
      BY <1>3 DEF SafetyIInv, TimesAreApart
    <2> QED BY <2>2, <2>3, <2>4 DEF TimesAreApart
  <1>8. NothingMissed'
    BY <1>1, <1>2, <1>3, <1>6 DEF SafetyIInv, NothingMissed
  <1>9. Rectified'
    BY <1>1, <1>3 DEF SafetyIInv, Rectified, ClosedIsRectified
  <1> QED BY <1>3, <1>4, <1>5, <1>7, <1>8, <1>9, SameLog DEF SafetyIInv

LEMMA StatusTable ==
    /\ HazardStatus = {"reported", "assigned", "rectifying", "verified", "closed"}
    /\ \A from \in HazardStatus \union {"none"} :
          /\ AllowedFrom(from) \subseteq HazardStatus
          /\ "closed" \in AllowedFrom(from) => from = "verified"
  <1>1. HazardStatus = {"reported", "assigned", "rectifying", "verified", "closed"}
    BY DEF HazardStatus, _ALLOWED_TRANSITIONS
  <1> QED BY <1>1 DEF AllowedFrom, _ALLOWED_TRANSITIONS

LEMMA ReportKeeps ==
    ASSUME SafetyIInv, NEW s \in patrol, NEW h \in Danger, Report(s, h)
    PROVE  SafetyIInv'
  <1>1. PICK t : t = Change(s, h, "none", "reported")
    OBVIOUS
  <1>2. s \in KnownRow
    BY DEF SafetyIInv, PatrolOK, KnownRow, FlushedRow, Report
  <1>3. /\ t \in FlushedRow /\ t.at = s.at /\ t.missed = s.missed
        /\ t.from = danger[t.hazard] /\ t.to # "closed" /\ t # s
    BY <1>1, <1>2, StatusTable DEF Change, KnownRow, FlushedRow, Report
  <1>4. /\ patrol' = (patrol \ {s}) \union {t} /\ reported' = reported \union {h}
        /\ UNCHANGED <<opened, danger, stamps, trail, crossing>>
    BY <1>1 DEF Report, PatrolStep
  <1> QED BY <1>3, <1>4, PatrolGoesOn DEF SafetyIInv, SafetyTypeOK

LEMMA BeginHazardKeeps ==
    ASSUME SafetyIInv, NEW s \in patrol, NEW h \in Danger, NEW to \in HazardStatus,
           BeginHazard(s, h, to)
    PROVE  SafetyIInv'
  <1>1. PICK t : t = Change(s, h, danger[h], to)
    OBVIOUS
  <1>2. s \in KnownRow /\ danger[h] \in HazardStatus \union {"none"}
    BY DEF SafetyIInv, SafetyTypeOK, PatrolOK, KnownRow, FlushedRow, BeginHazard
  <1>3. /\ t \in FlushedRow /\ t.at = s.at /\ t.missed = s.missed
        /\ t.from = danger[t.hazard] /\ t # s
    BY <1>1, <1>2 DEF Change, KnownRow, FlushedRow
  <1>4. t.to = "closed" => t.from = "verified"
    BY <1>1, <1>2, StatusTable DEF Change, BeginHazard
  <1>5. /\ patrol' = (patrol \ {s}) \union {t}
        /\ UNCHANGED <<opened, danger, stamps, trail, reported, crossing>>
    BY <1>1 DEF BeginHazard, PatrolStep, safetyTables
  <1> QED BY <1>3, <1>4, <1>5, PatrolGoesOn DEF SafetyIInv, SafetyTypeOK

LEMMA SafetyRollbackKeeps ==
    ASSUME SafetyIInv, NEW s \in patrol, SafetyRollback(s)
    PROVE  SafetyIInv'
  BY PatrolGoesOn DEF SafetyRollback, safetyTables, SafetyIInv, SafetyTypeOK

\* The sessions that stay have missed one more hazard.
Notes(t, h) == [t EXCEPT !.missed = t.missed \union {h}]

LEMMA NotesRow ==
    ASSUME SafetyIInv, NEW t \in patrol, NEW h \in Danger
    PROVE  /\ Notes(t, h) \in KnownRow \union FlushedRow
           /\ Notes(t, h).by = t.by /\ Notes(t, h).at = t.at /\ Notes(t, h).step = t.step
           /\ Notes(t, h).missed = t.missed \union {h}
           /\ t.step = "flushed" => /\ Notes(t, h).hazard = t.hazard /\ t.hazard \in Danger
                                    /\ Notes(t, h).from = t.from /\ Notes(t, h).to = t.to
  <1>1. CASE t \in KnownRow
    BY <1>1 DEF KnownRow, Notes
  <1>2. CASE t \in FlushedRow
    BY <1>2 DEF FlushedRow, Notes
  <1> QED BY <1>1, <1>2 DEF SafetyIInv, PatrolOK

LEMMA CommitHazardKeeps ==
    ASSUME SafetyIInv, NEW s \in patrol, CommitHazard(s)
    PROVE  SafetyIInv'
  <1>1. s \in FlushedRow
    BY DEF SafetyIInv, PatrolOK, KnownRow, FlushedRow, CommitHazard
  <1>2. PICK h \in Danger : h = s.hazard
    BY <1>1 DEF FlushedRow
  <1>3. PICK e : e = [hazard |-> h, from |-> s.from, to |-> s.to, at |-> s.at]
    OBVIOUS
  <1>4. /\ danger' = [danger EXCEPT ![h] = s.to]
        /\ stamps' = [stamps EXCEPT ![h] = stamps[h] \union Stamp(s.to)]
        /\ trail' = trail \union {e}
        /\ crossing' = IF h \in s.missed THEN crossing \union {h} ELSE crossing
        /\ patrol' = {Notes(t, h) : t \in patrol \ {s}}
        /\ UNCHANGED <<opened, reported>>
    BY <1>2, <1>3 DEF CommitHazard, Logged, Notes
  <1>5. opened \in Nat /\ opened <= MaxOpened /\ MaxOpened \in Nat /\ s.at \in 1 .. opened
    BY <1>1, MaxOpenedAssumption DEF SafetyIInv, SafetyTypeOK, FlushedRow
  <1>6. e \in AuditRow
    BY <1>1, <1>3, <1>5 DEF FlushedRow, AuditRow
  <1>7. PatrolOK'
    BY <1>2, <1>4, NotesRow DEF PatrolOK, KnownRow, FlushedRow
  <1>8. SafetyTypeOK'
    <2>1. \A u \in patrol' : u.by \in SafetyReq /\ u.at \in 1 .. opened /\ u.missed \subseteq Danger
      BY <1>4, <1>7 DEF PatrolOK, KnownRow, FlushedRow
    <2>2. Stamp(s.to) \subseteq {"rectified_at", "closed_at"}
      BY DEF Stamp
    <2> QED BY <1>1, <1>4, <1>6, <2>1, <2>2 DEF SafetyIInv, SafetyTypeOK, FlushedRow
  <1>9. \A u \in patrol' : \E t \in patrol \ {s} : u = Notes(t, h)
    BY <1>4
  <1>10. TimesAreApart'
    <2>1. \A t \in patrol \ {s} : t.at # s.at
      BY DEF SafetyIInv, TimesAreApart
    <2>2. \A u, v \in patrol' : u.at = v.at => u = v
      BY <1>9, NotesRow DEF SafetyIInv, TimesAreApart
    <2>3. \A d \in trail' : d.at <= opened' /\ \A u \in patrol' : d.at # u.at
      BY <1>3, <1>4, <1>5, <1>9, <2>1, NotesRow DEF SafetyIInv, TimesAreApart
    <2>4. \A c, d \in trail' : c.at = d.at => c = d
      BY <1>3, <1>4 DEF SafetyIInv, TimesAreApart
    <2> QED BY <2>2, <2>3, <2>4 DEF TimesAreApart
  <1>11. NothingMissed'
    <2> SUFFICES ASSUME NEW t \in patrol \ {s}, NEW u, u = Notes(t, h)
                 PROVE  /\ \A d \in trail' : d.hazard \notin u.missed => d.at < u.at
                        /\ u.step = "flushed" /\ u.hazard \notin u.missed => u.from = danger'[u.hazard]
      BY <1>9 DEF NothingMissed
    <2>1. \A d \in trail' : d.hazard \notin u.missed => d.at < u.at
      BY <1>3, <1>4, NotesRow DEF SafetyIInv, NothingMissed
    <2>2. u.step = "flushed" /\ u.hazard \notin u.missed => u.from = danger'[u.hazard]
      BY <1>4, NotesRow DEF SafetyIInv, SafetyTypeOK, NothingMissed
    <2> QED BY <2>1, <2>2
  <1>12. Rectified'
    <2>1. \A g \in Danger : stamps[g] \subseteq stamps'[g]
      BY <1>4 DEF SafetyIInv, SafetyTypeOK
    <2>2. \A g \in Danger : g # h => danger'[g] = danger[g] /\ stamps'[g] = stamps[g]
      BY <1>4 DEF SafetyIInv, SafetyTypeOK
    <2>3. danger'[h] = s.to /\ stamps'[h] = stamps[h] \union Stamp(s.to)
      BY <1>4 DEF SafetyIInv, SafetyTypeOK
    <2>4. s.to = "closed" => "rectified_at" \in stamps[h]
      BY <1>2 DEF SafetyIInv, Rectified, CommitHazard
    <2>5. stamps[h] \subseteq {"rectified_at", "closed_at"}
      BY DEF SafetyIInv, SafetyTypeOK
    <2>6. ClosedIsRectified'
      <3>1. s.to = "closed" => stamps'[h] = {"rectified_at", "closed_at"}
        BY <2>3, <2>4, <2>5 DEF Stamp
      <3> QED BY <2>2, <2>3, <3>1 DEF SafetyIInv, Rectified, ClosedIsRectified
    <2>7. \A g \in Danger : danger'[g] = "verified" => "rectified_at" \in stamps'[g]
      <3>1. s.to = "verified" => "rectified_at" \in stamps'[h]
        BY <2>3 DEF Stamp
      <3> QED BY <2>2, <2>3, <3>1 DEF SafetyIInv, Rectified
    <2>8. \A u \in patrol' : u.step = "flushed" /\ u.to = "closed" => "rectified_at" \in stamps'[u.hazard]
      BY <1>9, <2>1, NotesRow DEF SafetyIInv, Rectified
    <2> QED BY <2>6, <2>7, <2>8 DEF Rectified
  <1>13. LogTellsHistory'
    <2> SUFFICES ASSUME NEW g \in Danger \ crossing'
                 PROVE  /\ \A c, d \in AuditLog(g)' : c.at = d.at => c = d
                        /\ \A d \in AuditLog(g)' : LeadTo(Before(d), d.from)'
                        /\ LeadTo(AuditLog(g), danger[g])'
      BY DEF LogTellsHistory
    <2>1. \A c, d \in AuditLog(g)' : c.at = d.at => c = d
      BY <1>10 DEF TimesAreApart, AuditLog
    <2>2. g \notin crossing /\ \A d \in AuditLog(g) : LeadTo(Before(d), d.from)
      BY <1>4 DEF SafetyIInv, LogTellsHistory
    <2>3. LeadTo(AuditLog(g), danger[g])
      BY <2>2 DEF SafetyIInv, LogTellsHistory
    <2>4. CASE g # h
      <3>1. AuditLog(g)' = AuditLog(g) /\ danger'[g] = danger[g]
        BY <1>3, <1>4, <2>4 DEF AuditLog, SafetyIInv, SafetyTypeOK
      <3>2. \A d \in AuditLog(g) : Before(d)' = Before(d)
        BY <3>1 DEF Before, AuditLog
      <3> QED BY <2>1, <2>2, <2>3, <3>1, <3>2 DEF LeadTo, IsLast
    <2>5. CASE g = h
      <3>1. h \notin s.missed /\ s.from = danger[h]
        BY <1>2, <1>4, <2>5 DEF SafetyIInv, NothingMissed, CommitHazard
      <3>2. \A d \in AuditLog(h) : d.at < e.at /\ d.at \in Nat /\ e.at \in Nat
        BY <1>3, <1>5, <3>1 DEF SafetyIInv, NothingMissed, SafetyTypeOK, AuditLog, AuditRow
      <3>3. AuditLog(h)' = AuditLog(h) \union {e} /\ danger'[h] = e.to /\ e.hazard = h
        BY <1>3, <1>4 DEF AuditLog, SafetyIInv, SafetyTypeOK
      <3>4. Before(e)' = AuditLog(h)
        <4>1. e.at \in Nat /\ ~ (e.at < e.at)
          BY <1>3, <1>5
        <4> QED BY <3>2, <3>3, <4>1 DEF Before
      <3>5. \A d \in AuditLog(h) : Before(d)' = Before(d)
        BY <3>2, <3>3 DEF Before, AuditLog
      <3>6. \A d \in AuditLog(h)' : LeadTo(Before(d), d.from)'
        <4>1. \A d \in AuditLog(h) : LeadTo(Before(d), d.from)'
          BY <2>2, <2>5, <3>5 DEF LeadTo, IsLast
        <4>2. LeadTo(Before(e), e.from)'
          BY <1>3, <2>3, <2>5, <3>1, <3>4 DEF LeadTo, IsLast
        <4> QED BY <3>3, <4>1, <4>2
      <3>7. LeadTo(AuditLog(h), danger[h])'
        BY <1>5, <3>2, <3>3, <1>3 DEF LeadTo, IsLast
      <3> QED BY <2>1, <2>5, <3>6, <3>7
    <2> QED BY <2>4, <2>5
  <1> QED BY <1>7, <1>8, <1>10, <1>11, <1>12, <1>13 DEF SafetyIInv

LEMMA SafetyNextKeeps == ASSUME SafetyIInv, [SafetyNext]_safetyVars PROVE SafetyIInv'
  <1>1. ASSUME NEW r \in SafetyReq, Authenticate(r) PROVE SafetyIInv'
    BY <1>1, AuthenticateKeeps
  <1>2. ASSUME NEW s \in patrol, NEW h \in Danger, Report(s, h) PROVE SafetyIInv'
    BY <1>2, ReportKeeps
  <1>3. ASSUME NEW s \in patrol, NEW h \in Danger, NEW to \in HazardStatus, BeginHazard(s, h, to)
        PROVE  SafetyIInv'
    BY <1>3, BeginHazardKeeps
  <1>4. ASSUME NEW s \in patrol, CommitHazard(s) PROVE SafetyIInv'
    BY <1>4, CommitHazardKeeps
  <1>5. ASSUME NEW s \in patrol, SafetyRollback(s) PROVE SafetyIInv'
    BY <1>5, SafetyRollbackKeeps
  <1>6. ASSUME UNCHANGED safetyVars PROVE SafetyIInv'
    <2> USE <1>6 DEF safetyVars, safetyTables
    <2>1. SafetyTypeOK' /\ PatrolOK'
      BY DEF SafetyIInv, SafetyTypeOK, PatrolOK, KnownRow, FlushedRow
    <2>2. TimesAreApart' /\ NothingMissed' /\ Rectified'
      BY DEF SafetyIInv, TimesAreApart, NothingMissed, Rectified, ClosedIsRectified
    <2> QED BY <2>1, <2>2, SameLog DEF SafetyIInv
  <1> QED BY <1>1, <1>2, <1>3, <1>4, <1>5, <1>6 DEF SafetyNext

LEMMA SafetyInductive == SafetySpec => []SafetyIInv
  BY SafetyInitHolds, SafetyNextKeeps, PTL DEF SafetySpec

\* The audit log of a hazard tells how it came to its status unless requests
\* overlapped on it, and a closed hazard has been rectified whatever overlapped.
THEOREM HazardsAreToldHolds == SafetySpec => []HazardsAreTold
  <1>1. SafetyIInv => HazardsAreTold
    BY DEF SafetyIInv, HazardsAreTold, Rectified
  <1> QED BY <1>1, SafetyInductive, PTL

-----------------------------------------------------------------------------
(* Equipment: module Equipment. GeneratedIsLast ties the jobs of a plan to *)
(* the day it was last generated; the rest is the sum of downtimes, which  *)
(* counts every slot of a span once for each fault that covers it.         *)

FaultRow == [by : PlantReq, does : {"fault"}, fault : Machine \X FaultSpan]

ScanRow == [by : PlantReq, does : {"scan"}, today : 0 .. MaxDay, due : SUBSET Plan,
            saw : [Plan -> Never .. MaxDay]]

JobRow == [plan : Plan, day : 0 .. MaxDay, scan : Nat, late : BOOLEAN]

\* A scan holds plans that were due when it read them, a fault what was announced.
UpkeepOK ==
    /\ upkeep \subseteq FaultRow \union ScanRow
    /\ \A s \in upkeep : s.does = "fault" => s.fault \in alarms
    /\ \A s \in upkeep : s.does = "scan" =>
          /\ s.due \subseteq plans
          /\ \A p \in s.due : s.saw[p] = Never \/ s.today - s.saw[p] >= IntervalDays(p)

Overtaken(i, n) == \E k \in jobs : k.plan = i.plan /\ k.late /\ i.scan < k.scan /\ k.scan <= n

\* A plan was last generated on the day of any of its jobs or later, unless a
\* scan that had been overtaken has set it since.
GeneratedIsLast == \A j \in jobs : j.day <= generated[j.plan] \/ Overtaken(j, scans)

RowsAreFinite ==
    /\ jobs \subseteq JobRow
    /\ scans \in Nat
    /\ \A j \in jobs : j.scan <= scans
    /\ IsFiniteSet(faults)

EquipmentIInv ==
    /\ EquipmentTypeOK
    /\ UpkeepOK
    /\ RowsAreFinite
    /\ GeneratedIsLast
    /\ JobsAreSpaced
    /\ FaultsAreTold

\* What an action that changes neither jobs nor faults keeps.
RowsKept == UNCHANGED <<faults, generated, jobs, scans>>

LEMMA RowsKeep ==
    ASSUME EquipmentIInv, RowsKept
    PROVE  RowsAreFinite' /\ GeneratedIsLast' /\ JobsAreSpaced'
  BY DEF RowsKept, EquipmentIInv, RowsAreFinite, GeneratedIsLast, Overtaken, JobsAreSpaced

-----------------------------------------------------------------------------
LEMMA EquipmentInitHolds == EquipmentInit => EquipmentIInv
  <1> SUFFICES ASSUME EquipmentInit PROVE EquipmentIInv
    OBVIOUS
  <1> USE DEF EquipmentInit
  <1>1. EquipmentTypeOK
    BY CalendarAssumption DEF EquipmentTypeOK, Never
  <1>2. RowsAreFinite
    BY FS_EmptySet DEF RowsAreFinite
  <1>3. UpkeepOK /\ GeneratedIsLast /\ JobsAreSpaced /\ FaultsAreTold
    BY DEF UpkeepOK, GeneratedIsLast, JobsAreSpaced, FaultsAreTold
  <1> QED BY <1>1, <1>2, <1>3 DEF EquipmentIInv

LEMMA MidnightKeeps ==
    ASSUME EquipmentIInv, Midnight
    PROVE  EquipmentIInv'
  <1>1. RowsKept
    BY DEF Midnight, equipmentTables, RowsKept
  <1> USE DEF EquipmentIInv, Midnight, equipmentTables
  <1>2. EquipmentTypeOK'
    BY CalendarAssumption DEF EquipmentTypeOK
  <1>3. UpkeepOK' /\ FaultsAreTold'
    BY DEF UpkeepOK, FaultsAreTold
  <1> QED BY <1>1, <1>2, <1>3, RowsKeep

LEMMA CreateEquipmentKeeps ==
    ASSUME EquipmentIInv, NEW m \in Machine, NEW first \in EquipmentStatus,
           CreateEquipment(m, first)
    PROVE  EquipmentIInv'
  <1>1. RowsKept
    BY DEF CreateEquipment, RowsKept
  <1>2. EquipmentTypeOK'
    BY DEF EquipmentIInv, EquipmentTypeOK, CreateEquipment
  <1>3. UpkeepOK'
    BY DEF EquipmentIInv, UpkeepOK, CreateEquipment
  <1>4. FaultsAreTold'
    <2>1. machine[m] # "fault"
      BY DEF CreateEquipment
    <2> QED BY <2>1 DEF EquipmentIInv, EquipmentTypeOK, FaultsAreTold, CreateEquipment
  <1> QED BY <1>1, <1>2, <1>3, <1>4, RowsKeep DEF EquipmentIInv

LEMMA CreatePlanKeeps ==
    ASSUME EquipmentIInv, NEW p \in Plan, CreatePlan(p)
    PROVE  EquipmentIInv'
  <1>1. RowsKept
    BY DEF CreatePlan, RowsKept
  <1> USE DEF EquipmentIInv, CreatePlan
  <1>2. EquipmentTypeOK'
    BY DEF EquipmentTypeOK
  <1>3. UpkeepOK' /\ FaultsAreTold'
    BY DEF UpkeepOK, FaultsAreTold
  <1> QED BY <1>1, <1>2, <1>3, RowsKeep

LEMMA AnnounceFaultKeeps ==
    ASSUME EquipmentIInv, NEW r \in PlantReq, NEW m \in Machine, NEW span \in FaultSpan,
           AnnounceFault(r, m, span)
    PROVE  EquipmentIInv'
  <1>1. PICK s : s = [by |-> r, does |-> "fault", fault |-> <<m, span>>]
    OBVIOUS
  <1>2. s \in FaultRow /\ s.does # "scan" /\ s.fault = <<m, span>>
    BY <1>1 DEF FaultRow
  <1>3. /\ upkeep' = upkeep \union {s} /\ alarms' = alarms \union {<<m, span>>}
        /\ UNCHANGED <<day, machine, faults, plans, generated, jobs, scans>>
    BY <1>1 DEF AnnounceFault
  <1>4. EquipmentTypeOK' /\ FaultsAreTold' /\ RowsKept
    BY <1>3 DEF EquipmentIInv, EquipmentTypeOK, FaultsAreTold, RowsKept
  <1>5. UpkeepOK'
    BY <1>2, <1>3 DEF EquipmentIInv, UpkeepOK
  <1> QED BY <1>4, <1>5, RowsKeep DEF EquipmentIInv

LEMMA CommitFaultKeeps ==
    ASSUME EquipmentIInv, NEW s \in upkeep, CommitFault(s)
    PROVE  EquipmentIInv'
  <1>1. s.fault \in Machine \X FaultSpan /\ s.fault \in alarms
    BY DEF EquipmentIInv, UpkeepOK, CommitFault, FaultRow, ScanRow
  <1>2. PICK m \in Machine, span \in FaultSpan : s.fault = <<m, span>>
    BY <1>1
  <1>3. PICK x : x = [no |-> Cardinality(faults) + 1, machine |-> m, span |-> span]
    OBVIOUS
  <1>4. /\ faults' = faults \union {x} /\ machine' = [machine EXCEPT ![m] = "fault"]
        /\ upkeep' = upkeep \ {s}
        /\ UNCHANGED <<day, alarms, plans, generated, jobs, scans>>
    BY <1>2, <1>3 DEF CommitFault
  <1>5. x \in [no : Nat, machine : Machine, span : FaultSpan] /\ x.machine = m /\ x.span = span
    <2>1. Cardinality(faults) + 1 \in Nat
      BY FS_CardinalityType DEF EquipmentIInv, RowsAreFinite
    <2> QED BY <1>3, <2>1
  <1>6. EquipmentTypeOK'
    BY <1>4, <1>5 DEF EquipmentIInv, EquipmentTypeOK, EquipmentStatus
  <1>7. RowsAreFinite' /\ GeneratedIsLast' /\ JobsAreSpaced'
    <2>1. IsFiniteSet(faults')
      BY <1>4, FS_AddElement DEF EquipmentIInv, RowsAreFinite
    <2> QED BY <1>4, <2>1 DEF EquipmentIInv, RowsAreFinite, GeneratedIsLast, Overtaken,
                              JobsAreSpaced
  <1>8. UpkeepOK'
    BY <1>4 DEF EquipmentIInv, UpkeepOK
  <1>9. FaultsAreTold'
    BY <1>1, <1>2, <1>4, <1>5 DEF EquipmentIInv, EquipmentTypeOK, FaultsAreTold
  <1> QED BY <1>6, <1>7, <1>8, <1>9 DEF EquipmentIInv

LEMMA BeginScanKeeps ==
    ASSUME EquipmentIInv, NEW r \in PlantReq, BeginScan(r)
    PROVE  EquipmentIInv'
  <1>1. PICK s : s = [by |-> r, does |-> "scan", today |-> day, due |-> {p \in plans : IsDue(p)},
                      saw |-> generated]
    OBVIOUS
  <1>2. s \in ScanRow /\ s.does # "fault"
    BY <1>1 DEF ScanRow, EquipmentIInv, EquipmentTypeOK
  <1>3. /\ s.due \subseteq plans
        /\ \A p \in s.due : s.saw[p] = Never \/ s.today - s.saw[p] >= IntervalDays(p)
    BY <1>1 DEF IsDue
  <1>4. upkeep' = upkeep \union {s} /\ UNCHANGED <<day, equipmentTables>>
    BY <1>1 DEF BeginScan
  <1>5. EquipmentTypeOK' /\ FaultsAreTold' /\ RowsKept
    BY <1>4 DEF EquipmentIInv, EquipmentTypeOK, FaultsAreTold, RowsKept, equipmentTables
  <1>6. UpkeepOK'
    BY <1>2, <1>3, <1>4 DEF EquipmentIInv, UpkeepOK, equipmentTables
  <1> QED BY <1>5, <1>6, RowsKeep DEF EquipmentIInv

LEMMA CommitScanKeeps ==
    ASSUME EquipmentIInv, NEW s \in upkeep, CommitScan(s)
    PROVE  EquipmentIInv'
  <1>1. s \in ScanRow /\ s.due \subseteq plans /\ plans \subseteq Plan
    BY DEF EquipmentIInv, UpkeepOK, EquipmentTypeOK, CommitScan, FaultRow, ScanRow
  <1>2. PICK today \in 0 .. MaxDay : today = s.today
    BY <1>1 DEF ScanRow
  <1>3. PICK dues \in SUBSET Plan : dues = s.due
    BY <1>1 DEF ScanRow
  <1>4. today \in Int /\ MaxDay \in Int /\ scans \in Nat
    BY CalendarAssumption DEF EquipmentIInv, RowsAreFinite
  <1>5. \A p \in Plan : generated[p] \in Int /\ generated[p] \in Never .. MaxDay
    BY CalendarAssumption DEF EquipmentIInv, EquipmentTypeOK, Never
  <1>6. \A i \in jobs : /\ i.plan \in Plan /\ i.day \in Int /\ i.day >= 0 /\ i.scan \in Nat
                        /\ i.scan <= scans
    BY CalendarAssumption DEF EquipmentIInv, RowsAreFinite, JobRow
  <1>7. \A p \in Plan : IntervalDays(p) \in Int /\ IntervalDays(p) > 0
    BY PlanAssumption
  <1>8. generated' = [p \in Plan |-> IF p \in dues THEN today ELSE generated[p]]
    BY <1>2, <1>3 DEF CommitScan
  <1> DEFINE JobFor(p) == [plan |-> p, day |-> today, scan |-> scans + 1,
                           late |-> generated[p] # s.saw[p]]
  <1>9. jobs' = jobs \union {JobFor(p) : p \in dues}
    BY <1>2, <1>3 DEF CommitScan
  <1>10. \A p \in dues : JobFor(p) \in jobs' /\ JobFor(p) \in JobRow
    BY <1>4, <1>9 DEF JobRow
  <1>11. \A p \in dues : JobFor(p).late \/ generated[p] = Never \/ today - generated[p] >= IntervalDays(p)
    <2>1. \A p \in dues : s.saw[p] = Never \/ today - s.saw[p] >= IntervalDays(p)
      BY <1>2, <1>3 DEF EquipmentIInv, UpkeepOK, CommitScan
    <2>2. \A p \in dues : JobFor(p).late \/ generated[p] = s.saw[p]
      OBVIOUS
    <2> QED BY <2>1, <2>2
  <1>12. /\ upkeep' = upkeep \ {s} /\ scans' = scans + 1
         /\ UNCHANGED <<day, machine, faults, alarms, plans>>
    BY DEF CommitScan
  <1>13. \A j \in jobs' \ jobs : /\ j \in JobRow /\ j.plan \in dues /\ j.day = today
                                 /\ j.scan = scans + 1 /\ j = JobFor(j.plan)
    <2>1. \A p \in dues : /\ JobFor(p).plan = p /\ JobFor(p).day = today /\ JobFor(p).scan = scans + 1
      OBVIOUS
    <2> HIDE DEF JobFor
    <2> QED BY <1>9, <1>10, <2>1
  <1> HIDE DEF JobFor
  <1>14. jobs \subseteq jobs'
    BY <1>9
  <1>15. RowsAreFinite'
    <2>1. \A j \in jobs' : j.scan <= scans + 1
      BY <1>4, <1>6, <1>13
    <2> QED BY <1>4, <1>12, <1>13, <2>1 DEF EquipmentIInv, RowsAreFinite
  <1>16. EquipmentTypeOK'
    <2>1. generated' \in [Plan -> Never .. MaxDay]
      BY <1>4, <1>5, <1>8 DEF Never
    <2>2. \A j \in jobs' : j.plan \in plans' /\ j.day \in 0 .. MaxDay
      BY <1>1, <1>3, <1>12, <1>13 DEF EquipmentIInv, EquipmentTypeOK
    <2> QED BY <1>12, <2>1, <2>2 DEF EquipmentIInv, EquipmentTypeOK
  <1>17. UpkeepOK' /\ FaultsAreTold'
    BY <1>12 DEF EquipmentIInv, UpkeepOK, FaultsAreTold
  \* An earlier job of a plan that comes due lies its interval back, or a scan
  \* that was overtaken has written one since.
  <1>18. ASSUME NEW i \in jobs, i.plan \in dues
         PROVE  \/ today - i.day >= IntervalDays(i.plan)
                \/ \E k \in jobs' : k.plan = i.plan /\ k.late /\ i.scan < k.scan /\ k.scan <= scans + 1
    <2>1. CASE Overtaken(i, scans)
      <3>1. PICK k \in jobs : k.plan = i.plan /\ k.late /\ i.scan < k.scan /\ k.scan <= scans
        BY <2>1 DEF Overtaken
      <3>2. k.scan <= scans + 1 /\ k \in jobs'
        BY <1>4, <1>6, <1>14, <3>1
      <3> QED BY <3>1, <3>2
    <2>2. CASE ~Overtaken(i, scans)
      <3>1. i.day <= generated[i.plan]
        BY <2>2 DEF EquipmentIInv, GeneratedIsLast
      <3>2. generated[i.plan] # Never
        BY <1>5, <1>6, <3>1 DEF Never
      <3>3. CASE JobFor(i.plan).late
        <4>1. JobFor(i.plan) \in jobs' /\ JobFor(i.plan).plan = i.plan /\ JobFor(i.plan).scan = scans + 1
          BY <1>10, <1>18 DEF JobFor
        <4>2. i.scan < scans + 1 /\ scans + 1 <= scans + 1
          BY <1>4, <1>6
        <4> QED BY <3>3, <4>1, <4>2
      <3>4. CASE today - generated[i.plan] >= IntervalDays(i.plan)
        BY <1>4, <1>5, <1>6, <1>7, <3>1, <3>4
      <3> QED BY <1>11, <1>18, <3>2, <3>3, <3>4
    <2> QED BY <2>1, <2>2
  <1>19. GeneratedIsLast'
    <2> SUFFICES ASSUME NEW j \in jobs'
                 PROVE  \/ j.day <= generated'[j.plan]
                        \/ \E k \in jobs' : /\ k.plan = j.plan /\ k.late /\ j.scan < k.scan
                                            /\ k.scan <= scans + 1
      BY <1>12 DEF GeneratedIsLast, Overtaken
    <2>1. CASE j \in jobs /\ j.plan \notin dues
      <3>1. generated'[j.plan] = generated[j.plan]
        BY <1>6, <1>8, <2>1
      <3>2. CASE Overtaken(j, scans)
        <4>1. PICK k \in jobs : k.plan = j.plan /\ k.late /\ j.scan < k.scan /\ k.scan <= scans
          BY <3>2 DEF Overtaken
        <4>2. k.scan <= scans + 1 /\ k \in jobs'
          BY <1>4, <1>6, <1>14, <4>1
        <4> QED BY <4>1, <4>2
      <3> QED BY <2>1, <3>1, <3>2 DEF EquipmentIInv, GeneratedIsLast
    <2>2. CASE j \in jobs /\ j.plan \in dues
      <3>1. generated'[j.plan] = today
        BY <1>6, <1>8, <2>2
      <3>2. today - j.day >= IntervalDays(j.plan) => j.day <= today
        BY <1>4, <1>6, <1>7, <2>2
      <3> QED BY <1>18, <2>2, <3>1, <3>2
    <2>3. CASE j \notin jobs
      <3>1. j.plan \in dues /\ j.day = today
        BY <1>13, <2>3
      <3>2. generated'[j.plan] = today
        BY <1>8, <3>1
      <3> QED BY <1>4, <3>1, <3>2
    <2> QED BY <2>1, <2>2, <2>3
  <1>20. JobsAreSpaced'
    <2> SUFFICES ASSUME NEW i \in jobs', NEW j \in jobs', i.plan = j.plan, i.scan < j.scan
                 PROVE  \/ j.day - i.day >= IntervalDays(i.plan)
                        \/ \E k \in jobs' : /\ k.plan = i.plan /\ k.late /\ i.scan < k.scan
                                            /\ k.scan <= j.scan
      BY DEF JobsAreSpaced
    <2>1. CASE i \in jobs /\ j \in jobs
      BY <1>14, <2>1 DEF EquipmentIInv, JobsAreSpaced
    <2>2. CASE i \in jobs /\ j \notin jobs
      <3>1. j.plan \in dues /\ j.day = today /\ j.scan = scans + 1
        BY <1>13, <2>2
      <3> QED BY <1>18, <2>2, <3>1
    <2>3. CASE i \notin jobs
      <3>1. i.scan = scans + 1 /\ j.scan <= scans + 1 /\ j.scan \in Nat
        BY <1>4, <1>6, <1>13, <2>3
      <3> QED BY <1>4, <3>1
    <2> QED BY <2>1, <2>2, <2>3
  <1> QED BY <1>15, <1>16, <1>17, <1>19, <1>20 DEF EquipmentIInv

LEMMA EquipmentRollbackKeeps ==
    ASSUME EquipmentIInv, NEW s \in upkeep, EquipmentRollback(s)
    PROVE  EquipmentIInv'
  <1>1. RowsKept
    BY DEF EquipmentRollback, equipmentTables, RowsKept
  <1> USE DEF EquipmentIInv, EquipmentRollback, equipmentTables
  <1>2. EquipmentTypeOK' /\ FaultsAreTold'
    BY DEF EquipmentTypeOK, FaultsAreTold
  <1>3. UpkeepOK'
    BY DEF UpkeepOK
  <1> QED BY <1>1, <1>2, <1>3, RowsKeep

LEMMA EquipmentNextKeeps == ASSUME EquipmentIInv, [EquipmentNext]_equipmentVars PROVE EquipmentIInv'
  <1>1. ASSUME NEW m \in Machine, NEW first \in EquipmentStatus, CreateEquipment(m, first)
        PROVE  EquipmentIInv'
    BY <1>1, CreateEquipmentKeeps
  <1>2. ASSUME NEW p \in Plan, CreatePlan(p) PROVE EquipmentIInv'
    BY <1>2, CreatePlanKeeps
  <1>3. ASSUME NEW r \in PlantReq, NEW m \in Machine, NEW span \in FaultSpan,
               AnnounceFault(r, m, span)
        PROVE  EquipmentIInv'
    BY <1>3, AnnounceFaultKeeps
  <1>4. ASSUME NEW s \in upkeep, CommitFault(s) PROVE EquipmentIInv'
    BY <1>4, CommitFaultKeeps
  <1>5. ASSUME NEW r \in PlantReq, BeginScan(r) PROVE EquipmentIInv'
    BY <1>5, BeginScanKeeps
  <1>6. ASSUME NEW s \in upkeep, CommitScan(s) PROVE EquipmentIInv'
    BY <1>6, CommitScanKeeps
  <1>7. ASSUME NEW s \in upkeep, EquipmentRollback(s) PROVE EquipmentIInv'
    BY <1>7, EquipmentRollbackKeeps
  <1>8. ASSUME UNCHANGED equipmentVars PROVE EquipmentIInv'
    <2>1. RowsKept
      BY <1>8 DEF equipmentVars, equipmentTables, RowsKept
    <2> USE <1>8 DEF equipmentVars, equipmentTables, EquipmentIInv
    <2>2. EquipmentTypeOK' /\ FaultsAreTold'
      BY DEF EquipmentTypeOK, FaultsAreTold
    <2>3. UpkeepOK'
      BY DEF UpkeepOK
    <2> QED BY <2>1, <2>2, <2>3, RowsKeep
  <1> QED BY <1>1, <1>2, <1>3, <1>4, <1>5, <1>6, <1>7, <1>8, MidnightKeeps DEF EquipmentNext

LEMMA EquipmentInductive == EquipmentSpec => []EquipmentIInv
  BY EquipmentInitHolds, EquipmentNextKeeps, PTL DEF EquipmentSpec
-----------------------------------------------------------------------------
(* Downtime against the slots during which a machine was down.               *)

LEMMA DayLimits ==
    ASSUME NEW d \in 0 .. MaxDay
    PROVE  /\ DayStart(d) \in Nat /\ DayEnd(d) \in Nat
           /\ DayEnd(d) = DayStart(d) + DaySlots /\ DaySlots \in Nat \ {0}
  <1>1. d \in Nat /\ DaySlots \in Nat \ {0}
    BY CalendarAssumption
  <1>2. d * DaySlots \in Nat /\ (d + 1) * DaySlots = d * DaySlots + DaySlots
    BY <1>1
  <1> QED BY <1>1, <1>2 DEF DayStart, DayEnd

LEMMA MinutesAreSlots ==
    ASSUME NEW f \in FaultSpan, NEW d \in 0 .. MaxDay
    PROVE  /\ IsFiniteSet(SlotsOf(f, d))
           /\ Minutes(f, d) = Cardinality(SlotsOf(f, d))
  <1>1. PICK lo \in Nat, hi \in Nat : lo = DayStart(d) /\ hi = DayEnd(d)
    BY DayLimits
  <1>2. f[1] \in Nat /\ (f[2] = Ongoing \/ f[2] \in Nat)
    BY SpanAssumption
  <1>3. PICK a \in Int : a = Max({f[1], lo}) /\ a = IF f[1] >= lo THEN f[1] ELSE lo
    <2>1. Max({f[1], lo}) = IF f[1] >= lo THEN f[1] ELSE lo
      BY <1>2, MaxOfTwo
    <2> QED BY <1>2, <2>1
  <1>4. PICK b \in Int : b = End(f, d) /\ b = IF f[2] = Ongoing \/ hi < f[2] THEN hi ELSE f[2]
    <2>1. CASE f[2] = Ongoing
      BY <1>1, <2>1 DEF End
    <2>2. CASE f[2] # Ongoing
      <3>1. Min({f[2], hi}) = IF f[2] <= hi THEN f[2] ELSE hi
        BY <1>2, <2>2, MinOfTwo
      <3> QED BY <1>1, <1>2, <2>2, <3>1 DEF End
    <2> QED BY <2>1, <2>2
  <1>5. SlotsOf(f, d) = a .. (b - 1)
    <2>1. \A t \in Int : t \in SlotsOf(f, d) <=> a <= t /\ t <= b - 1
      BY <1>1, <1>2, <1>3, <1>4 DEF SlotsOf, Ongoing
    <2>2. SlotsOf(f, d) \subseteq Int
      BY DEF SlotsOf
    <2> DEFINE slots == SlotsOf(f, d)
               span  == a .. (b - 1)
    <2>3. span \subseteq Int /\ \A t \in Int : t \in span <=> a <= t /\ t <= b - 1
      OBVIOUS
    <2>4. slots \subseteq Int /\ \A t \in Int : t \in slots <=> a <= t /\ t <= b - 1
      BY <2>1, <2>2
    <2> HIDE DEF slots, span
    <2>5. slots = span
      BY <2>3, <2>4
    <2> QED BY <2>5 DEF slots, span
  <1>6. Minutes(f, d) = IF b - a >= 0 THEN b - a ELSE 0
    <2>1. Max({0, b - a}) = IF 0 >= b - a THEN 0 ELSE b - a
      BY MaxOfTwo
    <2>2. Minutes(f, d) = Max({0, b - a})
      BY <1>1, <1>3, <1>4 DEF Minutes
    <2> QED BY <2>1, <2>2
  <1>7. IsFiniteSet(a .. (b - 1)) /\ Cardinality(a .. (b - 1)) = IF b - a >= 0 THEN b - a ELSE 0
    <2>1. b - 1 \in Int
      OBVIOUS
    <2>2. /\ IsFiniteSet(a .. (b - 1))
          /\ Cardinality(a .. (b - 1)) = IF a > b - 1 THEN 0 ELSE (b - 1) - a + 1
      BY <2>1, FS_Interval
    <2> QED BY <2>2
  <1> QED BY <1>5, <1>6, <1>7

LEMMA TimeDown ==
    ASSUME EquipmentTypeOK, IsFiniteSet(faults), NEW m \in Machine, NEW d \in 0 .. MaxDay
    PROVE  /\ Downtime(m, d) \in Nat
           /\ IsFiniteSet(DownSlots(m, d))
           /\ Cardinality(DownSlots(m, d)) <= Downtime(m, d)
           /\ Disjoint(m, d) => Cardinality(DownSlots(m, d)) = Downtime(m, d)
  <1> DEFINE F == FaultsOn(m, d)
             C == [x \in F |-> SlotsOf(x.span, d)]
             n == [x \in F |-> Cardinality(C[x])]
  <1>1. F \subseteq FaultsOf(m) /\ F \in SUBSET faults /\ \A x \in FaultsOf(m) : x.span \in FaultSpan
    BY DEF FaultsOn, FaultsOf, EquipmentTypeOK
  <1>2. IsFiniteSet(F)
    BY <1>1, FS_Subset
  <1>3. \A x \in F : /\ C[x] = SlotsOf(x.span, d) /\ IsFiniteSet(C[x])
                     /\ Minutes(x.span, d) = Cardinality(C[x])
    BY <1>1, MinutesAreSlots
  <1>4. Downtime(m, d) = SumFunction(n)
    <2>1. [x \in F |-> Minutes(x.span, d)] = n
      BY <1>3
    <2> QED BY <2>1 DEF Downtime
  <1>5. DownSlots(m, d) = UNION {C[x] : x \in F}
    <2>1. ASSUME NEW t \in DownSlots(m, d) PROVE \E x \in F : t \in C[x]
      <3>1. PICK x \in FaultsOf(m) : t \in SlotsOf(x.span, d)
        BY <2>1 DEF DownSlots
      <3>2. PICK f \in FaultSpan : f = x.span
        BY <1>1, <3>1
      <3>3. t \in DayStart(d) .. DayEnd(d) - 1 /\ f[1] <= t /\ (f[2] = Ongoing \/ t < f[2])
        BY <3>1, <3>2 DEF SlotsOf
      <3>4. f[1] \in Nat /\ (f[2] = Ongoing \/ f[2] \in Nat)
        BY SpanAssumption
      <3>5. f[1] <= DayEnd(d) /\ (f[2] = Ongoing \/ f[2] >= DayStart(d))
        BY <3>3, <3>4, DayLimits
      <3>6. x \in F
        BY <3>1, <3>2, <3>5 DEF FaultsOn, FaultsOf
      <3> QED BY <3>1, <3>6
    <2>2. ASSUME NEW x \in F, NEW t \in C[x] PROVE t \in DownSlots(m, d)
      <3>1. x \in FaultsOf(m) /\ t \in SlotsOf(x.span, d)
        BY <1>1, <2>2
      <3> QED BY <3>1 DEF DownSlots
    <2> HIDE DEF C, F
    <2> QED BY <2>1, <2>2
  <1>6. /\ IsFiniteSet(UNION {C[x] : x \in F})
        /\ Cardinality(UNION {C[x] : x \in F}) <= SumFunction(n)
        /\ (\A x, y \in F : x # y => C[x] \intersect C[y] = {}) =>
              Cardinality(UNION {C[x] : x \in F}) = SumFunction(n)
    <2> HIDE DEF C, F
    <2> QED BY <1>2, <1>3, SizeOfUnion
  <1>7. Disjoint(m, d) => \A x, y \in F : x # y => C[x] \intersect C[y] = {}
    <2> HIDE DEF C, F
    <2> QED BY <1>1, <1>3 DEF Disjoint
  <1>8. Downtime(m, d) \in Nat
    <2>1. \A x \in F : n[x] \in Nat
      BY <1>3, FS_CardinalityType
    <2>2. SumFunction(n) = SumFunctionOnSet(n, F)
      BY DEF SumFunction
    <2> HIDE DEF n, F, C
    <2>3. SumFunctionOnSet(n, F) \in Nat
      BY <1>2, <2>1, SumIsNatural
    <2> QED BY <1>4, <2>2, <2>3
  <1> HIDE DEF n, F, C
  <1> QED BY <1>4, <1>5, <1>6, <1>7, <1>8

LEMMA NoTimeLeft ==
    ASSUME NEW down \in Nat, DaySlots <= down
    PROVE  Availability(DaySlots, down) = 0
  <1>1. DaySlots \in Nat \ {0}
    BY CalendarAssumption
  <1>2. PICK rest \in Int : rest = Min({DaySlots, DaySlots - down}) /\ rest <= 0
    <2>1. Min({DaySlots, DaySlots - down}) = IF DaySlots <= DaySlots - down THEN DaySlots
                                             ELSE DaySlots - down
      BY <1>1, MinOfTwo
    <2> QED BY <1>1, <2>1
  <1>3. Max({0, rest}) = 0
    <2>1. Max({0, rest}) = IF 0 >= rest THEN 0 ELSE rest
      BY MaxOfTwo
    <2> QED BY <1>2, <2>1
  <1> QED BY <1>1, <1>2, <1>3 DEF Availability

\* However scans, faults and midnights interleave, for any plans, machines and
\* spans of faults, also those that end before they start or are reported twice:
\* jobs of a plan are an interval apart save after a scan that was overtaken, and
\* the downtime of a machine on a day is the time it was down, or more where its
\* faults overlap.
THEOREM UpkeepIsSoundHolds == EquipmentSpec => []UpkeepIsSound
  <1>1. ASSUME EquipmentIInv PROVE UpkeepIsSound
    <2> SUFFICES ASSUME NEW m \in Machine, NEW d \in 0 .. MaxDay
                 PROVE  /\ Downtime(m, d) >= Cardinality(DownSlots(m, d))
                        /\ Disjoint(m, d) => Downtime(m, d) = Cardinality(DownSlots(m, d))
                        /\ Cardinality(DownSlots(m, d)) = DaySlots =>
                              Availability(DaySlots, Downtime(m, d)) = 0
      BY <1>1 DEF EquipmentIInv, UpkeepIsSound, DowntimeIsTimeDown
    <2>1. /\ Downtime(m, d) \in Nat
          /\ Cardinality(DownSlots(m, d)) <= Downtime(m, d)
          /\ IsFiniteSet(DownSlots(m, d))
          /\ Disjoint(m, d) => Cardinality(DownSlots(m, d)) = Downtime(m, d)
      BY <1>1, TimeDown DEF EquipmentIInv, RowsAreFinite
    <2>2. Cardinality(DownSlots(m, d)) \in Nat
      BY <2>1, FS_CardinalityType
    <2>3. Cardinality(DownSlots(m, d)) = DaySlots => Availability(DaySlots, Downtime(m, d)) = 0
      BY <2>1, NoTimeLeft
    <2> QED BY <2>1, <2>2, <2>3
  <1> QED BY <1>1, EquipmentInductive, PTL

-----------------------------------------------------------------------------
(* Products, versions and engineering changes: module ProductStructure.    *)
(* EditingOK says what the sessions hold of the rows they have read.       *)

Making == {"begun", "clearing", "copied"}

\* What the sessions hold has come from rows that are still there.
EditingOK ==
    \A s \in editing :
        /\ s.stage = "adding" => s.bill \in boms /\ s.part \in Product /\ s.item \in Item
        /\ s.stage = "moving" => /\ s.ecn \in Ecn /\ s.to \in EcnStatus
                                 /\ s.saw \in 0 .. MaxVersion
                                 /\ s.to = "effective" => s.saw < MaxVersion
        /\ s.stage \in Making => /\ s.product \in Product /\ s.cause \in {"request"} \union Ecn
                                 /\ s.cause \in Ecn => s.product = EcnProduct(s.cause)
                                 /\ s.saw \in 0 .. MaxVersion /\ s.saw < MaxVersion
        /\ s.stage = "copied" => /\ s.parts \subseteq parts /\ s.work \subseteq Operation
                                 /\ ~s.bill => s.parts = {}
                                 /\ ~s.route => s.work = {}
        /\ s.stage = "stored" => s.key \in DOMAIN objects /\ s.sum \in Content

NoVersionYet == \A p \in Product : current[p] = 0 => versions[p] = <<>>

VersionsIInv ==
    /\ StructureTypeOK
    /\ EditingOK
    /\ NoVersionYet
    /\ OneCurrentUnlessOvertaken
    /\ EffectiveHasVersion
    /\ AttachmentIsStored

-----------------------------------------------------------------------------
LEMMA OneRow ==
    ASSUME NEW row
    PROVE  /\ DOMAIN <<row>> = {1} /\ <<row>>[1] = row
           /\ row \in VersionRow => <<row>> \in Seq(VersionRow)
  OBVIOUS

LEMMA NoRows == DOMAIN <<>> = {} /\ <<>> \in Seq(VersionRow)
  OBVIOUS

ClearedRows(old, rows) ==
    [k \in DOMAIN old |-> IF k \in rows THEN [old[k] EXCEPT !.current = FALSE] ELSE old[k]]

\* The rows of a product after a version has been made, and before: row is new,
\* and what was stale is no longer current.
MadeFrom(new, old, stale, row) ==
    /\ new \in Seq(VersionRow)
    /\ \E n \in Nat :
          /\ DOMAIN old = 1 .. n /\ DOMAIN new = 1 .. n + 1 /\ new[n + 1] = row
          /\ \A k \in 1 .. n : /\ new[k].cause = old[k].cause
                               /\ new[k].number = old[k].number
                               /\ new[k].current => old[k].current /\ k \notin stale

LEMMA VersionAppended ==
    ASSUME NEW old \in Seq(VersionRow), NEW stale, NEW row \in VersionRow
    PROVE  MadeFrom(Append(ClearedRows(old, stale), row), old, stale, row)
  <1>7. PICK new : new = Append(ClearedRows(old, stale), row)
    OBVIOUS
  <1>0. PICK c : c = ClearedRows(old, stale)
    OBVIOUS
  <1>1. PICK n \in Nat : n = Len(old) /\ DOMAIN old = 1 .. n
    BY LenProperties
  <1>2. \A k \in 1 .. n : old[k] \in VersionRow
    BY <1>1, ElementOfSeq
  <1>3. \A k \in 1 .. n : /\ c[k] \in VersionRow
                          /\ c[k].cause = old[k].cause
                          /\ c[k].number = old[k].number
                          /\ c[k].current => old[k].current /\ k \notin stale
    <2> SUFFICES ASSUME NEW k \in 1 .. n
                 PROVE  /\ c[k] \in VersionRow
                        /\ c[k].cause = old[k].cause
                        /\ c[k].number = old[k].number
                        /\ c[k].current => old[k].current /\ k \notin stale
      OBVIOUS
    <2>1. CASE k \in stale
      <3>1. c[k] = [old[k] EXCEPT !.current = FALSE] /\ old[k] \in VersionRow
        BY <1>0, <1>1, <1>2, <2>1 DEF ClearedRows
      <3>2. /\ c[k] \in VersionRow
            /\ c[k].cause = old[k].cause
            /\ c[k].number = old[k].number
            /\ c[k].current = FALSE
        BY <3>1 DEF VersionRow
      <3> QED BY <3>2
    <2>2. CASE k \notin stale
      BY <1>0, <1>1, <1>2, <2>2 DEF ClearedRows
    <2> QED BY <2>1, <2>2
  <1>4. c \in Seq(VersionRow) /\ Len(c) = n /\ DOMAIN c = 1 .. n
    <2>1. c = [k \in 1 .. n |-> c[k]]
      BY <1>0, <1>1 DEF ClearedRows
    <2>2. \A k \in 1 .. n : c[k] \in VersionRow
      BY <1>3
    <2>3. c \in [1 .. n -> VersionRow]
      BY <2>1, <2>2
    <2> QED BY <2>3, SeqDef, LenProperties
  <1>5. /\ new \in Seq(VersionRow) /\ Len(new) = n + 1
        /\ \A k \in 1 .. n : new[k] = c[k]
        /\ new[n + 1] = row
    BY <1>7, <1>0, <1>4, AppendProperties
  <1>6. DOMAIN new = 1 .. n + 1
    BY <1>5, LenProperties
  <1> QED BY <1>7, <1>1, <1>3, <1>5, <1>6 DEF MadeFrom

LEMMA StructureInitHolds == StructureInit => VersionsIInv
  <1> SUFFICES ASSUME StructureInit PROVE VersionsIInv
    OBVIOUS
  <1> USE DEF StructureInit
  <1>1. StructureTypeOK
    <2>1. current \in [Product -> 0 .. MaxVersion] /\ newest \in [Product -> 0 .. MaxVersion]
      BY VersionAssumption
    <2>2. versions \in [Product -> Seq(VersionRow)]
      BY NoRows
    <2>3. ecn \in [Ecn -> EcnStatus] /\ crossed \in BOOLEAN
      BY DEF EcnStatus
    <2> QED BY <2>1, <2>2, <2>3, FS_EmptySet DEF StructureTypeOK
  <1>2. EditingOK /\ NoVersionYet /\ AttachmentIsStored
    BY DEF EditingOK, NoVersionYet, AttachmentIsStored
  <1>3. OneCurrentUnlessOvertaken /\ EffectiveHasVersion
    BY DEF OneCurrentUnlessOvertaken, EffectiveHasVersion
  <1> QED BY <1>1, <1>2, <1>3 DEF VersionsIInv

\* Where nothing is written, a session may go on with what it had.
LEMMA SessionGoesOn ==
    ASSUME VersionsIInv, UNCHANGED <<structureTables, crossed, overtaken>>,
           \A t \in editing' :
              \/ t \in editing
              \/ /\ t.stage = "adding" => t.bill \in boms /\ t.part \in Product /\ t.item \in Item
                 /\ t.stage = "moving" => /\ t.ecn \in Ecn /\ t.to \in EcnStatus
                                          /\ t.saw \in 0 .. MaxVersion
                                          /\ t.to = "effective" => t.saw < MaxVersion
                 /\ t.stage \in Making => /\ t.product \in Product /\ t.cause \in {"request"} \union Ecn
                                          /\ t.cause \in Ecn => t.product = EcnProduct(t.cause)
                                          /\ t.saw \in 0 .. MaxVersion /\ t.saw < MaxVersion
                 /\ t.stage = "copied" => /\ t.parts \subseteq parts /\ t.work \subseteq Operation
                                          /\ ~t.bill => t.parts = {}
                                          /\ ~t.route => t.work = {}
                 /\ t.stage # "stored"
    PROVE  VersionsIInv'
  <1> USE DEF structureTables
  <1>1. EditingOK'
    BY DEF VersionsIInv, EditingOK
  <1>2. StructureTypeOK' /\ NoVersionYet' /\ AttachmentIsStored'
    BY DEF VersionsIInv, StructureTypeOK, NoVersionYet, AttachmentIsStored
  <1>3. OneCurrentUnlessOvertaken' /\ EffectiveHasVersion'
    BY DEF VersionsIInv, OneCurrentUnlessOvertaken, EffectiveHasVersion, Current
  <1> QED BY <1>1, <1>2, <1>3 DEF VersionsIInv

\* Rows that say nothing about versions come in.
LEMMA VersionsStay ==
    ASSUME VersionsIInv, UNCHANGED <<current, versions, overtaken, objects, files>>,
           boms \subseteq boms', parts \subseteq parts', editing' \subseteq editing,
           \A e \in Ecn : ecn'[e] = "effective" => ecn[e] = "effective"
    PROVE  /\ EditingOK' /\ NoVersionYet' /\ AttachmentIsStored'
           /\ OneCurrentUnlessOvertaken' /\ EffectiveHasVersion'
  <1>1. EditingOK'
    BY DEF VersionsIInv, EditingOK
  <1>2. NoVersionYet' /\ AttachmentIsStored'
    BY DEF VersionsIInv, NoVersionYet, AttachmentIsStored
  <1>3. OneCurrentUnlessOvertaken' /\ EffectiveHasVersion'
    BY DEF VersionsIInv, OneCurrentUnlessOvertaken, EffectiveHasVersion, Current
  <1> QED BY <1>1, <1>2, <1>3

LEMMA CreateProductKeeps ==
    ASSUME VersionsIInv, NEW p \in Product, CreateProduct(p)
    PROVE  VersionsIInv'
  <1>1. PICK row : row = [number |-> 1, current |-> TRUE, cause |-> "initial"]
    OBVIOUS
  <1>2. PICK rows : rows = <<row>> /\ DOMAIN rows = {1} /\ rows[1] = row
    BY OneRow
  <1>3. current \in [Product -> 0 .. MaxVersion] /\ versions \in [Product -> Seq(VersionRow)]
    BY DEF VersionsIInv, StructureTypeOK
  <1>4. /\ current' = [current EXCEPT ![p] = 1] /\ versions' = [versions EXCEPT ![p] = rows]
        /\ current[p] = 0
        /\ UNCHANGED <<boms, newest, parts, routings, work, ecn, objects, files,
                       editing, crossed, overtaken>>
    BY <1>1, <1>2 DEF CreateProduct
  <1>5. StructureTypeOK'
    <2>1. rows \in Seq(VersionRow) /\ 1 \in 0 .. MaxVersion
      BY <1>1, <1>2, OneRow, VersionAssumption DEF VersionRow
    <2> QED BY <1>3, <1>4, <2>1 DEF VersionsIInv, StructureTypeOK
  <1>6. EditingOK' /\ NoVersionYet' /\ AttachmentIsStored'
    BY <1>3, <1>4 DEF VersionsIInv, EditingOK, NoVersionYet, AttachmentIsStored
  <1>7. OneCurrentUnlessOvertaken'
    <2> SUFFICES ASSUME NEW q \in Product \ overtaken, current'[q] > 0
                 PROVE  \E k \in DOMAIN versions'[q] :
                            Current(q)' = {k} /\ versions'[q][k].number = current'[q]
      BY <1>4 DEF OneCurrentUnlessOvertaken
    <2>1. CASE q = p
      <3>1. versions'[q] = rows /\ current'[q] = 1
        BY <1>3, <1>4, <2>1
      <3>2. Current(q)' = {1}
        BY <1>1, <1>2, <3>1 DEF Current
      <3> QED BY <1>1, <1>2, <3>1, <3>2
    <2>2. CASE q # p
      <3>1. versions'[q] = versions[q] /\ current'[q] = current[q]
        BY <1>3, <1>4, <2>2
      <3> QED BY <3>1 DEF VersionsIInv, OneCurrentUnlessOvertaken, Current
    <2> QED BY <2>1, <2>2
  <1>8. EffectiveHasVersion'
    <2> SUFFICES ASSUME NEW e \in Ecn, ecn[e] = "effective"
                 PROVE  \E k \in DOMAIN versions'[EcnProduct(e)] :
                            versions'[EcnProduct(e)][k].cause = e
      BY <1>4 DEF EffectiveHasVersion
    <2>1. PICK k \in DOMAIN versions[EcnProduct(e)] : versions[EcnProduct(e)][k].cause = e
      BY DEF VersionsIInv, EffectiveHasVersion
    <2>2. EcnProduct(e) # p
      BY <1>4, <2>1, NoRows DEF VersionsIInv, NoVersionYet
    <2>3. versions'[EcnProduct(e)] = versions[EcnProduct(e)]
      BY <1>3, <1>4, <2>2, EcnAssumption
    <2> QED BY <2>1, <2>3
  <1> QED BY <1>5, <1>6, <1>7, <1>8 DEF VersionsIInv

\* Whichever bill is the latest, it is one of a version.
LEMMA LatestIsVersion ==
    ASSUME StructureTypeOK, NEW b, b[1] \in Product, b[2] \in 0 .. MaxVersion,
           NEW n, n \in Latest(b)
    PROVE  n \in [Product -> 0 .. MaxVersion]
  BY DEF StructureTypeOK, Latest

LEMMA CreateBomKeeps ==
    ASSUME VersionsIInv, NEW b \in Bill, CreateBom(b)
    PROVE  VersionsIInv'
  <1>1. b[1] \in Product /\ b[2] \in 0 .. MaxVersion
    BY VersionAssumption DEF Bill
  <1>2. newest' \in [Product -> 0 .. MaxVersion]
    BY <1>1, LatestIsVersion DEF VersionsIInv, CreateBom
  <1>3. parts' = parts /\ boms \subseteq boms'
    BY DEF CreateBom
  <1>4. parts' \subseteq [bill : boms', no : Nat, part : Product, quantity : Nat \ {0},
                         cost : Nat \union {Unknown}]
    BY <1>3 DEF VersionsIInv, StructureTypeOK
  <1>5. StructureTypeOK'
    BY <1>2, <1>4 DEF VersionsIInv, StructureTypeOK, CreateBom
  <1> QED BY <1>5, VersionsStay DEF VersionsIInv, CreateBom

LEMMA CreateRoutingKeeps ==
    ASSUME VersionsIInv, NEW b \in Bill, CreateRouting(b)
    PROVE  VersionsIInv'
  <1>1. StructureTypeOK'
    BY DEF VersionsIInv, StructureTypeOK, CreateRouting
  <1> QED BY <1>1, VersionsStay DEF VersionsIInv, CreateRouting

LEMMA AddOperationKeeps ==
    ASSUME VersionsIInv, NEW b \in Bill, NEW o \in Operation, AddOperation(b, o)
    PROVE  VersionsIInv'
  <1>1. StructureTypeOK'
    BY DEF VersionsIInv, StructureTypeOK, AddOperation
  <1> QED BY <1>1, VersionsStay DEF VersionsIInv, AddOperation

LEMMA CreateEcnKeeps ==
    ASSUME VersionsIInv, NEW e \in Ecn, CreateEcn(e)
    PROVE  VersionsIInv'
  <1>1. DOMAIN ECN_TRANSITIONS = {"draft", "reviewing", "approved", "released", "effective"}
    BY DEF ECN_TRANSITIONS
  <1>2. ecn' \in [Ecn -> EcnStatus] /\ \A f \in Ecn : ecn'[f] = "effective" => ecn[f] = "effective"
    BY <1>1 DEF VersionsIInv, StructureTypeOK, CreateEcn, EcnStatus
  <1>3. StructureTypeOK'
    BY <1>2 DEF VersionsIInv, StructureTypeOK, CreateEcn
  <1> QED BY <1>2, <1>3, VersionsStay DEF VersionsIInv, CreateEcn

LEMMA BeginAddPartKeeps ==
    ASSUME VersionsIInv, NEW r \in PlmReq, NEW b \in Bill, NEW c \in Product, NEW i \in Item,
           BeginAddPart(r, b, c, i)
    PROVE  VersionsIInv'
  <1>1. PICK t : t = [by |-> r, stage |-> "adding", bill |-> b, part |-> c, item |-> i,
                      edges |-> Edges]
    OBVIOUS
  <1>2. t.stage = "adding" /\ t.bill = b /\ t.part = c /\ t.item = i
    BY <1>1
  <1>3. /\ editing' = editing \union {t} /\ b \in boms
        /\ UNCHANGED <<structureTables, crossed, overtaken>>
    BY <1>1 DEF BeginAddPart, Opens
  <1> QED BY <1>2, <1>3, SessionGoesOn DEF Making

\* The line a session adds.
Added(s, n) == [bill |-> s.bill, no |-> n, part |-> s.part,
                quantity |-> s.item.quantity, cost |-> s.item.cost]

LEMMA CommitAddPartKeeps ==
    ASSUME VersionsIInv, NEW s \in editing, CommitAddPart(s)
    PROVE  VersionsIInv'
  <1>1. s.bill \in boms /\ s.part \in Product /\ s.item \in Item
    BY DEF VersionsIInv, EditingOK, CommitAddPart
  <1>2. crossed' \in BOOLEAN
    BY DEF VersionsIInv, StructureTypeOK, CommitAddPart
  <1>3. PICK n \in Nat : n = NextNo(s.bill)
    <2>3. PICK k : k = Cardinality({y \in parts : y.bill = s.bill}) /\ NextNo(s.bill) = k + 1
      BY DEF NextNo
    <2>1. {y \in parts : y.bill = s.bill} \subseteq parts /\ IsFiniteSet(parts)
      BY DEF VersionsIInv, StructureTypeOK
    <2>2. Cardinality({y \in parts : y.bill = s.bill}) \in Nat
      BY <2>1, FS_Subset, FS_CardinalityType
    <2>4. k + 1 \in Nat
      BY <2>2, <2>3
    <2> QED BY <2>3, <2>4
  <1>4. PICK i \in Item : i = s.item
    BY <1>1
  <1>5. i.quantity \in Nat \ {0} /\ i.cost \in Nat \union {Unknown}
    BY ItemAssumption
  <1>6. PICK y : y = Added(s, n)
    OBVIOUS
  <1>7. y \in [bill : boms, no : Nat, part : Product, quantity : Nat \ {0},
               cost : Nat \union {Unknown}]
    BY <1>1, <1>4, <1>5, <1>6 DEF Added
  <1>8. parts' = parts \union {y}
    BY <1>3, <1>6 DEF CommitAddPart, Added
  <1>9. IsFiniteSet(parts')
    BY <1>8, FS_AddElement DEF VersionsIInv, StructureTypeOK
  <1>10. /\ editing' \subseteq editing
         /\ UNCHANGED <<current, versions, boms, newest, routings, work, ecn, objects, files, overtaken>>
    BY DEF CommitAddPart
  <1>11. StructureTypeOK'
    BY <1>2, <1>7, <1>8, <1>9, <1>10 DEF VersionsIInv, StructureTypeOK
  <1>12. parts \subseteq parts'
    BY <1>8
  <1> QED BY <1>10, <1>11, <1>12, VersionsStay DEF VersionsIInv

LEMMA BeginEcnKeeps ==
    ASSUME VersionsIInv, NEW r \in PlmReq, NEW e \in Ecn, NEW to \in EcnStatus, BeginEcn(r, e, to)
    PROVE  VersionsIInv'
  <1>1. PICK t : t = [by |-> r, stage |-> "moving", ecn |-> e, to |-> to,
                      saw |-> current[EcnProduct(e)]]
    OBVIOUS
  <1>2. t.stage = "moving" /\ t.ecn = e /\ t.to = to /\ t.saw = current[EcnProduct(e)]
    BY <1>1
  <1>3. /\ editing' = editing \union {t} /\ (to = "effective" => current[EcnProduct(e)] < MaxVersion)
        /\ UNCHANGED <<structureTables, crossed, overtaken>>
    BY <1>1 DEF BeginEcn, Opens
  <1>4. current[EcnProduct(e)] \in 0 .. MaxVersion
    BY EcnAssumption DEF VersionsIInv, StructureTypeOK
  <1> QED BY <1>2, <1>3, <1>4, SessionGoesOn DEF Making

LEMMA CommitEcnKeeps ==
    ASSUME VersionsIInv, NEW s \in editing, CommitEcn(s)
    PROVE  VersionsIInv'
  <1>1. s.ecn \in Ecn /\ s.to \in EcnStatus /\ s.to # "effective"
    BY DEF VersionsIInv, EditingOK, CommitEcn
  <1>2. ecn' \in [Ecn -> EcnStatus] /\ \A f \in Ecn : ecn'[f] = "effective" => ecn[f] = "effective"
    BY <1>1 DEF VersionsIInv, StructureTypeOK, CommitEcn
  <1>3. StructureTypeOK'
    BY <1>2 DEF VersionsIInv, StructureTypeOK, CommitEcn
  <1> QED BY <1>2, <1>3, VersionsStay DEF VersionsIInv, CommitEcn

LEMMA ApplyEcnKeeps ==
    ASSUME VersionsIInv, NEW s \in editing, ApplyEcn(s)
    PROVE  VersionsIInv'
  <1>1. PICK t : t = [by |-> s.by, stage |-> "begun", product |-> EcnProduct(s.ecn),
                      cause |-> s.ecn, saw |-> s.saw]
    OBVIOUS
  <1>2. t.stage = "begun" /\ t.product = EcnProduct(s.ecn) /\ t.cause = s.ecn /\ t.saw = s.saw
    BY <1>1
  <1>3. /\ editing' = (editing \ {s}) \union {t} /\ s.stage = "moving" /\ s.to = "effective"
        /\ UNCHANGED <<structureTables, crossed, overtaken>>
    BY <1>1 DEF ApplyEcn, Goes
  <1>4. s.ecn \in Ecn /\ s.saw \in 0 .. MaxVersion /\ s.saw < MaxVersion
    BY <1>3 DEF VersionsIInv, EditingOK
  <1> QED BY <1>2, <1>3, <1>4, EcnAssumption, SessionGoesOn DEF Making

LEMMA BeginVersionKeeps ==
    ASSUME VersionsIInv, NEW r \in PlmReq, NEW p \in Product, BeginVersion(r, p)
    PROVE  VersionsIInv'
  <1>1. PICK t : t = [by |-> r, stage |-> "begun", product |-> p, cause |-> "request",
                      saw |-> current[p]]
    OBVIOUS
  <1>2. t.stage = "begun" /\ t.product = p /\ t.cause = "request" /\ t.saw = current[p]
    BY <1>1
  <1>3. /\ editing' = editing \union {t} /\ current[p] \in 1 .. MaxVersion - 1
        /\ UNCHANGED <<structureTables, crossed, overtaken>>
    BY <1>1 DEF BeginVersion, Opens
  <1>4. "request" \notin Ecn /\ current[p] \in 0 .. MaxVersion /\ current[p] < MaxVersion
    BY <1>3, EcnAssumption, VersionAssumption
  <1> QED BY <1>2, <1>3, <1>4, SessionGoesOn DEF Making

LEMMA ClearCurrentKeeps ==
    ASSUME VersionsIInv, NEW s \in editing, ClearCurrent(s)
    PROVE  VersionsIInv'
  <1>1. PICK t : t = [by |-> s.by, stage |-> "clearing", product |-> s.product, cause |-> s.cause,
                      saw |-> s.saw, rows |-> Current(s.product)]
    OBVIOUS
  <1>2. t.stage = "clearing" /\ t.product = s.product /\ t.cause = s.cause /\ t.saw = s.saw
    BY <1>1
  <1>3. /\ editing' = (editing \ {s}) \union {t} /\ s.stage \in Making
        /\ UNCHANGED <<structureTables, crossed, overtaken>>
    BY <1>1 DEF ClearCurrent, Goes, Making
  <1>4. /\ s.product \in Product /\ s.cause \in {"request"} \union Ecn
        /\ s.cause \in Ecn => s.product = EcnProduct(s.cause)
        /\ s.saw \in 0 .. MaxVersion /\ s.saw < MaxVersion
    BY <1>3 DEF VersionsIInv, EditingOK
  <1> QED BY <1>2, <1>3, <1>4, SessionGoesOn DEF Making

LEMMA CopyKeeps ==
    ASSUME VersionsIInv, NEW s \in editing, Copy(s)
    PROVE  VersionsIInv'
  <1>1. PICK old : old = <<s.product, s.saw>>
    OBVIOUS
  <1>2. PICK t : t = [by |-> s.by, stage |-> "copied", product |-> s.product, cause |-> s.cause,
                      saw |-> s.saw, rows |-> s.rows, bill |-> (old \in boms),
                      route |-> (old \in routings),
                      parts |-> CopiedParts(old), work |-> CopiedWork(old)]
    OBVIOUS
  <1>3. t.stage = "copied" /\ t.product = s.product /\ t.cause = s.cause /\ t.saw = s.saw
    BY <1>2
  <1>4. /\ t.bill <=> old \in boms
        /\ t.route <=> old \in routings
        /\ t.parts = CopiedParts(old) /\ t.work = CopiedWork(old)
    <2>1. t.parts = CopiedParts(old) /\ t.work = CopiedWork(old)
      BY <1>2
    <2>2. t.bill = (old \in boms) /\ t.route = (old \in routings)
      BY <1>2
    <2>3. (t.bill <=> old \in boms) /\ (t.route <=> old \in routings)
      BY <2>2, Zenon
    <2> QED BY <2>1, <2>3
  <1>5. /\ editing' = (editing \ {s}) \union {t} /\ s.stage \in Making
        /\ UNCHANGED <<structureTables, crossed, overtaken>>
    BY <1>1, <1>2 DEF Copy, Goes, Making
  <1>6. /\ s.product \in Product /\ s.cause \in {"request"} \union Ecn
        /\ s.cause \in Ecn => s.product = EcnProduct(s.cause)
        /\ s.saw \in 0 .. MaxVersion /\ s.saw < MaxVersion
    BY <1>5 DEF VersionsIInv, EditingOK
  <1>7. /\ CopiedParts(old) \subseteq parts /\ CopiedWork(old) \subseteq Operation
        /\ old \notin boms => CopiedParts(old) = {}
        /\ old \notin routings => CopiedWork(old) = {}
    BY DEF VersionsIInv, StructureTypeOK, CopiedParts, CopiedWork
  <1>8. /\ t.parts \subseteq parts /\ t.work \subseteq Operation
        /\ ~t.bill => t.parts = {}
        /\ ~t.route => t.work = {}
    BY <1>4, <1>7
  <1> QED BY <1>3, <1>5, <1>6, <1>8, SessionGoesOn DEF Making

LEMMA CommitVersionKeeps ==
    ASSUME VersionsIInv, NEW s \in editing, CommitVersion(s)
    PROVE  VersionsIInv'
  <1>1. /\ s.product \in Product /\ s.cause \in {"request"} \union Ecn
        /\ s.cause \in Ecn => s.product = EcnProduct(s.cause)
        /\ s.saw \in 0 .. MaxVersion /\ s.saw < MaxVersion
        /\ s.parts \subseteq parts /\ s.work \subseteq Operation
        /\ ~s.bill => s.parts = {}
        /\ ~s.route => s.work = {}
    BY DEF VersionsIInv, EditingOK, CommitVersion, Making
  <1>2. PICK p \in Product : p = s.product
    BY <1>1
  <1>3. PICK next \in 1 .. MaxVersion : next = s.saw + 1
    BY <1>1, VersionAssumption
  <1>4. PICK row : row = [number |-> next, current |-> TRUE, cause |-> s.cause]
    OBVIOUS
  <1>5. row \in VersionRow
    BY <1>1, <1>4 DEF VersionRow
  <1>6. PICK rows : rows = Append(Cleared(s), row)
    OBVIOUS
  <1>7. current \in [Product -> 0 .. MaxVersion] /\ versions \in [Product -> Seq(VersionRow)]
    BY DEF VersionsIInv, StructureTypeOK
  <1>8. MadeFrom(rows, versions[p], s.rows, row)
    <2>1. versions[p] \in Seq(VersionRow)
      BY <1>7
    <2>2. Cleared(s) = ClearedRows(versions[p], s.rows)
      BY <1>2 DEF Cleared, ClearedRows
    <2> QED BY <1>5, <1>6, <2>1, <2>2, VersionAppended
  <1>9. /\ versions' = [versions EXCEPT ![p] = rows] /\ current' = [current EXCEPT ![p] = next]
        /\ UNCHANGED <<objects, files, crossed>> /\ editing' = editing \ {s}
    BY <1>2, <1>3, <1>4, <1>6 DEF CommitVersion
  <1>10. /\ boms' = IF s.bill THEN boms \union {<<p, next>>} ELSE boms
         /\ IF s.bill THEN newest' \in Latest(<<p, next>>) ELSE newest' = newest
         /\ parts' = parts \union {[y EXCEPT !.bill = <<p, next>>] : y \in s.parts}
         /\ routings' = IF s.route THEN routings \union {<<p, next>>} ELSE routings
         /\ work' = work \union {<<<<p, next>>, o>> : o \in s.work}
    BY <1>2, <1>3 DEF CommitVersion
  <1>11. /\ ecn' = IF s.cause \in Ecn THEN [ecn EXCEPT ![s.cause] = "effective"] ELSE ecn
         /\ overtaken' = IF current[p] = s.saw /\ s.rows = Current(p)
                         THEN overtaken ELSE overtaken \union {p}
    BY <1>2 DEF CommitVersion
  <1>12. StructureTypeOK'
    <2>1. versions' \in [Product -> Seq(VersionRow)] /\ current' \in [Product -> 0 .. MaxVersion]
      BY <1>7, <1>8, <1>9, VersionAssumption DEF MadeFrom
    <2>2. newest' \in [Product -> 0 .. MaxVersion]
      <3>1. CASE s.bill
        <4>1. PICK b : b = <<p, next>>
          OBVIOUS
        <4>2. b[1] = p /\ b[2] = next /\ next \in 0 .. MaxVersion
          BY <4>1, VersionAssumption
        <4> QED BY <1>10, <3>1, <4>1, <4>2, LatestIsVersion DEF VersionsIInv
      <3>2. CASE ~s.bill
        BY <1>10, <3>2 DEF VersionsIInv, StructureTypeOK
      <3> QED BY <3>1, <3>2
    <2>3. boms' \subseteq Bill /\ routings' \subseteq Bill
      BY <1>1, <1>10 DEF VersionsIInv, StructureTypeOK, Bill
    <2>4. /\ IsFiniteSet(parts')
          /\ parts' \subseteq [bill : boms', no : Nat, part : Product, quantity : Nat \ {0},
                              cost : Nat \union {Unknown}]
      <3>1. PICK new : new = {[y EXCEPT !.bill = <<p, next>>] : y \in s.parts}
        OBVIOUS
      <3>2. parts' = parts \union new
        BY <1>10, <3>1
      <3>3. IsFiniteSet(new)
        <4>1. IsFiniteSet(s.parts)
          BY <1>1, FS_Subset DEF VersionsIInv, StructureTypeOK
        <4> DEFINE f == [y \in s.parts |-> [y EXCEPT !.bill = <<p, next>>]]
        <4>2. f \in Surjection(s.parts, new)
          BY <3>1 DEF Surjection
        <4> HIDE DEF f
        <4> QED BY <4>1, <4>2, FS_Surjection
      <3>4. ASSUME NEW x \in new
            PROVE  x \in [bill : boms', no : Nat, part : Product, quantity : Nat \ {0},
                          cost : Nat \union {Unknown}]
        <4>1. PICK y \in s.parts : x = [y EXCEPT !.bill = <<p, next>>]
          BY <3>1
        <4>2. y \in [bill : boms, no : Nat, part : Product, quantity : Nat \ {0},
                     cost : Nat \union {Unknown}]
          BY <1>1 DEF VersionsIInv, StructureTypeOK
        <4>3. <<p, next>> \in boms'
          <5>1. s.bill
            BY <1>1
          <5> QED BY <1>10, <5>1
        <4> QED BY <4>1, <4>2, <4>3
      <3>5. boms \subseteq boms'
        BY <1>10
      <3>6. IsFiniteSet(parts')
        BY <3>2, <3>3, FS_Union DEF VersionsIInv, StructureTypeOK
      <3>7. ASSUME NEW x \in parts
            PROVE  x \in [bill : boms', no : Nat, part : Product, quantity : Nat \ {0},
                          cost : Nat \union {Unknown}]
        BY <3>5 DEF VersionsIInv, StructureTypeOK
      <3> QED BY <3>2, <3>4, <3>6, <3>7
    <2>5. work' \subseteq routings' \X Operation
      BY <1>1, <1>10 DEF VersionsIInv, StructureTypeOK
    <2>6. "effective" \in EcnStatus
      BY DEF EcnStatus, ECN_TRANSITIONS
    <2>7. ecn' \in [Ecn -> EcnStatus]
      BY <1>11, <2>6 DEF VersionsIInv, StructureTypeOK
    <2>8. overtaken' \subseteq Product
      BY <1>11 DEF VersionsIInv, StructureTypeOK
    <2>9. crossed' \in BOOLEAN /\ \A a \in files' : a[2] \in Content
      BY <1>9 DEF VersionsIInv, StructureTypeOK
    <2> QED BY <2>1, <2>2, <2>3, <2>4, <2>5, <2>7, <2>8, <2>9 DEF StructureTypeOK
  <1>13. EditingOK'
    <2>1. boms \subseteq boms' /\ parts \subseteq parts'
      BY <1>1, <1>10
    <2> QED BY <1>9, <2>1 DEF VersionsIInv, EditingOK
  <1>14. NoVersionYet' /\ AttachmentIsStored'
    BY <1>7, <1>9 DEF VersionsIInv, NoVersionYet, AttachmentIsStored
  <1>15. OneCurrentUnlessOvertaken'
    <2> SUFFICES ASSUME NEW q \in Product \ overtaken', current'[q] > 0
                 PROVE  \E k \in DOMAIN versions'[q] :
                            Current(q)' = {k} /\ versions'[q][k].number = current'[q]
      BY DEF OneCurrentUnlessOvertaken
    <2>1. CASE q = p
      <3>1. s.rows = Current(p)
        BY <1>11, <2>1
      <3>2. PICK n \in Nat :
              /\ DOMAIN versions[p] = 1 .. n /\ DOMAIN rows = 1 .. n + 1 /\ rows[n + 1] = row
              /\ \A k \in 1 .. n : rows[k].current => versions[p][k].current /\ k \notin s.rows
        BY <1>8 DEF MadeFrom
      <3>3. versions'[q] = rows /\ current'[q] = next
        BY <1>7, <1>9, <2>1
      <3>4. \A k \in 1 .. n : ~ rows[k].current
        BY <3>1, <3>2 DEF Current
      <3>5. Current(q)' = {n + 1}
        <4>1. Current(q)' = {k \in 1 .. n + 1 : rows[k].current}
          BY <3>2, <3>3 DEF Current
        <4>2. \A k \in 1 .. n + 1 : k = n + 1 \/ k \in 1 .. n
          OBVIOUS
        <4>3. rows[n + 1].current
          BY <1>4, <3>2
        <4>4. n + 1 \in 1 .. n + 1
          OBVIOUS
        <4> QED BY <3>4, <4>1, <4>2, <4>3, <4>4
      <3>6. n + 1 \in DOMAIN versions'[q] /\ versions'[q][n + 1].number = current'[q]
        BY <1>4, <3>2, <3>3
      <3> QED BY <3>5, <3>6
    <2>2. CASE q # p
      <3>1. versions'[q] = versions[q] /\ current'[q] = current[q] /\ q \notin overtaken
        BY <1>7, <1>9, <1>11, <2>2
      <3> QED BY <3>1 DEF VersionsIInv, OneCurrentUnlessOvertaken, Current
    <2> QED BY <2>1, <2>2
  <1>16. EffectiveHasVersion'
    <2> SUFFICES ASSUME NEW e \in Ecn, ecn'[e] = "effective"
                 PROVE  \E k \in DOMAIN versions'[EcnProduct(e)] :
                            versions'[EcnProduct(e)][k].cause = e
      BY DEF EffectiveHasVersion
    <2>1. PICK n \in Nat :
             /\ DOMAIN versions[p] = 1 .. n /\ DOMAIN rows = 1 .. n + 1 /\ rows[n + 1] = row
             /\ \A k \in 1 .. n : rows[k].cause = versions[p][k].cause
      BY <1>8 DEF MadeFrom
    <2>2. CASE s.cause = e
      <3>1. EcnProduct(e) = p /\ versions'[p] = rows
        BY <1>1, <1>2, <1>7, <1>9, <2>2
      <3>2. n + 1 \in DOMAIN rows /\ rows[n + 1].cause = e
        BY <1>4, <2>1, <2>2
      <3> QED BY <3>1, <3>2
    <2>3. CASE s.cause # e
      <3>1. ecn[e] = "effective"
        BY <1>11, <2>3 DEF VersionsIInv, StructureTypeOK
      <3>2. PICK k \in DOMAIN versions[EcnProduct(e)] : versions[EcnProduct(e)][k].cause = e
        BY <3>1 DEF VersionsIInv, EffectiveHasVersion
      <3>3. CASE EcnProduct(e) = p
        <4>1. versions'[p] = rows /\ k \in 1 .. n /\ k \in 1 .. n + 1
          BY <1>7, <1>9, <2>1, <3>2, <3>3
        <4> QED BY <2>1, <3>2, <3>3, <4>1
      <3>4. CASE EcnProduct(e) # p
        BY <1>7, <1>9, <3>2, <3>4, EcnAssumption
      <3> QED BY <3>3, <3>4
    <2> QED BY <2>2, <2>3
  <1> QED BY <1>12, <1>13, <1>14, <1>15, <1>16 DEF VersionsIInv

LEMMA BeginUploadKeeps ==
    ASSUME VersionsIInv, NEW r \in PlmReq, NEW p \in Product, NEW f \in File, NEW x \in Content,
           BeginUpload(r, p, f, x)
    PROVE  VersionsIInv'
  <1>1. PICK key : key = <<p, current[p], f>>
    OBVIOUS
  <1>2. PICK t : t = [by |-> r, stage |-> "stored", key |-> key, sum |-> x]
    OBVIOUS
  <1>3. t.stage = "stored" /\ t.key = key /\ t.sum = x
    BY <1>2
  <1>4. /\ objects' = Stored(key, x) /\ editing' = editing \union {t}
        /\ UNCHANGED <<current, versions, boms, newest, parts, routings, work, ecn, files,
                       crossed, overtaken>>
    BY <1>1, <1>2 DEF BeginUpload, Opens
  <1>5. DOMAIN objects' = DOMAIN objects \union {key}
    BY <1>4 DEF Stored
  <1>6. EditingOK'
    BY <1>3, <1>4, <1>5 DEF VersionsIInv, EditingOK, Making
  <1>7. StructureTypeOK' /\ NoVersionYet' /\ AttachmentIsStored'
    BY <1>4, <1>5 DEF VersionsIInv, StructureTypeOK, NoVersionYet, AttachmentIsStored
  <1>8. OneCurrentUnlessOvertaken' /\ EffectiveHasVersion'
    BY <1>4 DEF VersionsIInv, OneCurrentUnlessOvertaken, EffectiveHasVersion, Current
  <1> QED BY <1>6, <1>7, <1>8 DEF VersionsIInv

LEMMA CommitUploadKeeps ==
    ASSUME VersionsIInv, NEW s \in editing, CommitUpload(s)
    PROVE  VersionsIInv'
  <1>1. s.key \in DOMAIN objects /\ s.sum \in Content
    BY DEF VersionsIInv, EditingOK, CommitUpload
  <1>2. /\ files' = files \union {<<s.key, s.sum>>} /\ editing' = editing \ {s}
        /\ UNCHANGED <<current, versions, boms, newest, parts, routings, work, ecn, objects,
                       crossed, overtaken>>
    BY DEF CommitUpload
  <1>3. EditingOK' /\ NoVersionYet' /\ AttachmentIsStored'
    BY <1>1, <1>2 DEF VersionsIInv, EditingOK, NoVersionYet, AttachmentIsStored
  <1>4. StructureTypeOK'
    BY <1>1, <1>2 DEF VersionsIInv, StructureTypeOK
  <1>5. OneCurrentUnlessOvertaken' /\ EffectiveHasVersion'
    BY <1>2 DEF VersionsIInv, OneCurrentUnlessOvertaken, EffectiveHasVersion, Current
  <1> QED BY <1>3, <1>4, <1>5 DEF VersionsIInv

LEMMA StructureNextKeeps == ASSUME VersionsIInv, [StructureNext]_structureVars PROVE VersionsIInv'
  <1>1. ASSUME NEW p \in Product, CreateProduct(p) PROVE VersionsIInv'
    BY <1>1, CreateProductKeeps
  <1>2. ASSUME NEW b \in Bill, CreateBom(b) PROVE VersionsIInv'
    BY <1>2, CreateBomKeeps
  <1>3. ASSUME NEW b \in Bill, CreateRouting(b) PROVE VersionsIInv'
    BY <1>3, CreateRoutingKeeps
  <1>4. ASSUME NEW b \in Bill, NEW o \in Operation, AddOperation(b, o) PROVE VersionsIInv'
    BY <1>4, AddOperationKeeps
  <1>5. ASSUME NEW e \in Ecn, CreateEcn(e) PROVE VersionsIInv'
    BY <1>5, CreateEcnKeeps
  <1>6. ASSUME NEW r \in PlmReq, NEW b \in Bill, NEW c \in Product, NEW i \in Item,
               BeginAddPart(r, b, c, i)
        PROVE  VersionsIInv'
    BY <1>6, BeginAddPartKeeps
  <1>7. ASSUME NEW s \in editing, CommitAddPart(s) PROVE VersionsIInv'
    BY <1>7, CommitAddPartKeeps
  <1>8. ASSUME NEW r \in PlmReq, NEW e \in Ecn, NEW to \in EcnStatus, BeginEcn(r, e, to)
        PROVE  VersionsIInv'
    BY <1>8, BeginEcnKeeps
  <1>9. ASSUME NEW s \in editing, CommitEcn(s) PROVE VersionsIInv'
    BY <1>9, CommitEcnKeeps
  <1>10. ASSUME NEW s \in editing, ApplyEcn(s) PROVE VersionsIInv'
    BY <1>10, ApplyEcnKeeps
  <1>11. ASSUME NEW r \in PlmReq, NEW p \in Product, BeginVersion(r, p) PROVE VersionsIInv'
    BY <1>11, BeginVersionKeeps
  <1>12. ASSUME NEW s \in editing, ClearCurrent(s) PROVE VersionsIInv'
    BY <1>12, ClearCurrentKeeps
  <1>13. ASSUME NEW s \in editing, Copy(s) PROVE VersionsIInv'
    BY <1>13, CopyKeeps
  <1>14. ASSUME NEW s \in editing, CommitVersion(s) PROVE VersionsIInv'
    BY <1>14, CommitVersionKeeps
  <1>15. ASSUME NEW r \in PlmReq, NEW p \in Product, NEW f \in File, NEW x \in Content,
                BeginUpload(r, p, f, x)
         PROVE  VersionsIInv'
    BY <1>15, BeginUploadKeeps
  <1>16. ASSUME NEW s \in editing, CommitUpload(s) PROVE VersionsIInv'
    BY <1>16, CommitUploadKeeps
  <1>17. ASSUME NEW s \in editing, StructureRollback(s) PROVE VersionsIInv'
    BY <1>17, SessionGoesOn DEF StructureRollback
  <1>18. ASSUME UNCHANGED structureVars PROVE VersionsIInv'
    BY <1>18, SessionGoesOn DEF structureVars
  <1> QED BY <1>1, <1>2, <1>3, <1>4, <1>5, <1>6, <1>7, <1>8, <1>9, <1>10, <1>11, <1>12, <1>13,
             <1>14, <1>15, <1>16, <1>17, <1>18 DEF StructureNext

LEMMA VersionsInductive == StructureSpec => []VersionsIInv
  BY StructureInitHolds, StructureNextKeeps, PTL DEF StructureSpec

\* A product has one current version unless two sessions overtook each other, a
\* change in effect has the version it made, and an attachment its file.
THEOREM VersionsAreSoundHolds == StructureSpec => []VersionsAreSound
  <1>1. VersionsIInv => VersionsAreSound
    BY DEF VersionsIInv, VersionsAreSound
  <1> QED BY <1>1, VersionsInductive, PTL

-----------------------------------------------------------------------------
(* No product below itself. In any set of products there is one that has   *)
(* no component in it (Descends) and one that is no component in it        *)
(* (Ascends); a new edge leads into a set that is closed under components  *)
(* and does not hold the product, and closes no circle. A copied bill      *)
(* brings no edge that was not there.                                      *)

\* Of any products there is one that has none of them as a component, and one
\* that is a component of none.
Descends(E) ==
    \A S \in SUBSET Product : S # {} => \E p \in S : \A e \in E : e[1] = p => e[2] \notin S
Ascends(E) ==
    \A S \in SUBSET Product : S # {} => \E p \in S : \A e \in E : e[2] = p => e[1] \notin S

Closed(B, E) == \A e \in E : e[1] \in B => e[2] \in B

\* What was below a component when it was searched does not include the product.
SearchedOK ==
    \A s \in editing : s.stage = "adding" =>
        /\ s.edges \subseteq Edges
        /\ \E B \in SUBSET Product : s.part \in B /\ s.bill[1] \notin B /\ Closed(B, s.edges)

\* The components that are copied are components of the product.
CopiedOK ==
    \A s \in editing : s.stage = "copied" => \A y \in s.parts : <<s.product, y.part>> \in Edges

StructureIInv ==
    /\ VersionsIInv
    /\ SearchedOK
    /\ CopiedOK
    /\ ~crossed => Descends(Edges) /\ Ascends(Edges)

LEMMA EdgesAreOfProducts ==
    ASSUME VersionsIInv
    PROVE  Edges \subseteq Product \X Product
  BY DEF VersionsIInv, StructureTypeOK, Edges, Bill

\* An edge that leads into a closed set from outside closes no circle.
LEMMA EdgeIntoClosed ==
    ASSUME NEW E \in SUBSET (Product \X Product), NEW p \in Product, NEW c \in Product,
           NEW B \in SUBSET Product, c \in B, p \notin B, Closed(B, E), Descends(E), Ascends(E)
    PROVE  Descends(E \union {<<p, c>>}) /\ Ascends(E \union {<<p, c>>})
  <1> DEFINE F == E \union {<<p, c>>}
  <1>1. ASSUME NEW S \in SUBSET Product, S # {}
        PROVE  \E q \in S : \A e \in F : e[1] = q => e[2] \notin S
    <2>1. CASE S \intersect B = {}
      <3>1. PICK q \in S : \A e \in E : e[1] = q => e[2] \notin S
        BY <1>1 DEF Descends
      <3> QED BY <2>1, <3>1
    <2>2. CASE S \intersect B # {}
      <3>1. S \intersect B \in SUBSET Product
        OBVIOUS
      <3>2. PICK q \in S \intersect B : \A e \in E : e[1] = q => e[2] \notin S \intersect B
        BY <2>2, <3>1 DEF Descends
      <3>3. \A e \in E : e[1] = q => e[2] \in B
        BY <3>2 DEF Closed
      <3> QED BY <3>2, <3>3
    <2> QED BY <2>1, <2>2
  <1>2. ASSUME NEW S \in SUBSET Product, S # {}
        PROVE  \E q \in S : \A e \in F : e[2] = q => e[1] \notin S
    <2>1. CASE S \subseteq B
      <3>1. PICK q \in S : \A e \in E : e[2] = q => e[1] \notin S
        BY <1>2 DEF Ascends
      <3> QED BY <2>1, <3>1
    <2>2. CASE ~(S \subseteq B)
      <3>1. S \ B \in SUBSET Product /\ S \ B # {}
        BY <2>2
      <3>2. PICK q \in S \ B : \A e \in E : e[2] = q => e[1] \notin S \ B
        BY <3>1 DEF Ascends
      <3>3. \A e \in E : e[2] = q => e[1] \notin B
        BY <3>2 DEF Closed
      <3> QED BY <3>2, <3>3
    <2> QED BY <2>1, <2>2
  <1> QED BY <1>1, <1>2 DEF Descends, Ascends

-----------------------------------------------------------------------------
\* f lists what is below a product, level by level.
ListsBelow(f, c) ==
    f = [n \in Nat |-> IF n = 0 THEN {c}
                       ELSE f[n - 1] \union {e[2] : e \in {d \in Edges : d[1] \in f[n - 1]}}]

LEMMA BelowIsListed ==
    ASSUME NEW c
    PROVE  Below(c) = (CHOOSE f : ListsBelow(f, c))[Cardinality(Product)]
  BY DEF Below, ListsBelow

LEMMA ListExists ==
    ASSUME NEW c \in Product, Edges \subseteq Product \X Product
    PROVE  \E f : ListsBelow(f, c) /\ f \in [Nat -> SUBSET Product]
  <1> DEFINE X == SUBSET Product
             S == [B \in X |-> B \union {e[2] : e \in {d \in Edges : d[1] \in B}}]
             x0 == {c}
  <1>1. \A B \in X : B \union {e[2] : e \in {d \in Edges : d[1] \in B}} \in X
    OBVIOUS
  <1>2. S \in [X -> X] /\ x0 \in X
    BY <1>1
  <1>3. \A B \in X : S[B] = B \union {e[2] : e \in {d \in Edges : d[1] \in B}}
    OBVIOUS
  <1>4. CanIterate(X, x0, S)
    BY <1>2 DEF CanIterate
  <1> HIDE DEF S, X, x0
  <1>6. PICK f : IsIteration(f, X, x0, S)
    BY <1>4, Iterates
  <1>7. f \in [Nat -> X] /\ f[0] = x0 /\ \A n \in Nat : f[n + 1] = S[f[n]]
    BY <1>6 DEF IsIteration
  <1>5. ASSUME NEW n \in Nat
        PROVE  f[n] = IF n = 0 THEN {c}
                      ELSE f[n - 1] \union {e[2] : e \in {d \in Edges : d[1] \in f[n - 1]}}
    <2>1. CASE n = 0
      BY <1>7, <2>1 DEF x0
    <2>2. CASE n # 0
      <3>1. PICK m \in Nat : n = m + 1
        <4>1. n - 1 \in Nat /\ n = (n - 1) + 1
          BY <2>2
        <4> QED BY <4>1
      <3>2. n - 1 = m /\ f[m] \in X
        BY <1>7, <3>1
      <3> QED BY <1>3, <1>7, <2>2, <3>1, <3>2
    <2> QED BY <2>1, <2>2
  <1> QED BY <1>5, <1>7 DEF ListsBelow, X

LEMMA ListGoesOn ==
    ASSUME NEW c, NEW f, ListsBelow(f, c), NEW n \in Nat
    PROVE  /\ f[0] = {c}
           /\ f[n + 1] = f[n] \union {e[2] : e \in {d \in Edges : d[1] \in f[n]}}
  <1>1. ASSUME NEW m \in Nat
        PROVE  f[m] = IF m = 0 THEN {c}
                      ELSE f[m - 1] \union {e[2] : e \in {d \in Edges : d[1] \in f[m - 1]}}
    BY DEF ListsBelow
  <1>2. n + 1 \in Nat /\ n + 1 # 0 /\ (n + 1) - 1 = n /\ 0 \in Nat
    OBVIOUS
  <1> QED BY <1>1, <1>2

\* The search finds all that is below: what it has found after as many levels
\* as there are products has no component it has not found.
LEMMA BelowIsClosed ==
    ASSUME NEW c \in Product, Edges \subseteq Product \X Product
    PROVE  Below(c) \in SUBSET Product /\ c \in Below(c) /\ Closed(Below(c), Edges)
  <1> DEFINE f == CHOOSE f : ListsBelow(f, c)
             N == Cardinality(Product)
  <1>1. Below(c) = f[N] /\ ListsBelow(f, c)
    BY ListExists, BelowIsListed
  <1> HIDE DEF f
  <1>0. IsFiniteSet(Product) /\ N \in Nat
    BY ProductAssumption, FS_CardinalityType
  <1>2. ASSUME NEW n \in Nat
        PROVE  /\ f[0] = {c}
               /\ f[n + 1] = f[n] \union {e[2] : e \in {d \in Edges : d[1] \in f[n]}}
    BY <1>1, ListGoesOn
  <1>3. f \in [Nat -> SUBSET Product]
    <2> DEFINE T == {k \in Nat : f[k] \notin SUBSET Product}
    <2>1. T = {}
      <3> SUFFICES ASSUME T # {} PROVE FALSE
        OBVIOUS
      <3>1. PICK k \in T : \A j \in T : k <= j
        BY LeastNatural
      <3>2. k \in Nat /\ f[k] \notin SUBSET Product
        OBVIOUS
      <3>3. k # 0
        BY <1>2, <3>2
      <3>4. PICK j \in Nat : k = j + 1
        <4>1. k - 1 \in Nat /\ k = (k - 1) + 1
          BY <3>2, <3>3
        <4> QED BY <4>1
      <3>5. f[j] \in SUBSET Product
        BY <3>1, <3>4
      <3>6. f[j + 1] \in SUBSET Product
        BY <1>2, <3>5
      <3> QED BY <3>2, <3>4, <3>6
    <2>2. f = [n \in Nat |-> f[n]]
      <3>1. f = [n \in Nat |-> IF n = 0 THEN {c}
                       ELSE f[n - 1] \union {e[2] : e \in {d \in Edges : d[1] \in f[n - 1]}}]
        BY <1>1 DEF ListsBelow
      <3> QED BY <3>1
    <2> QED BY <2>1, <2>2
  <1> DEFINE U == [n \in Nat |-> IF Closed(f[n], Edges) THEN {} ELSE Product \ f[n]]
  <1>4. U \in [Nat -> SUBSET Product]
    OBVIOUS
  <1>5. ASSUME NEW n \in Nat
        PROVE  U[n + 1] \subseteq U[n] /\ (U[n] # {} => U[n + 1] # U[n])
    <2>0. U[n] = (IF Closed(f[n], Edges) THEN {} ELSE Product \ f[n]) /\ n + 1 \in Nat
          /\ U[n + 1] = IF Closed(f[n + 1], Edges) THEN {} ELSE Product \ f[n + 1]
      OBVIOUS
    <2>1. f[n] \subseteq f[n + 1] /\ \A e \in Edges : e[1] \in f[n] => e[2] \in f[n + 1]
      BY <1>2
    <2>2. CASE Closed(f[n], Edges)
      <3>1. \A x \in f[n + 1] : x \in f[n]
        BY <1>2, <2>2 DEF Closed
      <3>2. Closed(f[n + 1], Edges)
        BY <2>1, <2>2, <3>1 DEF Closed
      <3> HIDE DEF U
      <3> QED BY <2>0, <2>2, <3>2
    <2>3. CASE ~Closed(f[n], Edges)
      <3>1. PICK e \in Edges : e[1] \in f[n] /\ e[2] \notin f[n]
        BY <2>3 DEF Closed
      <3>2. e[2] \in Product /\ e[2] \in f[n + 1]
        BY <2>1, <3>1
      <3> HIDE DEF U
      <3> QED BY <2>0, <2>1, <2>3, <3>1, <3>2
    <2> QED BY <2>2, <2>3
  <1>6. U[N] = {}
    <2> HIDE DEF U
    <2> QED BY <1>0, <1>4, <1>5, Vanishes
  <1>7. Closed(f[N], Edges)
    <2>1. CASE Product \ f[N] = {}
      <3>1. Product \subseteq f[N]
        BY <2>1
      <3> QED BY <3>1 DEF Closed
    <2>2. CASE Product \ f[N] # {}
      BY <1>0, <1>6, <2>2
    <2> QED BY <2>1, <2>2
  <1>8. c \in f[N]
    <2> DEFINE T == {k \in Nat : c \notin f[k]}
    <2>1. T = {}
      <3> SUFFICES ASSUME T # {} PROVE FALSE
        OBVIOUS
      <3>1. PICK k \in T : \A j \in T : k <= j
        BY LeastNatural
      <3>2. k \in Nat /\ c \notin f[k]
        OBVIOUS
      <3>3. k # 0
        BY <1>2, <3>2
      <3>4. PICK j \in Nat : k = j + 1
        <4>1. k - 1 \in Nat /\ k = (k - 1) + 1
          BY <3>2, <3>3
        <4> QED BY <4>1
      <3>5. c \in f[j]
        BY <3>1, <3>4
      <3> QED BY <1>2, <3>2, <3>4, <3>5
    <2> QED BY <1>0, <2>1
  <1> QED BY <1>0, <1>1, <1>3, <1>7, <1>8

-----------------------------------------------------------------------------
\* A session goes on or ends, and no component is added.
LEMMA SearchesStand ==
    ASSUME StructureIInv, VersionsIInv', parts' = parts, crossed' = crossed,
           NEW t, editing' \subseteq editing \union {t},
           t.stage = "adding" =>
               /\ t.edges \subseteq Edges
               /\ \E B \in SUBSET Product : t.part \in B /\ t.bill[1] \notin B /\ Closed(B, t.edges),
           t.stage = "copied" => \A y \in t.parts : <<t.product, y.part>> \in Edges
    PROVE  StructureIInv'
  <1>1. Edges' = Edges
    BY DEF Edges
  <1>2. SearchedOK'
    <2> SUFFICES ASSUME NEW s \in editing', s.stage = "adding"
                 PROVE  /\ s.edges \subseteq Edges
                        /\ \E B \in SUBSET Product :
                              s.part \in B /\ s.bill[1] \notin B /\ Closed(B, s.edges)
      BY <1>1 DEF SearchedOK, Closed
    <2> QED BY DEF StructureIInv, SearchedOK
  <1>3. CopiedOK'
    BY <1>1 DEF StructureIInv, CopiedOK
  <1>4. (~crossed => Descends(Edges) /\ Ascends(Edges))'
    BY <1>1 DEF StructureIInv, Descends, Ascends
  <1> QED BY <1>2, <1>3, <1>4 DEF StructureIInv

LEMMA SearchesRest ==
    ASSUME StructureIInv, VersionsIInv', parts' = parts, crossed' = crossed,
           editing' \subseteq editing
    PROVE  StructureIInv'
  <1>1. PICK t : t = [stage |-> "none"]
    OBVIOUS
  <1> QED BY <1>1, SearchesStand

LEMMA StructureInitStands == StructureInit => StructureIInv
  <1> SUFFICES ASSUME StructureInit PROVE StructureIInv
    OBVIOUS
  <1>1. Edges = {} /\ editing = {}
    BY DEF StructureInit, Edges
  <1> QED BY <1>1, StructureInitHolds DEF StructureIInv, SearchedOK, CopiedOK, Descends, Ascends

LEMMA BeginAddPartStands ==
    ASSUME StructureIInv, VersionsIInv', NEW r \in PlmReq, NEW b \in Bill, NEW c \in Product,
           NEW i \in Item, BeginAddPart(r, b, c, i)
    PROVE  StructureIInv'
  <1>1. PICK t : t = [by |-> r, stage |-> "adding", bill |-> b, part |-> c, item |-> i,
                      edges |-> Edges]
    OBVIOUS
  <1>2. editing' = editing \union {t} /\ parts' = parts /\ crossed' = crossed /\ NoCycle(b[1], c)
    BY <1>1 DEF BeginAddPart, Opens, structureTables
  <1>3. Edges \subseteq Product \X Product
    BY EdgesAreOfProducts DEF StructureIInv
  <1>4. /\ Below(c) \in SUBSET Product /\ c \in Below(c) /\ Closed(Below(c), Edges)
        /\ b[1] \notin Below(c)
    BY <1>2, <1>3, BelowIsClosed DEF NoCycle
  <1>5. /\ t.stage = "adding" /\ t.edges = Edges /\ t.part = c /\ t.bill = b
    BY <1>1
  <1> QED BY <1>2, <1>4, <1>5, SearchesStand

LEMMA CommitAddPartStands ==
    ASSUME StructureIInv, VersionsIInv', NEW s \in editing, CommitAddPart(s)
    PROVE  StructureIInv'
  <1>1. /\ s.stage = "adding" /\ parts' = parts \union {Added(s, NextNo(s.bill))}
        /\ crossed' = (crossed \/ s.edges # Edges)
        /\ editing' \subseteq editing
    BY DEF CommitAddPart, Added
  <1>2. s.bill \in Bill /\ s.bill[1] \in Product /\ s.part \in Product
    BY <1>1 DEF StructureIInv, VersionsIInv, EditingOK, StructureTypeOK, Bill
  <1>3. Edges' = Edges \union {<<s.bill[1], s.part>>}
    <2>1. PICK x : x = Added(s, NextNo(s.bill))
      OBVIOUS
    <2>2. x.bill = s.bill /\ x.part = s.part /\ parts' = parts \union {x}
      BY <1>1, <2>1 DEF Added
    <2> QED BY <2>2 DEF Edges
  <1>4. SearchedOK'
    <2> SUFFICES ASSUME NEW u \in editing, u.stage = "adding"
                 PROVE  /\ u.edges \subseteq Edges'
                        /\ \E B \in SUBSET Product :
                              u.part \in B /\ u.bill[1] \notin B /\ Closed(B, u.edges)
      BY <1>1 DEF SearchedOK, Closed
    <2> QED BY <1>3 DEF StructureIInv, SearchedOK
  <1>5. CopiedOK'
    BY <1>1, <1>3 DEF StructureIInv, CopiedOK
  <1>6. ASSUME ~crossed'
        PROVE  Descends(Edges') /\ Ascends(Edges')
    <2>1. ~crossed /\ s.edges = Edges
      BY <1>1, <1>6
    <2>2. PICK B \in SUBSET Product : s.part \in B /\ s.bill[1] \notin B /\ Closed(B, Edges)
      BY <1>1, <2>1 DEF StructureIInv, SearchedOK
    <2>3. Edges \in SUBSET (Product \X Product) /\ Descends(Edges) /\ Ascends(Edges)
      BY <2>1, EdgesAreOfProducts DEF StructureIInv
    <2> DEFINE p == s.bill[1]
               c == s.part
    <2>4. Descends(Edges \union {<<p, c>>}) /\ Ascends(Edges \union {<<p, c>>})
      <3>1. p \in Product /\ c \in Product /\ c \in B /\ p \notin B
        BY <1>2, <2>2
      <3> HIDE DEF p, c
      <3> QED BY <2>2, <2>3, <3>1, EdgeIntoClosed
    <2> QED BY <1>3, <2>4
  <1>7. (~crossed => Descends(Edges) /\ Ascends(Edges))'
    BY <1>6 DEF Descends, Ascends
  <1> QED BY <1>4, <1>5, <1>7 DEF StructureIInv

LEMMA CopyStands ==
    ASSUME StructureIInv, VersionsIInv', NEW s \in editing, Copy(s)
    PROVE  StructureIInv'
  <1>1. PICK t : /\ editing' \subseteq editing \union {t} /\ t.stage = "copied"
                 /\ t.product = s.product
                 /\ t.parts = CopiedParts(<<s.product, s.saw>>)
    <2>1. PICK old, bill, way : old = <<s.product, s.saw>> /\ bill = (old \in boms) /\ way = (old \in routings)
      OBVIOUS
    <2>2. PICK t : t = [by |-> s.by, stage |-> "copied", product |-> s.product, cause |-> s.cause,
                        saw |-> s.saw, rows |-> s.rows, bill |-> bill, route |-> way,
                        parts |-> CopiedParts(old), work |-> CopiedWork(old)]
      OBVIOUS
    <2>3. editing' = (editing \ {s}) \union {t}
      BY <2>1, <2>2 DEF Copy, Goes
    <2>4. t.stage = "copied" /\ t.product = s.product /\ t.parts = CopiedParts(old)
      BY <2>2
    <2> QED BY <2>1, <2>3, <2>4
  <1>2. parts' = parts /\ crossed' = crossed
    BY DEF Copy, structureTables
  <1>3. \A y \in t.parts : <<t.product, y.part>> \in Edges
    <2> SUFFICES ASSUME NEW y \in t.parts PROVE <<s.product, y.part>> \in Edges
      BY <1>1
    <2>1. y \in parts /\ y.bill = <<s.product, s.saw>>
      BY <1>1 DEF CopiedParts
    <2>2. y.bill[1] = s.product
      BY <2>1
    <2> QED BY <2>1, <2>2 DEF Edges
  <1> QED BY <1>1, <1>2, <1>3, SearchesStand

LEMMA CommitVersionStands ==
    ASSUME StructureIInv, VersionsIInv', NEW s \in editing, CommitVersion(s)
    PROVE  StructureIInv'
  <1>1. /\ s.stage = "copied" /\ crossed' = crossed /\ editing' \subseteq editing
        /\ parts' = parts \union {[y EXCEPT !.bill = <<s.product, s.saw + 1>>] : y \in s.parts}
    BY DEF CommitVersion
  <1>2. \A y \in s.parts : <<s.product, y.part>> \in Edges
    BY <1>1 DEF StructureIInv, CopiedOK
  <1>3. Edges' = Edges
    <2>1. ASSUME NEW x \in parts', x \notin parts
          PROVE  \E y \in s.parts : x.bill[1] = s.product /\ x.part = y.part
      <3>1. PICK y \in s.parts : x = [y EXCEPT !.bill = <<s.product, s.saw + 1>>]
        BY <1>1, <2>1
      <3>2. y \in [bill : boms, no : Nat, part : Product, quantity : Nat \ {0},
                   cost : Nat \union {Unknown}]
        BY <1>1 DEF StructureIInv, VersionsIInv, EditingOK, StructureTypeOK
      <3>3. x.bill = <<s.product, s.saw + 1>> /\ x.part = y.part
        BY <3>1, <3>2
      <3>4. x.bill[1] = s.product
        BY <3>3
      <3> QED BY <3>3, <3>4
    <2>2. \A x \in parts' : <<x.bill[1], x.part>> \in Edges
      BY <1>2, <2>1 DEF Edges
    <2>3. parts \subseteq parts'
      BY <1>1
    <2> QED BY <2>2, <2>3 DEF Edges
  <1>4. SearchedOK' /\ CopiedOK'
    BY <1>1, <1>3 DEF StructureIInv, SearchedOK, CopiedOK, Closed
  <1>5. (~crossed => Descends(Edges) /\ Ascends(Edges))'
    BY <1>1, <1>3 DEF StructureIInv, Descends, Ascends
  <1> QED BY <1>4, <1>5 DEF StructureIInv

LEMMA StructureNextStands ==
    ASSUME StructureIInv, [StructureNext]_structureVars
    PROVE  StructureIInv'
  <1>0. VersionsIInv'
    BY StructureNextKeeps DEF StructureIInv
  <1>1. ASSUME \/ \E p \in Product : CreateProduct(p)
               \/ \E b \in Bill : CreateBom(b) \/ CreateRouting(b)
               \/ \E b \in Bill, o \in Operation : AddOperation(b, o)
               \/ \E e \in Ecn : CreateEcn(e)
               \/ \E s \in editing : CommitEcn(s) \/ CommitUpload(s) \/ StructureRollback(s)
               \/ UNCHANGED structureVars
        PROVE  StructureIInv'
    <2>1. parts' = parts /\ crossed' = crossed /\ editing' \subseteq editing
      BY <1>1 DEF CreateProduct, CreateBom, CreateRouting, AddOperation, CreateEcn, CommitEcn,
                  CommitUpload, StructureRollback, structureVars, structureTables
    <2> QED BY <1>0, <2>1, SearchesRest
  <1>2. ASSUME \/ \E r \in PlmReq, e \in Ecn, to \in EcnStatus : BeginEcn(r, e, to)
               \/ \E r \in PlmReq, p \in Product : BeginVersion(r, p)
               \/ \E s \in editing : ApplyEcn(s) \/ ClearCurrent(s)
               \/ \E r \in PlmReq, p \in Product, f \in File, x \in Content : BeginUpload(r, p, f, x)
        PROVE  StructureIInv'
    <2>1. parts' = parts /\ crossed' = crossed
      BY <1>2 DEF BeginEcn, BeginVersion, ApplyEcn, ClearCurrent, BeginUpload, structureTables
    <2>2. ASSUME NEW t, editing' \subseteq editing \union {t}, t.stage \notin {"adding", "copied"}
          PROVE  StructureIInv'
      BY <1>0, <2>1, <2>2, SearchesStand
    <2>3. ASSUME NEW r \in PlmReq, NEW e \in Ecn, NEW to \in EcnStatus, BeginEcn(r, e, to)
          PROVE  StructureIInv'
      <3>1. PICK t : t = [by |-> r, stage |-> "moving", ecn |-> e, to |-> to, saw |-> current[EcnProduct(e)]]
        OBVIOUS
      <3>2. t.stage = "moving" /\ editing' = editing \union {t}
        BY <2>3, <3>1 DEF BeginEcn, Opens
      <3> QED BY <2>2, <3>2
    <2>4. ASSUME NEW r \in PlmReq, NEW p \in Product, BeginVersion(r, p)
          PROVE  StructureIInv'
      <3>1. PICK t : t = [by |-> r, stage |-> "begun", product |-> p, cause |-> "request", saw |-> current[p]]
        OBVIOUS
      <3>2. t.stage = "begun" /\ editing' = editing \union {t}
        BY <2>4, <3>1 DEF BeginVersion, Opens
      <3> QED BY <2>2, <3>2
    <2>5. ASSUME NEW s \in editing, ApplyEcn(s)
          PROVE  StructureIInv'
      <3>1. PICK t : t = [by |-> s.by, stage |-> "begun", product |-> EcnProduct(s.ecn),
                          cause |-> s.ecn, saw |-> s.saw]
        OBVIOUS
      <3>2. t.stage = "begun" /\ editing' = (editing \ {s}) \union {t}
        BY <2>5, <3>1 DEF ApplyEcn, Goes
      <3> QED BY <2>2, <3>2
    <2>6. ASSUME NEW s \in editing, ClearCurrent(s)
          PROVE  StructureIInv'
      <3>1. PICK t : t = [by |-> s.by, stage |-> "clearing", product |-> s.product, cause |-> s.cause,
                          saw |-> s.saw, rows |-> Current(s.product)]
        OBVIOUS
      <3>2. t.stage = "clearing" /\ editing' = (editing \ {s}) \union {t}
        BY <2>6, <3>1 DEF ClearCurrent, Goes
      <3> QED BY <2>2, <3>2
    <2>7. ASSUME NEW r \in PlmReq, NEW p \in Product, NEW f \in File, NEW x \in Content,
                 BeginUpload(r, p, f, x)
          PROVE  StructureIInv'
      <3>1. PICK t : t = [by |-> r, stage |-> "stored", key |-> <<p, current[p], f>>, sum |-> x]
        OBVIOUS
      <3>2. t.stage = "stored" /\ editing' = editing \union {t}
        BY <2>7, <3>1 DEF BeginUpload, Opens
      <3> QED BY <2>2, <3>2
    <2> QED BY <1>2, <2>3, <2>4, <2>5, <2>6, <2>7
  <1> QED BY <1>0, <1>1, <1>2, BeginAddPartStands, CommitAddPartStands, CopyStands,
             CommitVersionStands DEF StructureNext

LEMMA StructureInductive == StructureSpec => []StructureIInv
  BY StructureInitStands, StructureNextStands, PTL DEF StructureSpec

LEMMA NoCycles ==
    ASSUME StructureIInv
    PROVE  NoCycleUnlessCrossed
  BY DEF StructureIInv, NoCycleUnlessCrossed, Descends

-----------------------------------------------------------------------------
(* The rollup of costs. It is a recursion over levels, as many as there    *)
(* are products; the products whose cost a further level still changes get *)
(* fewer with each, so that in the end none is left.                       *)

\* R is the cost of bills, level by level.
IsRollup(R) ==
    R = [n \in Nat |-> [p \in Product |-> IF n = 0 THEN Unknown ELSE BillCost(p, R[n - 1])]]

LEMMA RollupIsChosen == Rollup = CHOOSE R : IsRollup(R)
  BY DEF Rollup, IsRollup

LEMMA LinesAreRows ==
    ASSUME StructureTypeOK, NEW p \in Product
    PROVE  /\ IsFiniteSet(Lines(p))
           /\ \A y \in Lines(p) : /\ y.part \in Product /\ y.quantity \in Int /\ y.cost \in Int
                                  /\ <<p, y.part>> \in Edges
  <1>1. ASSUME NEW y \in Lines(p)
        PROVE  /\ y \in parts /\ y.part \in Product /\ y.quantity \in Int /\ y.cost \in Int
               /\ <<p, y.part>> \in Edges
    <2>1. y \in parts /\ y.bill = <<p, newest[p]>>
      BY DEF Lines
    <2>2. y.bill[1] = p
      BY <2>1
    <2>3. y \in [bill : boms, no : Nat, part : Product, quantity : Nat \ {0},
                 cost : Nat \union {Unknown}]
      BY <2>1 DEF StructureTypeOK
    <2>4. y.part \in Product /\ y.quantity \in Int /\ y.cost \in Int
      BY <2>3 DEF Unknown
    <2> QED BY <2>1, <2>2, <2>4 DEF Edges
  <1>2. Lines(p) \subseteq parts
    BY <1>1
  <1> QED BY <1>1, <1>2, FS_Subset DEF StructureTypeOK

LEMMA BillCostIsInteger ==
    ASSUME StructureTypeOK, NEW p \in Product, NEW below \in [Product -> Int]
    PROVE  BillCost(p, below) \in Int
  <1> DEFINE S == {y \in Lines(p) : LineCost(y, below) # Unknown}
             f == [y \in S |-> y.quantity * LineCost(y, below)]
  <1>1. S \subseteq Lines(p) /\ IsFiniteSet(S)
    <2>1. S \in SUBSET Lines(p)
      OBVIOUS
    <2> HIDE DEF S
    <2> QED BY <2>1, LinesAreRows, FS_Subset
  <1>2. \A y \in S : f[y] \in Int
    <2>1. ASSUME NEW y \in S PROVE f[y] \in Int
      <3>1. y.part \in Product /\ y.quantity \in Int /\ y.cost \in Int
        BY <1>1, LinesAreRows
      <3>2. LineCost(y, below) \in Int
        BY <3>1 DEF LineCost
      <3>3. PICK a \in Int, b \in Int : a = y.quantity /\ b = LineCost(y, below)
        BY <3>1, <3>2
      <3>4. f[y] = a * b
        BY <3>3
      <3> QED BY <3>4, Products
    <2> QED BY <2>1
  <1>3. SumFunction(f) \in Int
    <2>1. DOMAIN f = S
      OBVIOUS
    <2> HIDE DEF f, S
    <2> QED BY <1>1, <1>2, <2>1, SumIsInteger DEF SumFunction
  <1>4. BillCost(p, below) = IF S = {} THEN Unknown ELSE SumFunction(f)
    BY DEF BillCost
  <1> HIDE DEF S, f
  <1> QED BY <1>3, <1>4 DEF Unknown

LEMMA BillCostOfLines ==
    ASSUME NEW p, NEW b1, NEW b2, \A y \in Lines(p) : b1[y.part] = b2[y.part]
    PROVE  BillCost(p, b1) = BillCost(p, b2)
  <1> DEFINE S1 == {y \in Lines(p) : LineCost(y, b1) # Unknown}
             S2 == {y \in Lines(p) : LineCost(y, b2) # Unknown}
  <1>0. \A y \in Lines(p) : LineCost(y, b1) = LineCost(y, b2)
    BY DEF LineCost
  <1>1. S1 = S2
    BY <1>0
  <1>2. [y \in S1 |-> y.quantity * LineCost(y, b1)] = [y \in S2 |-> y.quantity * LineCost(y, b2)]
    BY <1>0, <1>1
  <1>3. /\ BillCost(p, b1) = IF S1 = {} THEN Unknown
                             ELSE SumFunction([y \in S1 |-> y.quantity * LineCost(y, b1)])
        /\ BillCost(p, b2) = IF S2 = {} THEN Unknown
                             ELSE SumFunction([y \in S2 |-> y.quantity * LineCost(y, b2)])
    BY DEF BillCost
  <1> HIDE DEF S1, S2
  <1> QED BY <1>1, <1>2, <1>3

LEMMA RollupExists ==
    ASSUME StructureTypeOK
    PROVE  \E R : IsRollup(R) /\ \A n \in Nat : R[n] \in [Product -> Int]
  <1> DEFINE X == [Product -> Int]
             x0 == [p \in Product |-> Unknown]
             S == [below \in X |-> [p \in Product |-> BillCost(p, below)]]
  <1>1. S \in [X -> X] /\ x0 \in X
    BY BillCostIsInteger DEF Unknown
  <1>2. \A below \in X : S[below] = [p \in Product |-> BillCost(p, below)]
    OBVIOUS
  <1>6. CanIterate(X, x0, S)
    BY <1>1 DEF CanIterate
  <1> HIDE DEF S, X, x0
  <1>7. PICK R : IsIteration(R, X, x0, S)
    BY <1>6, Iterates
  <1>3. R \in [Nat -> X] /\ R[0] = x0 /\ \A n \in Nat : R[n + 1] = S[R[n]]
    BY <1>7 DEF IsIteration
  <1>4. ASSUME NEW n \in Nat
        PROVE  R[n] = [p \in Product |-> IF n = 0 THEN Unknown ELSE BillCost(p, R[n - 1])]
    <2>1. CASE n = 0
      BY <1>3, <2>1 DEF x0
    <2>2. CASE n # 0
      <3>1. PICK m \in Nat : n = m + 1
        <4>1. n - 1 \in Nat /\ n = (n - 1) + 1
          BY <2>2
        <4> QED BY <4>1
      <3>2. n - 1 = m /\ R[m] \in X
        BY <1>3, <3>1
      <3>3. R[n] = [p \in Product |-> BillCost(p, R[m])]
        BY <1>2, <1>3, <3>1, <3>2
      <3> QED BY <2>2, <3>2, <3>3
    <2> QED BY <2>1, <2>2
  <1>5. IsRollup(R)
    BY <1>3, <1>4 DEF IsRollup
  <1> QED BY <1>3, <1>5 DEF X

LEMMA RollupByLevel ==
    ASSUME StructureTypeOK, NEW n \in Nat, NEW p \in Product
    PROVE  /\ Rollup[n] \in [Product -> Int]
           /\ Rollup[0][p] = Unknown
           /\ Rollup[n + 1][p] = BillCost(p, Rollup[n])
  <1>1. IsRollup(Rollup)
    BY RollupExists, RollupIsChosen
  <1>2. ASSUME NEW m \in Nat
        PROVE  Rollup[m] = [q \in Product |-> IF m = 0 THEN Unknown ELSE BillCost(q, Rollup[m - 1])]
    BY <1>1 DEF IsRollup
  <1>3. n + 1 \in Nat /\ n + 1 # 0 /\ (n + 1) - 1 = n /\ 0 \in Nat
    OBVIOUS
  <1>4. Rollup[0] = [q \in Product |-> Unknown]
    BY <1>2, <1>3
  <1>5. ASSUME NEW m \in Nat
        PROVE  Rollup[m + 1] = [q \in Product |-> BillCost(q, Rollup[m])]
    <2>1. m + 1 \in Nat /\ m + 1 # 0 /\ (m + 1) - 1 = m
      OBVIOUS
    <2> QED BY <1>2, <2>1
  <1>6. Rollup[n] \in [Product -> Int]
    <2> DEFINE T == {k \in Nat : Rollup[k] \notin [Product -> Int]}
    <2> SUFFICES ASSUME T # {} PROVE FALSE
      OBVIOUS
    <2>1. PICK k \in T : \A j \in T : k <= j
      BY LeastNatural
    <2>2. k \in Nat /\ Rollup[k] \notin [Product -> Int]
      OBVIOUS
    <2>3. k # 0
      BY <1>4, <2>2 DEF Unknown
    <2>4. PICK j \in Nat : k = j + 1
      <3>1. k - 1 \in Nat /\ k = (k - 1) + 1
        BY <2>2, <2>3
      <3> QED BY <3>1
    <2>5. Rollup[j] \in [Product -> Int]
      BY <2>1, <2>4
    <2>6. \A q \in Product : BillCost(q, Rollup[j]) \in Int
      BY <2>5, BillCostIsInteger
    <2> QED BY <1>5, <2>2, <2>4, <2>6
  <1> QED BY <1>4, <1>5, <1>6

\* After as many levels as there are products another one changes nothing.
LEMMA RollupIsDone ==
    ASSUME StructureTypeOK, Edges \subseteq Product \X Product, Descends(Edges), NEW p \in Product
    PROVE  Depth \in Nat /\ Rollup[Depth][p] = BillCost(p, Rollup[Depth])
  <1> DEFINE Same(n, q) == \A m \in Nat : n <= m => Rollup[m][q] = Rollup[n][q]
             U == [n \in Nat |-> {q \in Product : ~Same(n, q)}]
  <1>0. IsFiniteSet(Product)
    BY ProductAssumption
  <1>1. U \in [Nat -> SUBSET Product]
    OBVIOUS
  <1>2. ASSUME NEW n \in Nat, NEW q \in Product, Same(n, q)
        PROVE  Same(n + 1, q)
    <2>1. n + 1 \in Nat /\ n <= n + 1 /\ \A m \in Nat : n + 1 <= m => n <= m
      OBVIOUS
    <2> QED BY <1>2, <2>1
  <1>3. ASSUME NEW n \in Nat, NEW q \in Product, \A y \in Lines(q) : Same(n, y.part)
        PROVE  Same(n + 1, q)
    <2> SUFFICES ASSUME NEW m \in Nat, n + 1 <= m PROVE Rollup[m][q] = Rollup[n + 1][q]
      OBVIOUS
    <2>1. PICK j \in Nat : m = j + 1 /\ n <= j
      <3>1. m - 1 \in Nat /\ m = (m - 1) + 1 /\ n <= m - 1
        OBVIOUS
      <3> QED BY <3>1
    <2>2. \A y \in Lines(q) : Rollup[j][y.part] = Rollup[n][y.part]
      BY <1>3, <2>1
    <2>3. BillCost(q, Rollup[j]) = BillCost(q, Rollup[n])
      BY <2>2, BillCostOfLines
    <2> QED BY <2>1, <2>3, RollupByLevel
  <1> HIDE DEF Same
  <1>4. ASSUME NEW n \in Nat
        PROVE  U[n + 1] \subseteq U[n] /\ (U[n] # {} => U[n + 1] # U[n])
    <2>1. U[n] = {q \in Product : ~Same(n, q)} /\ U[n + 1] = {q \in Product : ~Same(n + 1, q)}
      OBVIOUS
    <2> HIDE DEF U
    <2>2. U[n + 1] \subseteq U[n]
      BY <1>2, <2>1
    <2>3. ASSUME U[n] # {} PROVE U[n + 1] # U[n]
      <3>1. PICK q \in U[n] : \A e \in Edges : e[1] = q => e[2] \notin U[n]
        BY <2>1, <2>3 DEF Descends
      <3>2. q \in Product /\ \A y \in Lines(q) : y.part \in Product /\ y.part \notin U[n]
        <4>1. q \in Product
          BY <2>1
        <4>2. ASSUME NEW y \in Lines(q) PROVE y.part \in Product /\ y.part \notin U[n]
          <5>1. PICK e \in Edges : e = <<q, y.part>>
            BY <4>1, LinesAreRows
          <5>2. e[1] = q /\ e[2] = y.part
            BY <5>1
          <5> QED BY <3>1, <4>1, <5>1, <5>2, LinesAreRows
        <4> QED BY <4>1, <4>2
      <3>3. \A y \in Lines(q) : Same(n, y.part)
        BY <2>1, <3>2
      <3> QED BY <1>3, <2>1, <3>1, <3>2, <3>3
    <2> QED BY <2>2, <2>3
  <1>5. Depth \in Nat /\ U[Depth] = {}
    <2> HIDE DEF U
    <2> QED BY <1>0, <1>1, <1>4, Vanishes DEF Depth
  <1>6. Same(Depth, p)
    BY <1>5
  <1>7. Depth + 1 \in Nat /\ Depth <= Depth + 1
    BY <1>5
  <1>8. Rollup[Depth + 1][p] = Rollup[Depth][p]
    BY <1>6, <1>7 DEF Same
  <1> QED BY <1>5, <1>8, RollupByLevel

-----------------------------------------------------------------------------
(* The explosion of a structure: what it takes of each product, level by   *)
(* level. The products still needed get fewer with each level, too.        *)

\* L lists what it takes of each product to make one of p, level by level.
IsExplosion(L, p) ==
    L = [n \in Nat |-> IF n = 0 THEN [c \in Product |-> IF c = p THEN 1 ELSE 0]
                       ELSE NeededFor(L[n - 1])]

\* What one of m takes directly of c, and nothing if m is bought.
Weight(m, c) == IF m \in Made THEN Takes(m, c) ELSE 0

LEMMA DemandIsExplosion ==
    ASSUME NEW p
    PROVE  Demand(p) = [c \in Product |-> SumFunction(
                           [n \in 1 .. Depth |-> (CHOOSE L : IsExplosion(L, p))[n - 1][c]])]
  BY DEF Demand, IsExplosion

LEMMA TakesIsInteger ==
    ASSUME StructureTypeOK, NEW m \in Product, NEW c
    PROVE  Takes(m, c) \in Int
  <1> DEFINE S == {z \in Lines(m) : z.part = c}
             f == [y \in S |-> y.quantity]
  <1>1. S \in SUBSET Lines(m) /\ DOMAIN f = S /\ \A y \in S : f[y] \in Int
    BY LinesAreRows
  <1>2. Takes(m, c) = SumFunction(f)
    BY DEF Takes
  <1> HIDE DEF f, S
  <1>3. IsFiniteSet(S)
    BY <1>1, LinesAreRows, FS_Subset
  <1> QED BY <1>1, <1>2, <1>3, SumIsInteger DEF SumFunction

LEMMA WeightIsInteger ==
    ASSUME StructureTypeOK, NEW m \in Product, NEW c \in Product
    PROVE  Weight(m, c) \in Int
  BY TakesIsInteger DEF Weight

\* What no line asks for is not taken.
LEMMA NothingTaken ==
    ASSUME NEW m, NEW c, \A y \in Lines(m) : y.part # c
    PROVE  Weight(m, c) = 0
  <1>1. PICK f : f = [y \in {z \in Lines(m) : z.part = c} |-> y.quantity]
    OBVIOUS
  <1>2. DOMAIN f = {} /\ Takes(m, c) = SumFunction(f)
    BY <1>1 DEF Takes
  <1>3. SumFunction(f) = 0
    BY <1>2, SumEmpty DEF SumFunction
  <1> QED BY <1>2, <1>3 DEF Weight

\* Products that are bought may be counted as well.
LEMMA NeededIsWeighted ==
    ASSUME StructureTypeOK, NEW level \in [Product -> Int]
    PROVE  /\ \A c \in Product :
                 NeededFor(level)[c] = SumFunction([m \in Product |-> level[m] * Weight(m, c)])
           /\ NeededFor(level) \in [Product -> Int]
  <1> DEFINE g(d) == [m \in Product |-> level[m] * Weight(m, d)]
             f(d) == [m \in Made |-> level[m] * Takes(m, d)]
  <1>1. ASSUME NEW d \in Product
        PROVE  SumFunction(f(d)) = SumFunction(g(d)) /\ SumFunction(g(d)) \in Int
    <2>1. IsFiniteSet(Product) /\ Made \subseteq Product
      BY ProductAssumption DEF Made
    <2>2. \A m \in Product : g(d)[m] \in Int
      BY WeightIsInteger, Products
    <2>3. \A m \in Made : g(d)[m] = f(d)[m]
      BY <2>1 DEF Weight
    <2>4. \A m \in Product \ Made : g(d)[m] = 0
      <3> SUFFICES ASSUME NEW m \in Product \ Made PROVE g(d)[m] = 0
        OBVIOUS
      <3>1. Weight(m, d) = 0 /\ level[m] \in Int
        BY DEF Weight
      <3>2. g(d)[m] = level[m] * 0
        BY <3>1
      <3> QED BY <3>1, <3>2, Products
    <2>5. DOMAIN f(d) = Made /\ DOMAIN g(d) = Product
      OBVIOUS
    <2> HIDE DEF f, g
    <2>6. IsFiniteSet(Made)
      BY <2>1, FS_Subset
    <2>7. SumFunctionOnSet(f(d), Made) = SumFunctionOnSet(g(d), Made)
      BY <2>3, <2>6, SumSameValues
    <2>8. SumFunctionOnSet(g(d), Product) = SumFunctionOnSet(g(d), Made)
      BY <2>1, <2>2, <2>4, SumSupport
    <2>9. SumFunctionOnSet(g(d), Product) \in Int
      BY <2>1, <2>2, SumIsInteger
    <2> QED BY <2>5, <2>7, <2>8, <2>9 DEF SumFunction
  <1>2. NeededFor(level) = [d \in Product |-> SumFunction(f(d))]
    BY DEF NeededFor
  <1> HIDE DEF f, g
  <1>3. \A c \in Product : NeededFor(level)[c] = SumFunction(g(c))
    BY <1>1, <1>2
  <1>4. NeededFor(level) \in [Product -> Int]
    BY <1>1, <1>2
  <1> QED BY <1>3, <1>4 DEF g

LEMMA LevelsExist ==
    ASSUME StructureTypeOK, NEW start, start \in [Product -> Int]
    PROVE  \E L \in [Nat -> [Product -> Int]] :
              L[0] = start /\ \A n \in Nat : L[n + 1] = NeededFor(L[n])
  <1> DEFINE X == [Product -> Int]
             S == [level \in X |-> NeededFor(level)]
  <1>1. S \in [X -> X]
    <2>1. \A level \in X : NeededFor(level) \in X
      BY NeededIsWeighted
    <2> QED BY <2>1
  <1>2. \A level \in X : S[level] = NeededFor(level)
    OBVIOUS
  <1>3. CanIterate(X, start, S)
    BY <1>1 DEF CanIterate
  <1> HIDE DEF S, X
  <1>4. PICK L : IsIteration(L, X, start, S)
    BY <1>3, Iterates
  <1>5. L \in [Nat -> X] /\ L[0] = start /\ \A n \in Nat : L[n + 1] = S[L[n]]
    BY <1>4 DEF IsIteration
  <1>6. \A n \in Nat : L[n + 1] = NeededFor(L[n])
    BY <1>2, <1>5
  <1> QED BY <1>5, <1>6 DEF X

LEMMA ExplosionExists ==
    ASSUME StructureTypeOK, NEW p \in Product
    PROVE  \E L : IsExplosion(L, p)
  <1>1. [c \in Product |-> IF c = p THEN 1 ELSE 0] \in [Product -> Int]
    OBVIOUS
  <1>2. PICK L \in [Nat -> [Product -> Int]] :
           /\ L[0] = [c \in Product |-> IF c = p THEN 1 ELSE 0]
           /\ \A n \in Nat : L[n + 1] = NeededFor(L[n])
    BY <1>1, LevelsExist
  <1>3. ASSUME NEW n \in Nat
        PROVE  L[n] = IF n = 0 THEN [c \in Product |-> IF c = p THEN 1 ELSE 0]
                      ELSE NeededFor(L[n - 1])
    <2>1. CASE n = 0
      BY <1>2, <2>1
    <2>2. CASE n # 0
      <3>1. PICK m \in Nat : n = m + 1
        <4>1. n - 1 \in Nat /\ n = (n - 1) + 1
          BY <2>2
        <4> QED BY <4>1
      <3>2. n - 1 = m
        BY <3>1
      <3> QED BY <1>2, <2>2, <3>1, <3>2
    <2> QED BY <2>1, <2>2
  <1>4. L = [n \in Nat |-> IF n = 0 THEN [c \in Product |-> IF c = p THEN 1 ELSE 0]
                           ELSE NeededFor(L[n - 1])]
    BY <1>3
  <1> QED BY <1>4 DEF IsExplosion

LEMMA ExplosionByLevel ==
    ASSUME StructureTypeOK, NEW p \in Product, NEW L, IsExplosion(L, p)
    PROVE  /\ L[0] = [c \in Product |-> IF c = p THEN 1 ELSE 0]
           /\ \A n \in Nat : L[n] \in [Product -> Int] /\ L[n + 1] = NeededFor(L[n])
  <1>2. ASSUME NEW m \in Nat
        PROVE  L[m] = IF m = 0 THEN [c \in Product |-> IF c = p THEN 1 ELSE 0] ELSE NeededFor(L[m - 1])
    BY DEF IsExplosion
  <1>4. L[0] = [c \in Product |-> IF c = p THEN 1 ELSE 0]
    BY <1>2
  <1>5. ASSUME NEW m \in Nat
        PROVE  L[m + 1] = NeededFor(L[m])
    <2>1. m + 1 \in Nat /\ m + 1 # 0 /\ (m + 1) - 1 = m
      OBVIOUS
    <2> QED BY <1>2, <2>1
  <1>6. ASSUME NEW n \in Nat PROVE L[n] \in [Product -> Int]
    <2> DEFINE T == {k \in Nat : L[k] \notin [Product -> Int]}
    <2> SUFFICES ASSUME T # {} PROVE FALSE
      OBVIOUS
    <2>1. PICK k \in T : \A j \in T : k <= j
      BY LeastNatural
    <2>2. k \in Nat /\ L[k] \notin [Product -> Int]
      OBVIOUS
    <2>3. k # 0
      BY <1>4, <2>2
    <2>4. PICK j \in Nat : k = j + 1
      <3>1. k - 1 \in Nat /\ k = (k - 1) + 1
        BY <2>2, <2>3
      <3> QED BY <3>1
    <2>5. L[j] \in [Product -> Int]
      BY <2>1, <2>4
    <2>6. NeededFor(L[j]) \in [Product -> Int]
      BY <2>5, NeededIsWeighted
    <2> QED BY <1>5, <2>2, <2>4, <2>6
  <1> QED BY <1>4, <1>5, <1>6

\* Nothing is needed any more after as many levels as there are products.
LEMMA ExplosionEnds ==
    ASSUME StructureTypeOK, Ascends(Edges), NEW p \in Product, NEW L, IsExplosion(L, p)
    PROVE  Depth \in Nat /\ \A c \in Product : L[Depth][c] = 0
  <1> DEFINE Gone(n, c) == \A k \in Nat : n <= k => L[k][c] = 0
             U == [n \in Nat |-> {c \in Product : ~Gone(n, c)}]
  <1>0. IsFiniteSet(Product)
    BY ProductAssumption
  <1>1. U \in [Nat -> SUBSET Product]
    OBVIOUS
  <1>2. ASSUME NEW n \in Nat, NEW c \in Product, Gone(n, c)
        PROVE  Gone(n + 1, c)
    <2>1. \A m \in Nat : n + 1 <= m => n <= m
      OBVIOUS
    <2> QED BY <1>2, <2>1
  <1>3. ASSUME NEW n \in Nat, NEW c \in Product,
               \A m \in Product : (\E y \in Lines(m) : y.part = c) => Gone(n, m)
        PROVE  Gone(n + 1, c)
    <2> SUFFICES ASSUME NEW k \in Nat, n + 1 <= k PROVE L[k][c] = 0
      OBVIOUS
    <2>1. PICK j \in Nat : k = j + 1 /\ n <= j
      <3>1. k - 1 \in Nat /\ k = (k - 1) + 1 /\ n <= k - 1
        OBVIOUS
      <3> QED BY <3>1
    <2>2. L[j] \in [Product -> Int] /\ L[k] = NeededFor(L[j])
      <3>1. L[j] \in [Product -> Int] /\ L[j + 1] = NeededFor(L[j])
        BY ExplosionByLevel
      <3> QED BY <2>1, <3>1
    <2> DEFINE g == [m \in Product |-> L[j][m] * Weight(m, c)]
    <2>3. L[k][c] = SumFunction(g)
      BY <2>2, NeededIsWeighted
    <2>4. \A m \in Product : g[m] = 0
      <3> SUFFICES ASSUME NEW m \in Product PROVE g[m] = 0
        OBVIOUS
      <3>1. PICK a \in Int, w \in Int : a = L[j][m] /\ w = Weight(m, c)
        BY <2>2, WeightIsInteger
      <3>2. a = 0 \/ w = 0
        BY <1>3, <2>1, <3>1, NothingTaken
      <3>3. g[m] = a * w
        BY <3>1
      <3> HIDE DEF g
      <3> QED BY <3>1, <3>2, <3>3, Products
    <2>5. DOMAIN g = Product
      OBVIOUS
    <2> HIDE DEF g
    <2> QED BY <1>0, <2>3, <2>4, <2>5, SumOfZeros DEF SumFunction
  <1> HIDE DEF Gone
  <1>4. ASSUME NEW n \in Nat
        PROVE  U[n + 1] \subseteq U[n] /\ (U[n] # {} => U[n + 1] # U[n])
    <2>1. U[n] = {q \in Product : ~Gone(n, q)} /\ U[n + 1] = {q \in Product : ~Gone(n + 1, q)}
      OBVIOUS
    <2> HIDE DEF U
    <2>2. U[n + 1] \subseteq U[n]
      BY <1>2, <2>1
    <2>3. ASSUME U[n] # {} PROVE U[n + 1] # U[n]
      <3>1. PICK c \in U[n] : \A e \in Edges : e[2] = c => e[1] \notin U[n]
        BY <2>1, <2>3 DEF Ascends
      <3>2. c \in Product
        BY <2>1
      <3>3. ASSUME NEW m \in Product, NEW y \in Lines(m), y.part = c PROVE Gone(n, m)
        <4>1. PICK e \in Edges : e = <<m, c>>
          BY <3>3, LinesAreRows
        <4>2. e[1] = m /\ e[2] = c
          BY <4>1
        <4> QED BY <2>1, <3>1, <4>1, <4>2
      <3> QED BY <1>3, <2>1, <3>1, <3>2, <3>3
    <2> QED BY <2>2, <2>3
  <1>5. Depth \in Nat /\ U[Depth] = {}
    <2> HIDE DEF U
    <2> QED BY <1>0, <1>1, <1>4, Vanishes DEF Depth
  <1>6. \A c \in Product : Gone(Depth, c)
    BY <1>5
  <1> QED BY <1>5, <1>6 DEF Gone

-----------------------------------------------------------------------------
(* Rollup and explosion agree. A level is worth the bought parts of the    *)
(* next one and what is left to make; summing over all levels, and turning *)
(* the sum over levels of parts into one over parts of levels, gives the   *)
(* cost of a product as the price of all it takes.                         *)

\* What one unit of a product that is made costs, and what of that is bought.
Worth(c) == IF c \in Made THEN Rollup[Depth][c] ELSE 0
Paid(m)  == IF m \in Made THEN Purchase(m) ELSE 0

\* h has k times the values of g.
AreMultiples(h, k, g, S) == k \in Int /\ \A x \in S : g[x] \in Int /\ h[x] = k * g[x]

LEMMA SumScaled ==
    ASSUME NEW g, NEW h, NEW k, NEW S, IsFiniteSet(S), AreMultiples(h, k, g, S)
    PROVE  SumFunctionOnSet(h, S) = k * SumFunctionOnSet(g, S) /\ SumFunctionOnSet(g, S) \in Int
  <1>0. k \in Int /\ \A x \in S : g[x] \in Int /\ h[x] = k * g[x]
    BY DEF AreMultiples
  <1> DEFINE f == [x \in S |-> 0]
  <1>1. \A x \in S : f[x] \in Int /\ f[x] = 0
    OBVIOUS
  <1> HIDE DEF f
  <1>2. \A x \in S : h[x] = f[x] + k * g[x]
    <2> SUFFICES ASSUME NEW x \in S PROVE h[x] = f[x] + k * g[x]
      OBVIOUS
    <2>1. PICK a \in Int : a = k * g[x]
      BY <1>0, Products
    <2>2. h[x] = a /\ f[x] = 0
      BY <1>0, <1>1, <2>1
    <2> QED BY <2>1, <2>2
  <1>3. SumFunctionOnSet(h, S) = SumFunctionOnSet(f, S) + k * SumFunctionOnSet(g, S)
    BY <1>0, <1>1, <1>2, SumIsLinear
  <1>4. SumFunctionOnSet(f, S) = 0
    BY <1>1, SumOfZeros
  <1>5. SumFunctionOnSet(g, S) \in Int
    BY <1>0, SumIsInteger
  <1>6. PICK b \in Int : b = k * SumFunctionOnSet(g, S)
    BY <1>0, <1>5, Products
  <1> QED BY <1>3, <1>4, <1>5, <1>6

LEMMA WorthIsInteger ==
    ASSUME StructureTypeOK, NEW c \in Product
    PROVE  Worth(c) \in Int /\ Paid(c) \in Int
  <1>1. Depth \in Nat
    BY ProductAssumption, FS_CardinalityType DEF Depth
  <1>2. Rollup[Depth][c] \in Int
    BY <1>1, RollupByLevel
  <1>3. Purchase(c) \in Int
    <2> DEFINE S == BoughtFor(c)
               f == [y \in S |-> y.quantity * y.cost]
    <2>1. S \in SUBSET Lines(c) /\ DOMAIN f = S /\ Purchase(c) = SumFunction(f)
      BY DEF BoughtFor, Purchase
    <2>2. \A y \in S : f[y] \in Int
      <3> SUFFICES ASSUME NEW y \in S PROVE f[y] \in Int
        OBVIOUS
      <3>1. PICK a \in Int, b \in Int : a = y.quantity /\ b = y.cost
        BY <2>1, LinesAreRows
      <3>2. f[y] = a * b
        BY <3>1
      <3> HIDE DEF f
      <3> QED BY <3>2, Products
    <2> HIDE DEF f, S
    <2>3. IsFiniteSet(S)
      BY <2>1, LinesAreRows, FS_Subset
    <2> QED BY <2>1, <2>2, <2>3, SumIsInteger DEF SumFunction
  <1> QED BY <1>2, <1>3 DEF Worth, Paid

\* What the components of all lines are worth.
IsLineWorth(u, m) == \A y \in Lines(m) : u[y] = y.quantity * Worth(y.part)

\* Lines with the same component may be taken together.
LEMMA WorthByPart ==
    ASSUME StructureTypeOK, NEW m \in Product, NEW u, IsLineWorth(u, m)
    PROVE  SumFunctionOnSet(u, Lines(m))
              = SumFunctionOnSet([c \in Product |-> Worth(c) * Takes(m, c)], Product)
  <1> DEFINE S == Lines(m)
             F == [y \in S |-> [c \in Product |-> IF y.part = c THEN u[y] ELSE 0]]
             G == [c \in Product |-> [y \in S |-> IF y.part = c THEN u[y] ELSE 0]]
             byCol == [c \in Product |-> Worth(c) * Takes(m, c)]
  <1>0. IsFiniteSet(Product) /\ IsFiniteSet(S)
    BY ProductAssumption, LinesAreRows
  <1>1. ASSUME NEW y \in S
        PROVE  /\ y.part \in Product /\ y.quantity \in Int /\ u[y] \in Int
               /\ u[y] = y.quantity * Worth(y.part)
    <2>1. y.part \in Product /\ y.quantity \in Int
      BY LinesAreRows
    <2>2. u[y] = y.quantity * Worth(y.part)
      BY DEF IsLineWorth
    <2>3. Worth(y.part) \in Int
      BY <2>1, WorthIsInteger
    <2> QED BY <2>1, <2>2, <2>3, Products
  <1>2. ASSUME NEW y \in S, NEW c \in Product
        PROVE  /\ F[y][c] = IF y.part = c THEN u[y] ELSE 0
               /\ G[c][y] = F[y][c] /\ F[y][c] \in Int
    BY <1>1
  <1> HIDE DEF F, G
  <1>3. ASSUME NEW y \in S PROVE u[y] = SumFunctionOnSet(F[y], Product)
    <2>1. PICK c, f : c = y.part /\ f = F[y]
      OBVIOUS
    <2>2. c \in Product /\ f[c] = u[y] /\ \A d \in Product \ {c} : f[d] = 0
      BY <1>1, <1>2, <2>1
    <2>3. f[c] \in Int
      BY <1>1, <2>2
    <2>4. SumFunctionOnSet(f, Product) = SumFunctionOnSet(f, {c})
      <3>1. {c} \subseteq Product /\ \A d \in {c} : f[d] \in Int
        BY <2>2, <2>3
      <3> QED BY <1>0, <2>2, <3>1, SumSupport
    <2>5. SumFunctionOnSet(f, {c}) = f[c] + SumFunctionOnSet(f, {})
      <3>1. IsFiniteSet({c}) /\ c \in {c} /\ \A d \in {c} : f[d] \in Int
        BY <2>3, FS_Singleton
      <3>2. SumFunctionOnSet(f, {c}) = f[c] + SumFunctionOnSet(f, {c} \ {c})
        BY <3>1, SumRemove
      <3>3. {c} \ {c} = {}
        OBVIOUS
      <3> QED BY <3>2, <3>3
    <2>6. SumFunctionOnSet(f, {}) = 0
      BY SumEmpty
    <2> QED BY <2>1, <2>2, <2>3, <2>4, <2>5, <2>6
  <1>4. ASSUME NEW c \in Product PROVE byCol[c] = SumFunctionOnSet(G[c], S)
    <2> DEFINE K == {z \in S : z.part = c}
               q == [z \in K |-> z.quantity]
    <2>1. Takes(m, c) = SumFunction(q) /\ DOMAIN q = K /\ byCol[c] = Worth(c) * Takes(m, c)
      BY DEF Takes
    <2>2. K \in SUBSET S /\ \A z \in K : z.part = c /\ q[z] = z.quantity
      OBVIOUS
    <2>3. \A z \in S \ K : z.part # c
      OBVIOUS
    <2> HIDE DEF K, q, S, byCol
    <2>4. PICK g, h, k, T : g = q /\ h = G[c] /\ k = Worth(c) /\ T = K
      OBVIOUS
    <2>5. IsFiniteSet(T)
      BY <1>0, <2>2, <2>4, FS_Subset
    <2>6. ASSUME NEW z \in T PROVE g[z] \in Int /\ h[z] \in Int /\ h[z] = k * g[z]
      <3>1. z \in S /\ z.part = c /\ g[z] = z.quantity
        BY <2>2, <2>4
      <3>2. h[z] = u[z] /\ u[z] = z.quantity * k
        BY <1>1, <1>2, <2>4, <3>1
      <3>3. PICK a \in Int, b \in Int : a = z.quantity /\ b = k
        BY <1>1, <2>4, <3>1, WorthIsInteger
      <3>4. h[z] = a * b /\ g[z] = a /\ a * b = b * a /\ a * b \in Int
        BY <3>1, <3>2, <3>3, Products
      <3> QED BY <3>3, <3>4
    <2>7. AreMultiples(h, k, g, T)
      BY <2>4, <2>6, WorthIsInteger DEF AreMultiples
    <2>8. SumFunctionOnSet(h, T) = k * SumFunctionOnSet(g, T)
      BY <2>5, <2>7, SumScaled
    <2>9. SumFunctionOnSet(h, S) = SumFunctionOnSet(h, T)
      <3>1. T \subseteq S /\ \A z \in T : h[z] \in Int
        BY <2>2, <2>4, <2>6
      <3>2. \A z \in S \ T : h[z] = 0
        BY <1>2, <2>3, <2>4
      <3> QED BY <1>0, <3>1, <3>2, SumSupport
    <2> QED BY <2>1, <2>4, <2>8, <2>9 DEF SumFunction
  <1> HIDE DEF byCol, S
  <1>5. AreTotals(u, byCol, F, G, S, Product)
    BY <1>2, <1>3, <1>4 DEF AreTotals
  <1>6. SumFunctionOnSet(u, S) = SumFunctionOnSet(byCol, Product)
    BY <1>0, <1>5, SumExchange
  <1> QED BY <1>6 DEF S, byCol

\* A product costs what its components cost and what is bought for it.
LEMMA WorthOfComponents ==
    ASSUME StructureTypeOK, Edges \subseteq Product \X Product, Descends(Edges), NEW m \in Product
    PROVE  Worth(m) = SumFunction([c \in Product |-> Weight(m, c) * Worth(c)]) + Paid(m)
  <1> DEFINE g == [c \in Product |-> Weight(m, c) * Worth(c)]
             below == Rollup[Depth]
             S == {y \in Lines(m) : LineCost(y, below) # Unknown}
             f == [y \in S |-> y.quantity * LineCost(y, below)]
  <1>0. IsFiniteSet(Product) /\ IsFiniteSet(Lines(m)) /\ DOMAIN g = Product /\ DOMAIN f = S
    BY ProductAssumption, LinesAreRows
  <1>1. Depth \in Nat /\ below \in [Product -> Int] /\ below[m] = BillCost(m, below)
    BY RollupIsDone, RollupByLevel
  <1>2. CASE m \notin Made
    <2>1. ASSUME NEW c \in Product PROVE g[c] = 0
      <3>1. Weight(m, c) = 0
        BY <1>2 DEF Weight
      <3>2. g[c] = 0 * Worth(c)
        BY <3>1
      <3> HIDE DEF g
      <3> QED BY <3>2, WorthIsInteger, Products
    <2> HIDE DEF g
    <2>2. SumFunction(g) = 0
      BY <1>0, <2>1, SumOfZeros DEF SumFunction
    <2>3. Worth(m) = 0 /\ Paid(m) = 0
      BY <1>2 DEF Worth, Paid
    <2> QED BY <2>2, <2>3 DEF g
  <1>3. CASE m \in Made
    <2> DEFINE u == [y \in Lines(m) |-> y.quantity * Worth(y.part)]
               t == [y \in Lines(m) |-> IF y \in S THEN f[y] ELSE 0]
               B == BoughtFor(m)
               q == [y \in B |-> y.quantity * y.cost]
               v == [y \in Lines(m) |-> IF y \in B THEN q[y] ELSE 0]
    <2>1. Worth(m) = below[m] /\ below[m] # Unknown
      BY <1>3 DEF Worth, Made
    <2>2. below[m] = SumFunction(f)
      <3>1. below[m] = IF S = {} THEN Unknown ELSE SumFunction(f)
        BY <1>1 DEF BillCost
      <3> HIDE DEF S, f
      <3> QED BY <2>1, <3>1
    <2>3. S \subseteq Lines(m) /\ B \subseteq Lines(m)
      BY DEF BoughtFor
    <2>4. ASSUME NEW y \in Lines(m)
          PROVE  u[y] \in Int /\ v[y] \in Int /\ t[y] = u[y] + 1 * v[y]
      <3>1. PICK n \in Int, w \in Int, c \in Int, d \in Int :
               n = y.quantity /\ w = Worth(y.part) /\ c = y.cost /\ d = below[y.part]
        BY <1>1, LinesAreRows, WorthIsInteger
      <3>2. n * w \in Int /\ n * c \in Int /\ n * 0 = 0 /\ 1 * (n * c) = n * c /\ 1 * 0 = 0
        BY <3>1, Products
      <3>3. y.part \in Product
        BY LinesAreRows
      <3>4. u[y] = n * w /\ v[y] = IF y \in B THEN n * c ELSE 0
        BY <3>1
      <3>5. t[y] = IF y \in S THEN n * LineCost(y, below) ELSE 0
        BY <3>1
      <3>6. y \in B <=> y.part \notin Made /\ c # Unknown
        BY <3>1 DEF BoughtFor
      <3>7. y \in S <=> LineCost(y, below) # Unknown
        OBVIOUS
      <3>8. y.part \in Made <=> d # Unknown
        BY <3>1, <3>3 DEF Made
      <3>9. LineCost(y, below) = IF d # Unknown THEN d ELSE c
        BY <3>1 DEF LineCost
      <3>10. w = IF d # Unknown THEN d ELSE 0
        BY <3>1, <3>8 DEF Worth
      <3> HIDE DEF u, v, t, S, B, below
      <3>11. CASE d # Unknown
        <4>1. y \in S /\ y \notin B /\ w = d
          BY <3>6, <3>7, <3>8, <3>9, <3>10, <3>11
        <4>2. t[y] = n * w /\ v[y] = 0
          BY <3>4, <3>5, <3>9, <3>11, <4>1
        <4> QED BY <3>2, <3>4, <4>2
      <3>12. CASE d = Unknown /\ c # Unknown
        <4>1. y \in S /\ y \in B /\ w = 0
          BY <3>6, <3>7, <3>8, <3>9, <3>10, <3>12
        <4>2. t[y] = n * c /\ v[y] = n * c /\ u[y] = 0
          BY <3>2, <3>4, <3>5, <3>9, <3>12, <4>1
        <4> QED BY <3>2, <4>2
      <3>13. CASE d = Unknown /\ c = Unknown
        <4>1. y \notin S /\ y \notin B /\ w = 0
          BY <3>6, <3>7, <3>8, <3>9, <3>10, <3>13
        <4>2. t[y] = 0 /\ v[y] = 0 /\ u[y] = 0
          BY <3>2, <3>4, <3>5, <4>1
        <4> QED BY <3>2, <4>2
      <3> QED BY <3>11, <3>12, <3>13
    <2>5. \A y \in S : t[y] = f[y]
      BY <2>3
    <2>6. \A y \in Lines(m) \ S : t[y] = 0
      OBVIOUS
    <2>7. \A y \in B : v[y] = q[y]
      BY <2>3
    <2>8. \A y \in Lines(m) \ B : v[y] = 0
      OBVIOUS
    <2>9. Paid(m) = SumFunction(q) /\ DOMAIN q = B
      BY <1>3 DEF Paid, Purchase
    <2>10. IsLineWorth(u, m)
      BY DEF IsLineWorth
    <2> HIDE DEF f, g, S, B, q, t, u, v
    <2>11. IsFiniteSet(S) /\ IsFiniteSet(B)
      BY <1>0, <2>3, FS_Subset
    <2>12. \A y \in Lines(m) : t[y] \in Int
      <3> SUFFICES ASSUME NEW y \in Lines(m) PROVE t[y] \in Int
        OBVIOUS
      <3>1. PICK a \in Int, b \in Int : a = u[y] /\ b = v[y]
        BY <2>4
      <3>2. t[y] = a + 1 * b
        BY <2>4, <3>1
      <3> QED BY <3>2
    <2>13. SumFunction(f) = SumFunctionOnSet(t, Lines(m))
      <3>1. SumFunctionOnSet(t, Lines(m)) = SumFunctionOnSet(t, S)
        BY <1>0, <2>3, <2>6, <2>12, SumSupport
      <3>2. SumFunctionOnSet(t, S) = SumFunctionOnSet(f, S)
        BY <2>5, <2>11, SumSameValues
      <3> QED BY <1>0, <3>1, <3>2 DEF SumFunction
    <2>14. Paid(m) = SumFunctionOnSet(v, Lines(m))
      <3>1. SumFunctionOnSet(v, Lines(m)) = SumFunctionOnSet(v, B)
        BY <1>0, <2>3, <2>4, <2>8, SumSupport
      <3>2. SumFunctionOnSet(v, B) = SumFunctionOnSet(q, B)
        BY <2>7, <2>11, SumSameValues
      <3> QED BY <2>9, <3>1, <3>2 DEF SumFunction
    <2>15. SumFunctionOnSet(t, Lines(m))
              = SumFunctionOnSet(u, Lines(m)) + 1 * SumFunctionOnSet(v, Lines(m))
      <3>1. PICK one : one = 1
        OBVIOUS
      <3>2. one \in Int /\ \A y \in Lines(m) : u[y] \in Int /\ v[y] \in Int /\ t[y] = u[y] + one * v[y]
        BY <2>4, <3>1
      <3> QED BY <1>0, <3>1, <3>2, SumIsLinear
    <2>16. SumFunctionOnSet(u, Lines(m)) = SumFunctionOnSet(g, Product)
      <3> DEFINE byPart == [c \in Product |-> Worth(c) * Takes(m, c)]
      <3>1. \A c \in Product : byPart[c] = g[c]
        <4> SUFFICES ASSUME NEW c \in Product PROVE byPart[c] = g[c]
          OBVIOUS
        <4>1. PICK a \in Int, b \in Int : a = Worth(c) /\ b = Takes(m, c)
          BY WorthIsInteger, TakesIsInteger
        <4>2. byPart[c] = a * b /\ g[c] = b * a
          BY <1>3, <4>1 DEF g, Weight
        <4> QED BY <4>2, Products
      <3>2. SumFunctionOnSet(u, Lines(m)) = SumFunctionOnSet(byPart, Product)
        BY <2>10, WorthByPart
      <3> HIDE DEF byPart
      <3> QED BY <1>0, <3>1, <3>2, SumSameValues
    <2>17. Worth(m) = SumFunction(g) + 1 * Paid(m)
      BY <1>0, <2>1, <2>2, <2>13, <2>14, <2>15, <2>16 DEF SumFunction
    <2>18. PICK a \in Int : a = Paid(m)
      BY WorthIsInteger
    <2>19. 1 * a = a
      BY <2>18
    <2> QED BY <2>17, <2>18, <2>19 DEF g
  <1> QED BY <1>2, <1>3

\* What a level is worth, and what is paid for the bought parts in it.
LevelWorth(level) == SumFunction([c \in Product |-> level[c] * Worth(c)])
LevelPaid(level)  == SumFunction([c \in Product |-> level[c] * Paid(c)])

LEMMA LevelIsInteger ==
    ASSUME StructureTypeOK, NEW level \in [Product -> Int]
    PROVE  LevelWorth(level) \in Int /\ LevelPaid(level) \in Int
  <1> DEFINE w == [c \in Product |-> level[c] * Worth(c)]
             q == [c \in Product |-> level[c] * Paid(c)]
  <1>1. ASSUME NEW c \in Product PROVE w[c] \in Int /\ q[c] \in Int
    BY WorthIsInteger, Products
  <1>2. DOMAIN w = Product /\ DOMAIN q = Product
    OBVIOUS
  <1>3. LevelWorth(level) = SumFunction(w) /\ LevelPaid(level) = SumFunction(q)
    BY DEF LevelWorth, LevelPaid
  <1> HIDE DEF w, q
  <1> QED BY <1>1, <1>2, <1>3, ProductAssumption, SumIsInteger DEF SumFunction

\* A level is worth what the next one is, and what is bought for it.
LEMMA LevelStep ==
    ASSUME StructureTypeOK, Edges \subseteq Product \X Product, Descends(Edges),
           NEW level \in [Product -> Int]
    PROVE  LevelWorth(level) = LevelWorth(NeededFor(level)) + LevelPaid(level)
  <1> DEFINE needed == NeededFor(level)
             each(m) == [c \in Product |-> Weight(m, c) * Worth(c)]
             F == [m \in Product |-> [c \in Product |-> level[m] * (Weight(m, c) * Worth(c))]]
             G == [c \in Product |-> [m \in Product |-> F[m][c]]]
             of(c) == [m \in Product |-> level[m] * Weight(m, c)]
             w == [m \in Product |-> level[m] * Worth(m)]
             p == [m \in Product |-> level[m] * Paid(m)]
             made == [m \in Product |-> level[m] * SumFunction(each(m))]
             nw == [c \in Product |-> needed[c] * Worth(c)]
  <1>0. IsFiniteSet(Product)
    BY ProductAssumption
  <1>1. ASSUME NEW m \in Product, NEW c \in Product
        PROVE  /\ each(m)[c] \in Int /\ of(c)[m] \in Int
               /\ F[m][c] = level[m] * each(m)[c]
               /\ F[m][c] = Worth(c) * of(c)[m]
               /\ G[c][m] = F[m][c] /\ F[m][c] \in Int
    <2>1. /\ F[m][c] = level[m] * (Weight(m, c) * Worth(c))
          /\ each(m)[c] = Weight(m, c) * Worth(c) /\ of(c)[m] = level[m] * Weight(m, c)
          /\ G[c][m] = F[m][c]
      OBVIOUS
    <2>2. PICK a \in Int, b \in Int, d \in Int : a = level[m] /\ b = Weight(m, c) /\ d = Worth(c)
      BY WeightIsInteger, WorthIsInteger
    <2> HIDE DEF F, G, each, of
    <2>3. b * d \in Int /\ a * b \in Int /\ a * (b * d) = (a * b) * d /\ (a * b) * d = d * (a * b)
      BY Products
    <2>4. a * (b * d) \in Int
      BY <2>3, Products
    <2> QED BY <2>1, <2>2, <2>3, <2>4
  <1>2. ASSUME NEW m \in Product
        PROVE  /\ made[m] = SumFunctionOnSet(F[m], Product)
               /\ made[m] \in Int /\ p[m] \in Int /\ w[m] = made[m] + 1 * p[m]
    <2>1. DOMAIN F[m] = Product /\ DOMAIN each(m) = Product
      OBVIOUS
    <2>2. /\ made[m] = level[m] * SumFunction(each(m)) /\ p[m] = level[m] * Paid(m)
          /\ w[m] = level[m] * Worth(m)
      OBVIOUS
    <2>3. Worth(m) = SumFunction(each(m)) + Paid(m)
      BY WorthOfComponents
    <2> HIDE DEF F, G, each, made, p, w, of
    <2>4. PICK h, g, k : h = F[m] /\ g = each(m) /\ k = level[m]
      OBVIOUS
    <2>5. AreMultiples(h, k, g, Product)
      BY <1>1, <2>4 DEF AreMultiples
    <2>6. SumFunctionOnSet(h, Product) = k * SumFunctionOnSet(g, Product)
          /\ SumFunctionOnSet(g, Product) \in Int
      BY <1>0, <2>5, SumScaled
    <2>7. SumFunction(each(m)) = SumFunctionOnSet(g, Product)
      BY <2>1, <2>4 DEF SumFunction
    <2>8. PICK a \in Int, b \in Int, d \in Int :
             a = level[m] /\ b = SumFunction(each(m)) /\ d = Paid(m)
      BY <2>6, <2>7, WorthIsInteger
    <2>9. /\ a * (b + d) = a * b + a * d /\ a * b \in Int /\ a * d \in Int
          /\ 1 * (a * d) = a * d
      BY Products
    <2>10. made[m] = a * b /\ p[m] = a * d /\ w[m] = a * (b + d)
      BY <2>2, <2>3, <2>8
    <2> QED BY <2>4, <2>6, <2>7, <2>8, <2>9, <2>10
  <1>3. ASSUME NEW c \in Product
        PROVE  nw[c] = SumFunctionOnSet(G[c], Product)
    <2>1. DOMAIN of(c) = Product /\ nw[c] = needed[c] * Worth(c)
      OBVIOUS
    <2>2. needed[c] = SumFunction(of(c)) /\ needed[c] \in Int
      BY NeededIsWeighted
    <2> HIDE DEF F, G, of, nw, needed, each
    <2>3. PICK h, g, k : h = G[c] /\ g = of(c) /\ k = Worth(c)
      OBVIOUS
    <2>4. AreMultiples(h, k, g, Product)
      BY <1>1, <2>3, WorthIsInteger DEF AreMultiples
    <2>5. SumFunctionOnSet(h, Product) = k * SumFunctionOnSet(g, Product)
      BY <1>0, <2>4, SumScaled
    <2>6. needed[c] = SumFunctionOnSet(g, Product)
      BY <2>1, <2>2, <2>3 DEF SumFunction
    <2>7. PICK a \in Int, d \in Int : a = needed[c] /\ d = Worth(c)
      BY <2>2, WorthIsInteger
    <2>8. a * d = d * a
      BY Products
    <2> QED BY <2>1, <2>3, <2>5, <2>6, <2>7, <2>8
  <1>4. SumFunctionOnSet(made, Product) = SumFunctionOnSet(nw, Product)
    <2> HIDE DEF F, G, made, nw, each, of, p, w
    <2>1. AreTotals(made, nw, F, G, Product, Product)
      BY <1>1, <1>2, <1>3 DEF AreTotals
    <2> QED BY <1>0, <2>1, SumExchange
  <1>5. /\ DOMAIN w = Product /\ DOMAIN p = Product /\ DOMAIN nw = Product
        /\ LevelWorth(level) = SumFunction(w)
        /\ LevelWorth(needed) = SumFunction(nw) /\ LevelPaid(level) = SumFunction(p)
    BY DEF LevelWorth, LevelPaid
  <1>6. LevelPaid(level) \in Int
    BY LevelIsInteger
  <1> HIDE DEF F, G, made, nw, each, of, p, w, needed
  <1>7. SumFunctionOnSet(w, Product)
           = SumFunctionOnSet(made, Product) + 1 * SumFunctionOnSet(p, Product)
    <2>1. PICK one : one = 1
      OBVIOUS
    <2>2. one \in Int /\ \A m \in Product : made[m] \in Int /\ p[m] \in Int /\ w[m] = made[m] + one * p[m]
      BY <1>2, <2>1
    <2> QED BY <1>0, <2>1, <2>2, SumIsLinear
  <1>8. LevelWorth(level) = LevelWorth(needed) + 1 * LevelPaid(level)
    BY <1>4, <1>5, <1>7 DEF SumFunction
  <1>9. PICK a \in Int : a = LevelPaid(level)
    BY <1>6
  <1>10. 1 * a = a
    BY <1>9
  <1> QED BY <1>8, <1>9, <1>10 DEF needed

\* At the top there is one of the product itself.
LEMMA FirstLevel ==
    ASSUME StructureTypeOK, NEW p \in Product, NEW L, IsExplosion(L, p)
    PROVE  LevelWorth(L[0]) = Worth(p)
  <1> DEFINE w == [c \in Product |-> L[0][c] * Worth(c)]
  <1>0. IsFiniteSet(Product) /\ DOMAIN w = Product /\ LevelWorth(L[0]) = SumFunction(w)
    BY ProductAssumption DEF LevelWorth
  <1>1. L[0] = [c \in Product |-> IF c = p THEN 1 ELSE 0]
    BY ExplosionByLevel
  <1>2. ASSUME NEW c \in Product
        PROVE  w[c] = IF c = p THEN Worth(p) ELSE 0
    <2>1. w[c] = L[0][c] * Worth(c) /\ Worth(c) \in Int
      BY WorthIsInteger
    <2>2. L[0][c] = IF c = p THEN 1 ELSE 0
      BY <1>1
    <2> HIDE DEF w
    <2>3. CASE c = p
      <3>1. w[c] = 1 * Worth(c)
        BY <2>1, <2>2, <2>3
      <3> QED BY <2>1, <2>3, <3>1, Products
    <2>4. CASE c # p
      <3>1. w[c] = 0 * Worth(c)
        BY <2>1, <2>2, <2>4
      <3> QED BY <2>1, <2>4, <3>1, Products
    <2> QED BY <2>3, <2>4
  <1>3. Worth(p) \in Int
    BY WorthIsInteger
  <1> HIDE DEF w
  <1>4. SumFunctionOnSet(w, Product) = SumFunctionOnSet(w, {p})
    <2>1. {p} \subseteq Product /\ \A c \in {p} : w[c] \in Int
      BY <1>2, <1>3
    <2>2. \A c \in Product \ {p} : w[c] = 0
      BY <1>2
    <2> QED BY <1>0, <2>1, <2>2, SumSupport
  <1>5. SumFunctionOnSet(w, {p}) = w[p] + SumFunctionOnSet(w, {})
    <2>1. IsFiniteSet({p}) /\ p \in {p} /\ \A c \in {p} : w[c] \in Int
      BY <1>2, <1>3, FS_Singleton
    <2>2. SumFunctionOnSet(w, {p}) = w[p] + SumFunctionOnSet(w, {p} \ {p})
      BY <2>1, SumRemove
    <2>3. {p} \ {p} = {}
      OBVIOUS
    <2> QED BY <2>2, <2>3
  <1>6. SumFunctionOnSet(w, {}) = 0 /\ w[p] = Worth(p)
    BY <1>2, SumEmpty
  <1>7. SumFunctionOnSet(w, {p}) = Worth(p)
    BY <1>3, <1>5, <1>6
  <1>8. SumFunction(w) = SumFunctionOnSet(w, Product)
    BY <1>0 DEF SumFunction
  <1> QED BY <1>0, <1>4, <1>7, <1>8

LEMMA FiniteStretch ==
    ASSUME NEW n \in Nat
    PROVE  IsFiniteSet(1 .. n)
  <1>1. 1 \in Int /\ n \in Int
    OBVIOUS
  <1> QED BY <1>1, FS_Interval

\* A product costs what is bought on the first levels and what is left to make.
LEMMA LevelsAddUp ==
    ASSUME StructureTypeOK, Edges \subseteq Product \X Product, Descends(Edges),
           NEW p \in Product, NEW L, IsExplosion(L, p), NEW n \in Nat,
           NEW paid, \A i \in Nat \ {0} : paid[i] = LevelPaid(L[i - 1])
    PROVE  Worth(p) = LevelWorth(L[n]) + SumFunctionOnSet(paid, 1 .. n)
  <1> DEFINE T == {k \in Nat : Worth(p) # LevelWorth(L[k]) + SumFunctionOnSet(paid, 1 .. k)}
  <1>0. LevelWorth(L[0]) = Worth(p)
    BY FirstLevel
  <1> SUFFICES ASSUME T # {} PROVE FALSE
    OBVIOUS
  <1>1. PICK k \in T : \A j \in T : k <= j
    BY LeastNatural
  <1>2. k \in Nat /\ Worth(p) # LevelWorth(L[k]) + SumFunctionOnSet(paid, 1 .. k)
    OBVIOUS
  <1>3. ASSUME NEW i \in Nat
        PROVE  LevelWorth(L[i]) \in Int /\ (i # 0 => paid[i] \in Int)
    <2>1. LevelWorth(L[i]) \in Int
      BY ExplosionByLevel, LevelIsInteger
    <2>2. ASSUME i # 0 PROVE paid[i] \in Int
      <3>1. PICK h \in Nat : h = i - 1
        BY <2>2
      <3>2. paid[i] = LevelPaid(L[h])
        BY <2>2, <3>1
      <3> QED BY <3>2, ExplosionByLevel, LevelIsInteger
    <2> QED BY <2>1, <2>2
  <1>4. k # 0
    <2> SUFFICES ASSUME k = 0 PROVE FALSE
      OBVIOUS
    <2>1. 1 .. k = {} /\ SumFunctionOnSet(paid, {}) = 0
      BY SumEmpty
    <2>2. LevelWorth(L[0]) \in Int
      BY <1>3
    <2> QED BY <1>0, <1>2, <2>1, <2>2
  <1>5. PICK j \in Nat : k = j + 1
    <2>1. k - 1 \in Nat /\ k = (k - 1) + 1
      BY <1>2, <1>4
    <2> QED BY <2>1
  <1>6. Worth(p) = LevelWorth(L[j]) + SumFunctionOnSet(paid, 1 .. j)
    BY <1>1, <1>5
  <1>7. LevelWorth(L[j]) = LevelWorth(L[k]) + paid[k]
    <2>1. L[j] \in [Product -> Int] /\ L[k] = NeededFor(L[j])
      <3>1. L[j] \in [Product -> Int] /\ L[j + 1] = NeededFor(L[j])
        BY ExplosionByLevel
      <3> QED BY <1>5, <3>1
    <2>2. LevelWorth(L[j]) = LevelWorth(NeededFor(L[j])) + LevelPaid(L[j])
      BY <2>1, LevelStep
    <2>3. k \in Nat \ {0} /\ k - 1 = j
      BY <1>5
    <2>4. paid[k] = LevelPaid(L[j])
      BY <2>3
    <2> QED BY <2>1, <2>2, <2>4
  <1>8. SumFunctionOnSet(paid, 1 .. k) = paid[k] + SumFunctionOnSet(paid, 1 .. j)
    <2>1. k \notin 1 .. j /\ 1 .. k = (1 .. j) \union {k}
      BY <1>5
    <2>3. IsFiniteSet(1 .. j)
      BY FiniteStretch
    <2>2. \A i \in (1 .. j) \union {k} : paid[i] \in Int
      BY <1>3, <1>5
    <2> QED BY <2>1, <2>2, <2>3, SumInsert
  <1>9. SumFunctionOnSet(paid, 1 .. j) \in Int
    <2>1. PICK S : S = 1 .. j
      OBVIOUS
    <2>2. IsFiniteSet(S)
      BY <2>1, FiniteStretch
    <2>3. \A i \in S : paid[i] \in Int
      BY <1>3, <2>1
    <2>4. SumFunctionOnSet(paid, S) \in Int
      BY <2>2, <2>3, SumIsInteger
    <2> QED BY <2>1, <2>4
  <1>10. LevelWorth(L[k]) \in Int /\ paid[k] \in Int
    BY <1>2, <1>3, <1>4
  <1> QED BY <1>2, <1>6, <1>7, <1>8, <1>9, <1>10

\* The levels below a product, and what is paid on each.
Explosion(p) == CHOOSE L : IsExplosion(L, p)
PaidFor(p)   == [n \in Nat \ {0} |-> LevelPaid(Explosion(p)[n - 1])]

\* What is bought for a product on all levels is paid as often as it is needed.
LEMMA DemandIsPaid ==
    ASSUME StructureTypeOK, NEW p \in Product
    PROVE  /\ SumFunctionOnSet(PaidFor(p), 1 .. Depth)
                 = SumFunctionOnSet([c \in Product |-> Paid(c) * Demand(p)[c]], Product)
           /\ \A c \in Product : Demand(p)[c] \in Int
  <1> DEFINE L == Explosion(p)
             paid == PaidFor(p)
             F == [n \in 1 .. Depth |-> [c \in Product |-> L[n - 1][c] * Paid(c)]]
             G == [c \in Product |-> [n \in 1 .. Depth |-> L[n - 1][c] * Paid(c)]]
             of(c) == [n \in 1 .. Depth |-> L[n - 1][c]]
             byCol == [c \in Product |-> Paid(c) * Demand(p)[c]]
  <1>6. IsExplosion(L, p)
    BY ExplosionExists DEF Explosion
  <1>7. Demand(p) = [c \in Product |-> SumFunction([n \in 1 .. Depth |-> L[n - 1][c]])]
    BY DemandIsExplosion DEF Explosion
  <1>8. \A n \in Nat \ {0} : paid[n] = LevelPaid(L[n - 1])
    BY DEF PaidFor
  <1> HIDE DEF L, paid
  <1>0. /\ Depth \in Nat /\ IsFiniteSet(Product) /\ IsFiniteSet(1 .. Depth)
        /\ \A n \in 1 .. Depth : n \in Nat \ {0} /\ n - 1 \in Nat
    <2>1. Depth \in Nat /\ IsFiniteSet(Product)
      BY ProductAssumption, FS_CardinalityType DEF Depth
    <2>2. \A n \in 1 .. Depth : n \in Nat \ {0} /\ n - 1 \in Nat
      BY <2>1
    <2> QED BY <2>1, <2>2, FiniteStretch
  <1>1. ASSUME NEW n \in 1 .. Depth, NEW c \in Product
        PROVE  /\ F[n][c] = Paid(c) * L[n - 1][c] /\ F[n][c] \in Int
               /\ G[c][n] = F[n][c] /\ of(c)[n] = L[n - 1][c] /\ L[n - 1][c] \in Int
    <2>1. n - 1 \in Nat
      BY <1>0
    <2>2. L[n - 1] \in [Product -> Int]
      BY <1>6, <2>1, ExplosionByLevel
    <2>3. L[n - 1][c] \in Int /\ Paid(c) \in Int
      BY <2>2, WorthIsInteger
    <2>4. /\ F[n][c] = L[n - 1][c] * Paid(c) /\ G[c][n] = L[n - 1][c] * Paid(c)
          /\ of(c)[n] = L[n - 1][c]
      OBVIOUS
    <2> HIDE DEF F, G, of
    <2> QED BY <2>3, <2>4, Products
  <1>2. ASSUME NEW n \in 1 .. Depth
        PROVE  paid[n] = SumFunctionOnSet(F[n], Product)
    <2>1. F[n] = [c \in Product |-> L[n - 1][c] * Paid(c)] /\ DOMAIN F[n] = Product
      OBVIOUS
    <2> HIDE DEF F
    <2>2. paid[n] = LevelPaid(L[n - 1])
      BY <1>0, <1>8
    <2>3. LevelPaid(L[n - 1]) = SumFunction(F[n])
      BY <2>1 DEF LevelPaid
    <2> QED BY <2>1, <2>2, <2>3 DEF SumFunction
  <1>3. ASSUME NEW c \in Product
        PROVE  byCol[c] = SumFunctionOnSet(G[c], 1 .. Depth) /\ Demand(p)[c] \in Int
    <2>1. Demand(p)[c] = SumFunction(of(c)) /\ DOMAIN of(c) = 1 .. Depth
      BY <1>7
    <2>2. byCol[c] = Paid(c) * Demand(p)[c] /\ Paid(c) \in Int
      BY WorthIsInteger
    <2> HIDE DEF of, byCol, G, F
    <2>3. PICK g, h, k, S : g = of(c) /\ h = G[c] /\ k = Paid(c) /\ S = 1 .. Depth
      OBVIOUS
    <2>4. AreMultiples(h, k, g, S)
      BY <1>1, <2>2, <2>3 DEF AreMultiples
    <2>5. IsFiniteSet(S)
      BY <1>0, <2>3
    <2>6. SumFunctionOnSet(h, S) = k * SumFunctionOnSet(g, S) /\ SumFunctionOnSet(g, S) \in Int
      BY <2>4, <2>5, SumScaled
    <2> QED BY <2>1, <2>2, <2>3, <2>6 DEF SumFunction
  <1>4. AreTotals(paid, byCol, F, G, 1 .. Depth, Product)
    <2> HIDE DEF F, G, byCol, of
    <2> QED BY <1>1, <1>2, <1>3 DEF AreTotals
  <1>5. SumFunctionOnSet(paid, 1 .. Depth) = SumFunctionOnSet(byCol, Product)
    <2> HIDE DEF F, G, byCol
    <2> QED BY <1>0, <1>4, SumExchange
  <1> QED BY <1>3, <1>5 DEF paid

LEMMA RollupsExplode ==
    ASSUME StructureTypeOK, Edges \subseteq Product \X Product, Descends(Edges), Ascends(Edges),
           NEW p \in Made
    PROVE  Rollup[Depth][p] =
              SumFunction([m \in Made |-> Demand(p)[m] * Purchase(m)])
  <1> DEFINE L == Explosion(p)
             paid == PaidFor(p)
             byCol == [c \in Product |-> Paid(c) * Demand(p)[c]]
             f == [m \in Made |-> Demand(p)[m] * Purchase(m)]
  <1>0. p \in Product /\ IsFiniteSet(Product) /\ Depth \in Nat
    BY ProductAssumption, FS_CardinalityType DEF Made, Depth
  <1>1. IsExplosion(L, p)
    BY <1>0, ExplosionExists DEF Explosion
  <1>3. \A n \in Nat \ {0} : paid[n] = LevelPaid(L[n - 1])
    BY DEF PaidFor
  <1> HIDE DEF L, paid
  <1>4. Worth(p) = LevelWorth(L[Depth]) + SumFunctionOnSet(paid, 1 .. Depth)
    BY <1>0, <1>1, <1>3, LevelsAddUp
  <1>5. LevelWorth(L[Depth]) = 0
    <2> DEFINE w == [c \in Product |-> L[Depth][c] * Worth(c)]
    <2>1. ASSUME NEW c \in Product PROVE w[c] = 0
      <3>1. L[Depth][c] = 0
        BY <1>0, <1>1, ExplosionEnds
      <3>2. w[c] = 0 * Worth(c)
        BY <3>1
      <3> HIDE DEF w
      <3> QED BY <3>2, WorthIsInteger, Products
    <2>2. DOMAIN w = Product /\ LevelWorth(L[Depth]) = SumFunction(w)
      BY DEF LevelWorth
    <2> HIDE DEF w
    <2> QED BY <1>0, <2>1, <2>2, SumOfZeros DEF SumFunction
  <1>6. /\ SumFunctionOnSet(paid, 1 .. Depth) = SumFunctionOnSet(byCol, Product)
        /\ \A c \in Product : Demand(p)[c] \in Int
    BY <1>0, DemandIsPaid DEF paid
  <1>10. Made \subseteq Product /\ DOMAIN f = Made
    BY DEF Made
  <1>7. ASSUME NEW c \in Product PROVE byCol[c] \in Int
    <2>1. byCol[c] = Paid(c) * Demand(p)[c]
      OBVIOUS
    <2> HIDE DEF byCol
    <2> QED BY <1>6, <2>1, WorthIsInteger, Products
  <1>8. ASSUME NEW c \in Made PROVE byCol[c] = f[c]
    <2>1. c \in Product /\ Paid(c) = Purchase(c) /\ Paid(c) \in Int
      BY <1>10, WorthIsInteger DEF Paid
    <2>2. byCol[c] = Paid(c) * Demand(p)[c] /\ f[c] = Demand(p)[c] * Purchase(c)
      BY <2>1
    <2> HIDE DEF byCol, f
    <2> QED BY <1>6, <2>1, <2>2, Products
  <1>9. ASSUME NEW c \in Product \ Made PROVE byCol[c] = 0
    <2>1. Paid(c) = 0 /\ byCol[c] = Paid(c) * Demand(p)[c]
      BY DEF Paid
    <2>2. byCol[c] = 0 * Demand(p)[c]
      BY <2>1
    <2> HIDE DEF byCol
    <2> QED BY <1>6, <2>2, Products
  <1> HIDE DEF byCol, f
  <1>11. IsFiniteSet(Made)
    BY <1>0, <1>10, FS_Subset
  <1>12. SumFunctionOnSet(byCol, Product) = SumFunctionOnSet(byCol, Made)
    BY <1>0, <1>7, <1>9, <1>10, SumSupport
  <1>13. SumFunctionOnSet(byCol, Made) = SumFunctionOnSet(f, Made)
    BY <1>8, <1>11, SumSameValues
  <1>14. SumFunctionOnSet(byCol, Made) \in Int
    BY <1>7, <1>10, <1>11, SumIsInteger
  <1>15. Worth(p) = SumFunction(f)
    <2>1. Worth(p) = 0 + SumFunctionOnSet(f, Made)
      BY <1>4, <1>5, <1>6, <1>12, <1>13
    <2>2. SumFunctionOnSet(f, Made) \in Int
      BY <1>13, <1>14
    <2>3. Worth(p) = SumFunctionOnSet(f, Made)
      BY <2>1, <2>2
    <2> QED BY <1>10, <2>3 DEF SumFunction
  <1>16. Worth(p) = Rollup[Depth][p]
    BY <1>0 DEF Worth
  <1> QED BY <1>15, <1>16 DEF f

\* Whatever the sessions interleave and however many products there are, no
\* product is below itself as long as no two sessions added components at the
\* same time (check_cycle), and then rollup_cost returns the price of what the
\* structure explodes into, line by line.
THEOREM StructureIsSoundHolds == StructureSpec => []StructureIsSound
  <1>1. ASSUME StructureIInv PROVE StructureIsSound
    <2>1. StructureTypeOK /\ Edges \subseteq Product \X Product
      BY <1>1, EdgesAreOfProducts DEF StructureIInv, VersionsIInv
    <2>2. ASSUME ~crossed, NEW p \in Made
          PROVE  Rollup[Depth][p] =
                    SumFunction([m \in Made |-> Demand(p)[m] * Purchase(m)])
      <3>1. Descends(Edges) /\ Ascends(Edges)
        BY <1>1, <2>2 DEF StructureIInv
      <3> QED BY <2>1, <3>1, RollupsExplode
    <2>3. RollupIsExplosion
      BY <2>2 DEF RollupIsExplosion
    <2> QED BY <1>1, <2>1, <2>3, NoCycles DEF StructureIsSound
  <1> QED BY <1>1, StructureInductive, PTL

-----------------------------------------------------------------------------
(* Production scheduling: module Scheduling. The orders that keep a slot   *)
(* at the moment the first slot is free are an injection into the other    *)
(* slots, and at any earlier moment every slot is kept: the pigeonhole     *)
(* principle, both ways.                                                   *)

\* n orders, the k-th of them in slot at[k] from st[k] until u[k], and the slots
\* of P free from fr.
Loaded(n, at, st, u, fr, P) ==
    /\ n \in Nat /\ IsFiniteSet(P)
    /\ at \in [1 .. n -> P] /\ st \in [1 .. n -> Nat] /\ u \in [1 .. n -> Nat] /\ fr \in [P -> Nat]
    /\ \A k \in 1 .. n : u[k] <= fr[at[k]]
    /\ \A k \in 1 .. n : \A x \in P : st[k] <= fr[x]
    /\ \A j, k \in 1 .. n : j < k /\ at[j] = at[k] => u[j] <= st[k]
    /\ \A x \in P : fr[x] = 0 \/ \E k \in 1 .. n : at[k] = x /\ u[k] = fr[x]

Kept(n, u, t) == {k \in 1 .. n : u[k] > t}

\* The first moment at which n orders do not keep all slots of P.
FirstFree(n, u, P) ==
    Min({t \in {0} \union {u[j] : j \in 1 .. n} : Cardinality(Kept(n, u, t)) < Cardinality(P)})

\* The slots of n orders and the next one.
AndNext(n, at, best) == [k \in 1 .. (n + 1) |-> IF k = n + 1 THEN best ELSE at[k]]

LEMMA NoMoreThan ==
    ASSUME NEW S, NEW T, IsFiniteSet(T), NEW f \in [S -> T], \A x, y \in S : f[x] = f[y] => x = y
    PROVE  IsFiniteSet(S) /\ Cardinality(S) <= Cardinality(T)
  <1>1. f \in Injection(S, T)
    BY DEF Injection, IsInjective
  <1> QED BY <1>1, FS_Injection

\* A finite set of integers that is not empty has a least element.
LEMMA LeastInteger ==
    ASSUME NEW T, T \subseteq Int, IsFiniteSet(T), T # {}
    PROVE  \E n \in T : \A m \in T : n <= m
  <1> DEFINE Lower(n) == {m \in T : m < n}
             B == {Lower(n) : n \in T}
  <1>1. PICK t \in B : \A u \in B : Cardinality(t) <= Cardinality(u)
    <2>1. B \subseteq SUBSET T /\ B # {}
      OBVIOUS
    <2> HIDE DEF B
    <2> QED BY <2>1, LeastSubset
  <1>2. PICK n \in T : t = Lower(n)
    OBVIOUS
  <1>3. ASSUME NEW m \in T, m < n PROVE FALSE
    <2>1. m \in Int /\ n \in Int
      OBVIOUS
    <2>2. Lower(m) \subseteq Lower(n)
      <3>1. ASSUME NEW l \in T, l < m PROVE l < n
        BY <1>3, <2>1, <3>1
      <3> QED BY <3>1
    <2>3. m \in Lower(n) /\ m \notin Lower(m)
      BY <1>3, <2>1
    <2>4. IsFiniteSet(Lower(n))
      BY FS_Subset
    <2>5. Lower(m) \in B
      OBVIOUS
    <2>6. Cardinality(Lower(n)) <= Cardinality(Lower(m))
      BY <1>1, <1>2, <2>5
    <2> DEFINE L == Lower(n)
               M == Lower(m)
    <2> HIDE DEF Lower, B
    <2>7. Cardinality(M) <= Cardinality(L) /\ (Cardinality(M) = Cardinality(L) => M = L)
          /\ Cardinality(M) \in Nat /\ Cardinality(L) \in Nat
      BY <2>2, <2>4, FS_Subset, FS_CardinalityType
    <2> QED BY <2>3, <2>6, <2>7
  <1>4. \A m \in T : n <= m
    BY <1>3
  <1> QED BY <1>4

LEMMA KeptIsFinite ==
    ASSUME NEW n \in Nat, NEW u, NEW t
    PROVE  /\ IsFiniteSet(Kept(n, u, t)) /\ Cardinality(Kept(n, u, t)) \in Nat
           /\ Kept(n, u, t) \subseteq 1 .. n
  <1>1. IsFiniteSet(1 .. n)
    BY FS_Interval
  <1>2. Kept(n, u, t) \in SUBSET (1 .. n)
    BY DEF Kept
  <1>3. IsFiniteSet(Kept(n, u, t))
    BY <1>1, <1>2, FS_Subset
  <1> QED BY <1>2, <1>3, FS_CardinalityType

\* Before the first slot is free every slot is kept by an order.
LEMMA AllAreTaken ==
    ASSUME NEW n, NEW at, NEW st, NEW u, NEW fr, NEW P, Loaded(n, at, st, u, fr, P),
           NEW best \in P, \A x \in P : fr[best] <= fr[x],
           NEW t \in Nat, t < fr[best]
    PROVE  Cardinality(P) <= Cardinality(Kept(n, u, t))
  <1> DEFINE last == [x \in P |-> CHOOSE k \in 1 .. n : at[k] = x /\ u[k] = fr[x]]
  <1>1. ASSUME NEW x \in P
        PROVE  last[x] \in 1 .. n /\ at[last[x]] = x /\ u[last[x]] = fr[x]
    <2>1. fr[x] # 0
      BY DEF Loaded
    <2>2. \E k \in 1 .. n : at[k] = x /\ u[k] = fr[x]
      BY <2>1 DEF Loaded
    <2> QED BY <2>2
  <1>2. \A x \in P : last[x] \in Kept(n, u, t)
    BY <1>1 DEF Kept, Loaded
  <1>3. last \in [P -> Kept(n, u, t)]
    BY <1>2
  <1>4. \A x, y \in P : last[x] = last[y] => x = y
    BY <1>1
  <1>5. IsFiniteSet(Kept(n, u, t))
    BY KeptIsFinite DEF Loaded
  <1> HIDE DEF last
  <1> QED BY <1>3, <1>4, <1>5, NoMoreThan

\* At that moment no two orders keep the same slot, and none the first one.
LEMMA NoneIsShared ==
    ASSUME NEW n, NEW at, NEW st, NEW u, NEW fr, NEW P, Loaded(n, at, st, u, fr, P),
           NEW best \in P
    PROVE  /\ \A k \in Kept(n, u, fr[best]) : at[k] \in P /\ at[k] # best
           /\ \A j, k \in Kept(n, u, fr[best]) : at[j] = at[k] => j = k
  <1> DEFINE m == fr[best]
  <1>1. ASSUME NEW k \in Kept(n, u, m) PROVE at[k] \in P /\ at[k] # best
    BY <1>1 DEF Loaded, Kept
  <1>2. ASSUME NEW j \in Kept(n, u, m), NEW k \in Kept(n, u, m), at[j] = at[k], j < k PROVE FALSE
    <2>1. /\ j \in 1 .. n /\ k \in 1 .. n /\ u[j] > m
          /\ u[j] \in Nat /\ st[k] \in Nat /\ m \in Nat
      BY DEF Loaded, Kept
    <2>2. u[j] <= st[k] /\ st[k] <= m
      BY <1>2, <2>1 DEF Loaded
    <2> QED BY <2>1, <2>2
  <1>3. \A j, k \in Kept(n, u, m) : j \in Int /\ k \in Int
    BY DEF Kept, Loaded
  <1>4. \A j, k \in Kept(n, u, m) : j < k \/ k < j \/ j = k
    BY <1>3
  <1> QED BY <1>1, <1>2, <1>4

LEMMA OneIsFree ==
    ASSUME NEW n, NEW at, NEW st, NEW u, NEW fr, NEW P, Loaded(n, at, st, u, fr, P),
           NEW best \in P
    PROVE  Cardinality(Kept(n, u, fr[best])) < Cardinality(P)
  <1> DEFINE K == Kept(n, u, fr[best])
             to == [k \in K |-> at[k]]
  <1>1. to \in [K -> P \ {best}] /\ \A j, k \in K : to[j] = to[k] => j = k
    BY NoneIsShared
  <1>2. /\ IsFiniteSet(P) /\ IsFiniteSet(P \ {best}) /\ Cardinality(P \ {best}) = Cardinality(P) - 1
        /\ Cardinality(P) \in Nat
    BY FS_RemoveElement, FS_CardinalityType DEF Loaded
  <1>3. Cardinality(K) \in Nat
    BY KeptIsFinite DEF Loaded
  <1> HIDE DEF K, to
  <1>4. Cardinality(K) <= Cardinality(P \ {best})
    BY <1>1, <1>2, NoMoreThan
  <1> QED BY <1>2, <1>3, <1>4 DEF K

\* A slot of a station holds at most one of its orders, the first slot the next.
LEMMA RoomForOne ==
    ASSUME NEW n, NEW at, NEW st, NEW u, NEW fr, NEW P, Loaded(n, at, st, u, fr, P),
           NEW best \in P, NEW Q, Q \subseteq P, best \in Q
    PROVE  Cardinality({k \in Kept(n, u, fr[best]) : at[k] \in Q} \union {n + 1}) <= Cardinality(Q)
  <1> DEFINE K == {k \in Kept(n, u, fr[best]) : at[k] \in Q} \union {n + 1}
             to == [k \in K |-> IF k = n + 1 THEN best ELSE at[k]]
  <1>1. n \in Nat /\ \A k \in Kept(n, u, fr[best]) : k # n + 1
    BY DEF Kept, Loaded
  <1>2. to \in [K -> Q] /\ \A j, k \in K : to[j] = to[k] => j = k
    BY <1>1, NoneIsShared
  <1>3. IsFiniteSet(Q)
    BY FS_Subset DEF Loaded
  <1> HIDE DEF K, to
  <1>4. Cardinality(K) <= Cardinality(Q)
    BY <1>2, <1>3, NoMoreThan
  <1> QED BY <1>4 DEF K

\* So the moment at which the first slot is free is the first at which one is.
LEMMA FirstMoment ==
    ASSUME NEW n, NEW at, NEW st, NEW u, NEW fr, NEW P, Loaded(n, at, st, u, fr, P),
           NEW best \in P, \A x \in P : fr[best] <= fr[x]
    PROVE  fr[best] = FirstFree(n, u, P)
  <1> DEFINE M == {t \in {0} \union {u[j] : j \in 1 .. n} : Cardinality(Kept(n, u, t)) < Cardinality(P)}
             m == fr[best]
  <1>1. m \in M
    <2>1. m \in {0} \union {u[j] : j \in 1 .. n}
      BY DEF Loaded
    <2> QED BY <2>1, OneIsFree
  <1>2. ASSUME NEW t \in M PROVE t \in Nat /\ m <= t
    <2>1. t \in Nat /\ m \in Nat
      BY DEF Loaded
    <2>2. CASE t < m
      <3>1. Cardinality(P) <= Cardinality(Kept(n, u, t))
        BY <2>1, <2>2, AllAreTaken
      <3>2. Cardinality(P) \in Nat /\ Cardinality(Kept(n, u, t)) \in Nat
        BY KeptIsFinite, FS_CardinalityType DEF Loaded
      <3> QED BY <1>2, <3>1, <3>2
    <2> QED BY <2>1, <2>2
  <1> HIDE DEF M
  <1>3. m \in Nat
    BY <1>1, <1>2
  <1>4. \A t \in M : (\A r \in M : t <= r) => t = m
    BY <1>1, <1>2, <1>3
  <1>5. Min(M) = m
    BY <1>1, <1>2, <1>4 DEF Min
  <1> QED BY <1>5 DEF FirstFree, M

\* The next order is put into the slot that is free first.
PutsNext(n, st, u, fr, P, best, until, st2, u2) ==
    /\ best \in P /\ \A x \in P : fr[best] <= fr[x]
    /\ until \in Nat /\ fr[best] <= until
    /\ st2 \in [1 .. (n + 1) -> Nat] /\ u2 \in [1 .. (n + 1) -> Nat]
    /\ \A k \in 1 .. n : st2[k] = st[k] /\ u2[k] = u[k]
    /\ st2[n + 1] = fr[best] /\ u2[n + 1] = until

LEMMA NextIsLoaded ==
    ASSUME NEW n, NEW at, NEW st, NEW u, NEW fr, NEW P, Loaded(n, at, st, u, fr, P),
           NEW best, NEW until, NEW st2, NEW u2,
           PutsNext(n, st, u, fr, P, best, until, st2, u2)
    PROVE  Loaded(n + 1, AndNext(n, at, best), st2, u2, [fr EXCEPT ![best] = until], P)
  <1> USE DEF PutsNext
  <1> DEFINE at2 == AndNext(n, at, best)
             fr2 == [fr EXCEPT ![best] = until]
  <1>1. /\ n \in Nat /\ n + 1 \in Nat /\ n + 1 \in 1 .. (n + 1)
        /\ \A k \in 1 .. (n + 1) : k = n + 1 \/ (k \in 1 .. n /\ k # n + 1)
        /\ \A k \in 1 .. n : k \in 1 .. (n + 1) /\ k # n + 1 /\ ~(n + 1 < k)
    BY DEF Loaded
  <1>2. /\ at2 \in [1 .. (n + 1) -> P] /\ at2[n + 1] = best
        /\ \A k \in 1 .. n : at2[k] = at[k]
    BY <1>1 DEF Loaded, AndNext
  <1>3. /\ fr2 \in [P -> Nat] /\ fr2[best] = until
        /\ \A x \in P : x # best => fr2[x] = fr[x]
    BY DEF Loaded
  <1>4. \A x \in P : fr[x] \in Nat /\ fr2[x] \in Nat /\ fr[x] <= fr2[x]
    BY <1>3 DEF Loaded
  <1> HIDE DEF at2, fr2
  <1>5. \A k \in 1 .. (n + 1) : u2[k] <= fr2[at2[k]]
    <2>1. ASSUME NEW k \in 1 .. n PROVE u2[k] <= fr2[at2[k]]
      <3>1. at[k] \in P /\ u[k] <= fr[at[k]] /\ u[k] \in Nat
        BY DEF Loaded
      <3> QED BY <1>2, <1>4, <3>1
    <2>2. u2[n + 1] <= fr2[at2[n + 1]]
      BY <1>2, <1>3
    <2> QED BY <1>1, <2>1, <2>2
  <1>6. \A k \in 1 .. (n + 1) : \A x \in P : st2[k] <= fr2[x]
    <2> SUFFICES ASSUME NEW k \in 1 .. (n + 1), NEW x \in P PROVE st2[k] <= fr2[x]
      OBVIOUS
    <2>1. st2[k] <= fr[x]
      BY <1>1 DEF Loaded
    <2> QED BY <1>4, <2>1
  <1>7. \A j, k \in 1 .. (n + 1) : j < k /\ at2[j] = at2[k] => u2[j] <= st2[k]
    <2> SUFFICES ASSUME NEW j \in 1 .. (n + 1), NEW k \in 1 .. (n + 1), j < k, at2[j] = at2[k]
                 PROVE  u2[j] <= st2[k]
      OBVIOUS
    <2>1. j \in 1 .. n
      BY <1>1
    <2>2. CASE k \in 1 .. n
      BY <1>2, <2>1, <2>2 DEF Loaded
    <2>3. CASE k = n + 1
      <3>1. at[j] = best
        BY <1>2, <2>1, <2>3
      <3>2. u[j] <= fr[best]
        BY <2>1, <3>1 DEF Loaded
      <3> QED BY <2>1, <2>3, <3>2
    <2> QED BY <1>1, <2>2, <2>3
  <1>8. \A x \in P : fr2[x] = 0 \/ \E k \in 1 .. (n + 1) : at2[k] = x /\ u2[k] = fr2[x]
    <2> SUFFICES ASSUME NEW x \in P, fr2[x] # 0
                 PROVE  \E k \in 1 .. (n + 1) : at2[k] = x /\ u2[k] = fr2[x]
      OBVIOUS
    <2>1. CASE x = best
      BY <1>1, <1>2, <1>3, <2>1
    <2>2. CASE x # best
      <3>1. PICK k \in 1 .. n : at[k] = x /\ u[k] = fr[x]
        BY <1>3, <2>2 DEF Loaded
      <3> QED BY <1>1, <1>2, <1>3, <2>2, <3>1
    <2> QED BY <2>1, <2>2
  <1>9. IsFiniteSet(P)
    BY DEF Loaded
  <1>10. Loaded(n + 1, at2, st2, u2, fr2, P)
    BY <1>1, <1>2, <1>3, <1>5, <1>6, <1>7, <1>8, <1>9 DEF Loaded
  <1> QED BY <1>10 DEF at2, fr2

-----------------------------------------------------------------------------
(* The slots                                                                 *)

Entry == [job : Job, station : Station, start : Nat, until : Int]

Starts == [k \in 1 .. Len(schedule) |-> schedule[k].start]
Ends   == [k \in 1 .. Len(schedule) |-> schedule[k].until]

Numbers ==
    /\ due \in [Job -> Int] /\ hours \in [Job -> Int] /\ capacity \in [Station -> Int]
    /\ waiting \in Seq(Job) /\ schedule \in Seq(Entry)

\* Every order is in a slot of its station.
SlotsAreLoaded ==
    \E at \in [1 .. Len(schedule) -> SlotPool] :
        /\ Loaded(Len(schedule), at, Starts, Ends, free, SlotPool)
        /\ \A k \in 1 .. Len(schedule) : schedule[k].station = at[k][1]

\* Orders come by due date.
OrdersComeByDue ==
    /\ \A i, j \in 1 .. Len(waiting) : i < j => due[waiting[i]] <= due[waiting[j]]
    /\ \A k \in 1 .. Len(schedule), i \in 1 .. Len(waiting) :
          due[schedule[k].job] <= due[waiting[i]]
    /\ \A j, k \in 1 .. Len(schedule) : j < k => due[schedule[j].job] <= due[schedule[k].job]

\* What is said of the k-th order if those before it end after they start.
FirstAndInOrder(k) ==
    /\ TakesFirst(k) /\ HasRoom(k)
    /\ \A j \in 1 .. k - 1 : schedule[j].start <= schedule[k].start

SchedulingIInv ==
    /\ Numbers
    /\ phase = "idle" => Len(schedule) = 0
    /\ phase # "idle" => free \in [SlotPool -> Int]
    /\ phase # "idle" /\ Forward(Len(schedule)) => SlotsAreLoaded
    /\ OrdersComeByDue
    /\ \A k \in 1 .. Len(schedule) :
          capacity[schedule[k].station] > 0 /\ (Forward(k - 1) => FirstAndInOrder(k))

StationSlots(s) == {s} \X (1 .. capacity[s])

LEMMA RoomOfStation ==
    ASSUME Numbers, NEW s \in Station
    PROVE  /\ IsFiniteSet(StationSlots(s))
           /\ Cardinality(StationSlots(s)) = Max({0, capacity[s]})
           /\ StationSlots(s) = {x \in SlotPool : x[1] = s}
  <1>1. PICK c \in Int : c = capacity[s]
    BY DEF Numbers
  <1>2. PICK w \in Nat : w = Max({0, c}) /\ w = IF 1 > c THEN 0 ELSE c - 1 + 1
    <2>1. Max({0, c}) = IF 0 >= c THEN 0 ELSE c
      BY MaxOfTwo
    <2> QED BY <2>1
  <1>3. IsFiniteSet(1 .. c) /\ Cardinality(1 .. c) = w
    <2>1. 1 \in Int
      OBVIOUS
    <2>2. IsFiniteSet(1 .. c) /\ Cardinality(1 .. c) = IF 1 > c THEN 0 ELSE c - 1 + 1
      BY <2>1, FS_Interval, SMTT(20)
    <2> QED BY <1>2, <2>2
  <1>4. IsFiniteSet({s} \X (1 .. c)) /\ Cardinality({s} \X (1 .. c)) = 1 * w
    <2> DEFINE A == {s}
               B == 1 .. c
    <2>1. IsFiniteSet(A) /\ Cardinality(A) = 1 /\ IsFiniteSet(B) /\ Cardinality(B) = w
      BY <1>3, FS_Singleton
    <2> HIDE DEF A, B
    <2>2. IsFiniteSet(A \X B) /\ Cardinality(A \X B) = Cardinality(A) * Cardinality(B)
      BY <2>1, FS_Product
    <2>3. IsFiniteSet(A \X B) /\ Cardinality(A \X B) = 1 * w
      BY <2>1, <2>2
    <2> QED BY <2>3 DEF A, B
  <1>5. StationSlots(s) = {x \in SlotPool : x[1] = s}
    BY DEF StationSlots, SlotPool
  <1>6. 1 * w = w
    OBVIOUS
  <1> QED BY <1>1, <1>2, <1>4, <1>5, <1>6 DEF StationSlots

LEMMA SlotCount ==
    ASSUME Numbers
    PROVE  IsFiniteSet(SlotPool) /\ Cardinality(SlotPool) = Slots
  <1> DEFINE C == [s \in Station |-> StationSlots(s)]
  <1>1. IsFiniteSet(Station)
    BY SchedulingAssumption
  <1>2. \A s \in Station : IsFiniteSet(C[s]) /\ Cardinality(C[s]) = Max({0, capacity[s]})
    BY RoomOfStation
  <1>3. \A r, s \in Station : r # s => C[r] \intersect C[s] = {}
    BY DEF StationSlots
  <1>4. SlotPool = UNION {C[s] : s \in Station}
    BY DEF SlotPool, StationSlots
  <1> HIDE DEF C
  <1>5. /\ IsFiniteSet(SlotPool)
        /\ Cardinality(SlotPool) = SumFunction([s \in Station |-> Cardinality(C[s])])
    <2>1. /\ IsFiniteSet(UNION {C[s] : s \in Station})
          /\ (\A r, s \in Station : r # s => C[r] \intersect C[s] = {}) =>
                Cardinality(UNION {C[s] : s \in Station}) =
                    SumFunction([s \in Station |-> Cardinality(C[s])])
      BY <1>1, <1>2, SizeOfUnion
    <2> QED BY <1>3, <1>4, <2>1
  <1>6. [s \in Station |-> Cardinality(C[s])] = [s \in Station |-> Max({0, capacity[s]})]
    BY <1>2
  <1> QED BY <1>5, <1>6 DEF Slots

LEMMA BestIsFirst ==
    ASSUME free \in [SlotPool -> Int], SlotPool # {}, IsFiniteSet(SlotPool)
    PROVE  BestSlot \in SlotPool /\ \A x \in SlotPool : free[BestSlot] <= free[x]
  <1>1. \A x \in SlotPool : x[1] \in Nat /\ x[2] \in Nat /\ x = <<x[1], x[2]>>
    BY SchedulingAssumption DEF SlotPool
  <1>2. PICK m \in {free[x] : x \in SlotPool} : \A y \in SlotPool : m <= free[y]
    <2> DEFINE F == {free[x] : x \in SlotPool}
    <2>1. F \subseteq Int /\ F # {}
      OBVIOUS
    <2>2. IsFiniteSet(F)
      <3>1. free \in Surjection(SlotPool, F)
        BY DEF Surjection
      <3> HIDE DEF F
      <3> QED BY <3>1, FS_Surjection
    <2> HIDE DEF F
    <2>3. \E n \in F : \A k \in F : n <= k
      BY <2>1, <2>2, LeastInteger
    <2> QED BY <2>3 DEF F
  <1> DEFINE A == {x \in SlotPool : free[x] = m}
  <1>3. PICK s \in {x[1] : x \in A} : \A y \in A : s <= y[1]
    <2> DEFINE F == {x[1] : x \in A}
    <2>1. F \subseteq Nat /\ F # {}
      BY <1>1
    <2> HIDE DEF F
    <2>2. \E n \in F : \A k \in F : n <= k
      BY <2>1, LeastNatural
    <2> QED BY <2>2 DEF F
  <1> DEFINE B == {x \in A : x[1] = s}
  <1>4. PICK c \in {x[2] : x \in B} : \A y \in B : c <= y[2]
    <2> DEFINE F == {x[2] : x \in B}
    <2>1. F \subseteq Nat /\ F # {}
      BY <1>1
    <2> HIDE DEF F
    <2>2. \E n \in F : \A k \in F : n <= k
      BY <2>1, LeastNatural
    <2> QED BY <2>2 DEF F
  <1>5. PICK x \in B : x[2] = c
    BY <1>4
  <1>6. ASSUME NEW y \in SlotPool
        PROVE  free[x] < free[y] \/ (free[x] = free[y] /\ ListedBefore(x, y))
    <2>1. free[x] = m /\ m \in Int /\ free[y] \in Int /\ m <= free[y] /\ x[1] = s /\ x[2] = c
      BY <1>2, <1>5
    <2>2. CASE m < free[y]
      BY <2>1, <2>2
    <2>3. CASE m = free[y]
      <3>1. y \in A /\ s <= y[1] /\ s \in Nat /\ y[1] \in Nat
        BY <1>1, <1>3, <2>3
      <3>2. y[1] = s => c <= y[2]
        BY <1>4, <3>1
      <3> QED BY <2>1, <2>3, <3>1, <3>2 DEF ListedBefore
    <2> QED BY <2>1, <2>2, <2>3
  <1>7. x \in SlotPool
    BY <1>5
  <1>8. DOMAIN free = SlotPool
    OBVIOUS
  <1> HIDE DEF A, B
  <1>9. /\ BestSlot \in SlotPool
        /\ \A y \in SlotPool : \/ free[BestSlot] < free[y]
                               \/ free[BestSlot] = free[y] /\ ListedBefore(BestSlot, y)
    BY <1>6, <1>7, <1>8 DEF BestSlot
  <1>10. \A y \in SlotPool : free[BestSlot] \in Int /\ free[y] \in Int
    BY <1>9
  <1> QED BY <1>9, <1>10

-----------------------------------------------------------------------------
(* The invariant                                                             *)

LEMMA ScheduleFacts ==
    ASSUME Numbers
    PROVE  /\ Len(schedule) \in Nat /\ Len(waiting) \in Nat
           /\ DOMAIN schedule = 1 .. Len(schedule) /\ DOMAIN waiting = 1 .. Len(waiting)
           /\ \A k \in 1 .. Len(schedule) : schedule[k] \in Entry
           /\ \A i \in 1 .. Len(waiting) : waiting[i] \in Job
  BY LenProperties, ElementOfSeq DEF Numbers

LEMMA SchedulingInitHolds == SchedulingInit => SchedulingIInv
  <1> SUFFICES ASSUME SchedulingInit PROVE SchedulingIInv
    OBVIOUS
  <1>1. Len(schedule) = 0 /\ Len(waiting) = 0 /\ schedule \in Seq(Entry) /\ waiting \in Seq(Job)
    BY EmptySeq DEF SchedulingInit
  <1>2. Numbers /\ phase = "idle"
    BY <1>1, SchedulingAssumption DEF SchedulingInit, Numbers
  <1>3. OrdersComeByDue
    BY <1>1 DEF OrdersComeByDue
  <1> QED BY <1>1, <1>2, <1>3 DEF SchedulingIInv

LEMMA QueueOfOrders ==
    ASSUME NEW eligible \in SUBSET Job, NEW queue \in SetToSeqs(eligible)
    PROVE  queue \in Seq(Job)
  <1>1. IsFiniteSet(eligible)
    BY SchedulingAssumption, FS_Subset
  <1>2. Cardinality(eligible) \in Nat
    BY <1>1, FS_CardinalityType
  <1>3. queue \in [1 .. Cardinality(eligible) -> eligible]
    BY DEF SetToSeqs
  <1>4. queue \in [1 .. Cardinality(eligible) -> Job]
    BY <1>3
  <1> QED BY <1>2, <1>4

LEMMA RunApsKeeps ==
    ASSUME SchedulingIInv, NEW eligible \in SUBSET Job, RunAps(eligible)
    PROVE  SchedulingIInv'
  <1>1. /\ Len(schedule) = 0 /\ schedule' = schedule /\ phase' = "running"
        /\ due' = due /\ hours' = hours /\ capacity' = capacity
        /\ free' = [x \in SlotPool |-> 0]
    BY DEF RunAps, SchedulingIInv
  <1>2. PICK queue \in SetToSeqs(eligible) : ByDue(queue) /\ waiting' = queue
    BY DEF RunAps
  <1>3. queue \in Seq(Job)
    BY QueueOfOrders
  <1>4. Numbers /\ Numbers'
    BY <1>1, <1>2, <1>3 DEF SchedulingIInv, Numbers
  <1>5. DOMAIN queue = 1 .. Len(queue)
    BY <1>3, LenProperties
  <1>6. OrdersComeByDue'
    BY <1>1, <1>2, <1>5 DEF OrdersComeByDue, ByDue
  <1>7. SlotPool' = SlotPool /\ IsFiniteSet(SlotPool)
    BY <1>1, <1>4, SlotCount DEF SlotPool
  <1>8. SlotsAreLoaded'
    <2>1. 1 .. Len(schedule) = {}
      BY <1>1
    <2> DEFINE at == [k \in 1 .. Len(schedule) |-> BestSlot]
    <2>2. at \in [1 .. Len(schedule) -> SlotPool]
      BY <2>1
    <2>3. Starts' = Starts /\ Ends' = Ends
      BY <1>1 DEF Starts, Ends
    <2>4. Starts \in [1 .. Len(schedule) -> Nat] /\ Ends \in [1 .. Len(schedule) -> Nat]
      BY <2>1 DEF Starts, Ends
    <2> HIDE DEF at
    <2>5. Len(schedule) \in Nat
      BY <1>1
    <2>6. Loaded(Len(schedule), at, Starts, Ends, [x \in SlotPool |-> 0], SlotPool)
      BY <1>7, <2>1, <2>2, <2>4, <2>5 DEF Loaded
    <2> QED BY <1>1, <1>7, <2>1, <2>2, <2>3, <2>6 DEF SlotsAreLoaded
  <1>9. \A k \in 1 .. Len(schedule') : FALSE
    BY <1>1
  <1>10. free' \in [SlotPool' -> Int]
    BY <1>1, <1>7
  <1> QED BY <1>1, <1>4, <1>6, <1>8, <1>9, <1>10 DEF SchedulingIInv

\* Steps that only end the run.
LEMMA EndingKeeps ==
    ASSUME SchedulingIInv, due' = due, hours' = hours, capacity' = capacity,
           waiting' = waiting, free' = free, schedule' = schedule,
           phase' = "idle" <=> phase = "idle"
    PROVE  SchedulingIInv'
  <1>1. Numbers' /\ OrdersComeByDue'
    BY DEF SchedulingIInv, Numbers, OrdersComeByDue
  <1>2. SlotPool' = SlotPool /\ Starts' = Starts /\ Ends' = Ends /\ Slots' = Slots
    BY DEF SlotPool, Starts, Ends, Slots
  <1>3. SlotsAreLoaded => SlotsAreLoaded'
    BY <1>2 DEF SlotsAreLoaded
  <1>4. \A k : FirstAndInOrder(k)' = FirstAndInOrder(k) /\ Forward(k)' = Forward(k)
    BY <1>2 DEF FirstAndInOrder, TakesFirst, HasRoom, Busy, Forward
  <1>5. /\ phase' # "idle" => free' \in [SlotPool' -> Int]
        /\ phase' # "idle" /\ Forward(Len(schedule))' => SlotsAreLoaded'
    BY <1>2, <1>3, <1>4 DEF SchedulingIInv
  <1>6. \A k \in 1 .. Len(schedule') :
           capacity'[schedule'[k].station] > 0 /\ (Forward(k - 1)' => FirstAndInOrder(k)')
    BY <1>4 DEF SchedulingIInv
  <1>7. phase' = "idle" => Len(schedule') = 0
    BY DEF SchedulingIInv
  <1> QED BY <1>1, <1>5, <1>6, <1>7 DEF SchedulingIInv

LEMMA AssignKeeps ==
    ASSUME SchedulingIInv, Assign
    PROVE  SchedulingIInv'
  <1>n. PICK n : n = Len(schedule)
    OBVIOUS
  <1>0. Numbers /\ phase = "running" /\ OrdersComeByDue
    BY DEF Assign, SchedulingIInv
  <1>2. /\ free \in [SlotPool -> Int] /\ DOMAIN free = SlotPool /\ SlotPool # {}
        /\ IsFiniteSet(SlotPool)
    BY <1>0, SlotCount DEF Assign, SchedulingIInv
  <1>3. PICK best : best = BestSlot
    OBVIOUS
  <1>4. best \in SlotPool /\ \A x \in SlotPool : free[best] <= free[x]
    BY <1>2, <1>3, BestIsFirst
  <1>5. PICK j : j = Head(waiting)
    OBVIOUS
  <1>6. PICK start : start = Max({free[best], 0})
    OBVIOUS
  <1>u. PICK until : until = start + hours[j]
    OBVIOUS
  <1>7. PICK e : e = [job |-> j, station |-> best[1], start |-> start, until |-> until]
    OBVIOUS
  <1>8. /\ schedule' = Append(schedule, e) /\ free' = [free EXCEPT ![best] = until]
        /\ waiting' = Tail(waiting) /\ waiting # <<>>
        /\ due' = due /\ hours' = hours /\ capacity' = capacity /\ phase' = phase
    BY <1>3, <1>5, <1>6, <1>u, <1>7 DEF Assign
  <1>9. /\ n \in Nat /\ Len(waiting) \in Nat /\ waiting \in Seq(Job) /\ schedule \in Seq(Entry)
        /\ \A k \in 1 .. n : schedule[k] \in Entry
        /\ \A i \in 1 .. Len(waiting) : waiting[i] \in Job
    BY <1>n, <1>0, ScheduleFacts DEF Numbers
  <1>10. /\ 1 \in 1 .. Len(waiting) /\ j = waiting[1] /\ Tail(waiting) \in Seq(Job)
         /\ Len(Tail(waiting)) = Len(waiting) - 1
         /\ \A i \in 1 .. Len(Tail(waiting)) : Tail(waiting)[i] = waiting[i + 1]
    <2>1. Len(waiting) \in Nat \ {0}
      BY <1>8, <1>9, EmptySeq
    <2>2. /\ Head(waiting) = waiting[1] /\ Tail(waiting) \in Seq(Job)
          /\ Len(Tail(waiting)) = Len(waiting) - 1
          /\ \A i \in 1 .. Len(Tail(waiting)) : Tail(waiting)[i] = waiting[i + 1]
      BY <1>8, <1>9, HeadTailProperties
    <2> QED BY <1>5, <2>1, <2>2
  <1>11. /\ j \in Job /\ free[best] \in Int /\ hours[j] \in Int
         /\ start \in Nat /\ (free[best] >= 0 => start = free[best])
         /\ until \in Int /\ best[1] \in Station /\ capacity[best[1]] \in Int
         /\ capacity[best[1]] > 0
    <2>1. j \in Job /\ free[best] \in Int /\ hours[j] \in Int
      BY <1>0, <1>2, <1>4, <1>9, <1>10 DEF Numbers
    <2>2. Max({free[best], 0}) = IF free[best] >= 0 THEN free[best] ELSE 0
      BY <2>1, MaxOfTwo
    <2>3. start \in Nat /\ (free[best] >= 0 => start = free[best])
      BY <1>6, <2>1, <2>2
    <2>4. until \in Int
      BY <1>u, <2>1, <2>3
    <2>5. PICK s \in Station : best \in {s} \X (1 .. capacity[s])
      BY <1>4 DEF SlotPool
    <2>6. best[1] = s /\ best[2] \in 1 .. capacity[s] /\ capacity[s] \in Int
      BY <1>0, <2>5 DEF Numbers
    <2>7. capacity[s] > 0
      BY <2>6
    <2> QED BY <2>1, <2>3, <2>4, <2>6, <2>7
  <1>12. e \in Entry /\ e.job = j /\ e.station = best[1] /\ e.start = start /\ e.until = until
    BY <1>7, <1>11 DEF Entry
  <1>13. /\ schedule' \in Seq(Entry) /\ Len(schedule') = n + 1 /\ schedule'[n + 1] = e
         /\ \A k \in 1 .. n : schedule'[k] = schedule[k]
    BY <1>n, <1>8, <1>9, <1>12, AppendProperties
  <1>14. Numbers'
    BY <1>0, <1>8, <1>10, <1>13 DEF Numbers
  <1>15. SlotPool' = SlotPool /\ Slots' = Slots /\ Cardinality(SlotPool) = Slots
    BY <1>0, <1>8, SlotCount DEF SlotPool, Slots
  <1>16. /\ \A k \in 1 .. (n + 1) : k \in 1 .. n \/ k = n + 1
         /\ \A k \in 1 .. n : k \in 1 .. (n + 1) /\ k # n + 1
         /\ n + 1 \in 1 .. (n + 1) /\ n \in Nat
    BY <1>n, <1>9
  <1>17. OrdersComeByDue'
    <2>1. \A i \in 1 .. Len(waiting') : i + 1 \in 1 .. Len(waiting) /\ waiting'[i] = waiting[i + 1]
      BY <1>8, <1>9, <1>10
    <2>2. \A i, k \in 1 .. Len(waiting) : i < k => due[waiting[i]] <= due[waiting[k]]
      BY <1>0 DEF OrdersComeByDue
    <2>3. \A i, k \in 1 .. Len(waiting') : i < k => due[waiting'[i]] <= due[waiting'[k]]
      <3> SUFFICES ASSUME NEW i \in 1 .. Len(waiting'), NEW k \in 1 .. Len(waiting'), i < k
                   PROVE  due[waiting'[i]] <= due[waiting'[k]]
        OBVIOUS
      <3>1. i + 1 < k + 1
        OBVIOUS
      <3> QED BY <2>1, <2>2, <3>1
    <2>4. \A i \in 1 .. Len(waiting') : due[j] <= due[waiting'[i]]
      <3> SUFFICES ASSUME NEW i \in 1 .. Len(waiting') PROVE due[j] <= due[waiting'[i]]
        OBVIOUS
      <3>1. 1 < i + 1
        OBVIOUS
      <3> QED BY <1>10, <2>1, <2>2, <3>1
    <2>5. \A k \in 1 .. n : due[schedule[k].job] <= due[j]
      BY <1>n, <1>0, <1>10 DEF OrdersComeByDue
    <2>6. \A k \in 1 .. n, i \in 1 .. Len(waiting') : due[schedule[k].job] <= due[waiting'[i]]
      BY <1>n, <1>0, <2>1 DEF OrdersComeByDue
    <2>7. \A k \in 1 .. (n + 1), i \in 1 .. Len(waiting') : due[schedule'[k].job] <= due[waiting'[i]]
      BY <1>12, <1>13, <1>16, <2>4, <2>6
    <2>8. \A i, k \in 1 .. (n + 1) : i < k =>
             due[schedule'[i].job] <= due[schedule'[k].job]
      <3> SUFFICES ASSUME NEW i \in 1 .. (n + 1), NEW k \in 1 .. (n + 1), i < k
                   PROVE  due[schedule'[i].job] <= due[schedule'[k].job]
        OBVIOUS
      <3>1. i \in 1 .. n
        BY <1>16
      <3>2. CASE k \in 1 .. n
        BY <1>n, <1>0, <1>13, <3>1, <3>2 DEF OrdersComeByDue
      <3>3. CASE k = n + 1
        BY <1>12, <1>13, <2>5, <3>1, <3>3
      <3> QED BY <1>16, <3>2, <3>3
    <2>9. Len(schedule') = n + 1
      BY <1>n, <1>13
    <2> QED BY <1>8, <2>3, <2>7, <2>8, <2>9 DEF OrdersComeByDue
  <1>18. Len(schedule') = n + 1 /\ phase' # "idle"
    BY <1>n, <1>0, <1>8, <1>13
  <1>19. free' \in [SlotPool' -> Int]
    BY <1>2, <1>4, <1>8, <1>11, <1>15
  <1>20. \A k \in 1 .. (n + 1) : Forward(k - 1)' = Forward(k - 1)
    <2> SUFFICES ASSUME NEW k \in 1 .. (n + 1) PROVE Forward(k - 1)' = Forward(k - 1)
      OBVIOUS
    <2>1. \A i \in 1 .. k - 1 : i \in 1 .. n
      BY <1>16
    <2> QED BY <1>n, <1>8, <1>13, <2>1 DEF Forward
  <1>21. ASSUME NEW k \in 1 .. n PROVE capacity'[schedule'[k].station] > 0 /\ (Forward(k - 1) => FirstAndInOrder(k)')
    <2>1. /\ k \in Nat /\ \A i \in 1 .. k : schedule'[i] = schedule[i]
          /\ \A i \in 1 .. k - 1 : schedule'[i] = schedule[i]
          /\ schedule'[k] = schedule[k]
      BY <1>n, <1>13, <1>16
    <2>2. capacity[schedule[k].station] > 0 /\ (Forward(k - 1) => FirstAndInOrder(k))
      BY <1>n DEF SchedulingIInv
    <2>3. \A t : {i \in 1 .. k - 1 : schedule'[i].until > t} = {i \in 1 .. k - 1 : schedule[i].until > t}
      BY <2>1
    <2>4. {schedule'[i].until : i \in 1 .. k - 1} = {schedule[i].until : i \in 1 .. k - 1}
      BY <2>1
    <2>5. TakesFirst(k) => TakesFirst(k)'
      <3>1. {t \in {0} \union {schedule'[i].until : i \in 1 .. k - 1} : 
                  Cardinality({i \in 1 .. k - 1 : schedule'[i].until > t}) < Slots'}
               = {t \in {0} \union {schedule[i].until : i \in 1 .. k - 1} :
                  Cardinality({i \in 1 .. k - 1 : schedule[i].until > t}) < Slots}
        BY <1>15, <2>3, <2>4
      <3> QED BY <2>1, <2>2, <3>1 DEF TakesFirst, Busy
    <2>6. {i \in 1 .. k : schedule'[i].station = schedule'[k].station /\ schedule'[i].until > schedule'[k].start}
             = {i \in 1 .. k : schedule[i].station = schedule[k].station /\ schedule[i].until > schedule[k].start}
      BY <2>1
    <2>7. HasRoom(k) => HasRoom(k)'
      BY <1>8, <2>1, <2>2, <2>6 DEF HasRoom
    <2>8. FirstAndInOrder(k) => FirstAndInOrder(k)'
      BY <2>1, <2>5, <2>7 DEF FirstAndInOrder
    <2> QED BY <1>8, <2>1, <2>2, <2>8
  <1>22. ASSUME Forward(n)
         PROVE  FirstAndInOrder(n + 1)' /\ (hours[j] >= 0 => SlotsAreLoaded')
    <2>1. PICK at \in [1 .. n -> SlotPool] :
             /\ Loaded(n, at, Starts, Ends, free, SlotPool)
             /\ \A k \in 1 .. n : schedule[k].station = at[k][1]
      BY <1>n, <1>0, <1>22 DEF SchedulingIInv, SlotsAreLoaded
    <2>2. free \in [SlotPool -> Nat] /\ free[best] \in Nat /\ start = free[best]
      BY <1>4, <1>11, <2>1 DEF Loaded
    <2>3. /\ Starts' \in [1 .. (n + 1) -> Nat]
          /\ until \in Nat => Ends' \in [1 .. (n + 1) -> Nat]
          /\ \A k \in 1 .. n : Starts'[k] = Starts[k] /\ Ends'[k] = Ends[k]
          /\ Starts'[n + 1] = free[best] /\ Ends'[n + 1] = until
          /\ \A k \in 1 .. n : Starts[k] = schedule[k].start /\ Ends[k] = schedule[k].until
      <3>1. \A k \in 1 .. (n + 1) : schedule'[k] \in Entry
        BY <1>n, <1>9, <1>12, <1>13, <1>16
      <3>2. /\ Starts' = [k \in 1 .. (n + 1) |-> schedule'[k].start]
            /\ Ends' = [k \in 1 .. (n + 1) |-> schedule'[k].until]
        BY <1>n, <1>13 DEF Starts, Ends
      <3>3. \A k \in 1 .. n : Ends[k] \in Nat
        BY <2>1 DEF Loaded
      <3>4. \A k \in 1 .. n : Starts[k] = schedule[k].start /\ Ends[k] = schedule[k].until
        BY <1>n DEF Starts, Ends
      <3>5. \A k \in 1 .. (n + 1) : schedule'[k].start \in Nat
        BY <3>1 DEF Entry
      <3>6. \A k \in 1 .. n : Starts'[k] = Starts[k] /\ Ends'[k] = Ends[k]
        BY <1>13, <1>16, <3>2, <3>4
      <3>7. Starts'[n + 1] = free[best] /\ Ends'[n + 1] = until
        BY <1>12, <1>13, <1>16, <2>2, <3>2
      <3>8. until \in Nat => \A k \in 1 .. (n + 1) : schedule'[k].until \in Nat
        BY <1>12, <1>13, <1>16, <3>3, <3>4
      <3> QED BY <3>2, <3>4, <3>5, <3>6, <3>7, <3>8
    <2>4. ASSUME hours[j] >= 0 PROVE SlotsAreLoaded'
      <3>a. until \in Nat /\ free[best] <= until
        BY <1>u, <1>11, <2>2, <2>4
      <3>0. PICK at2, st2, u2 : at2 = AndNext(n, at, best) /\ st2 = Starts' /\ u2 = Ends'
        OBVIOUS
      <3>1. Loaded(n + 1, at2, st2, u2, [free EXCEPT ![best] = until], SlotPool)
        <4>1. PutsNext(n, Starts, Ends, free, SlotPool, best, until, st2, u2)
          BY <1>4, <2>3, <3>0, <3>a DEF PutsNext
        <4>2. Loaded(n + 1, AndNext(n, at, best), st2, u2, [free EXCEPT ![best] = until], SlotPool)
          BY <2>1, <4>1, NextIsLoaded
        <4> QED BY <3>0, <4>2
      <3>2. \A k \in 1 .. (n + 1) : schedule'[k].station = at2[k][1]
        BY <1>n, <2>1, <1>12, <1>13, <1>16, <3>0 DEF AndNext
      <3>3. at2 \in [1 .. (n + 1) -> SlotPool]
        BY <3>1 DEF Loaded
      <3>4. Len(schedule') = n + 1
        BY <1>n, <1>13
      <3> QED BY <1>8, <1>15, <3>0, <3>1, <3>2, <3>3, <3>4 DEF SlotsAreLoaded
    <2>5. TakesFirst(n + 1)'
      <3>0. PICK k : k = n + 1
        OBVIOUS
      <3>1. \A t : {i \in 1 .. n : schedule'[i].until > t} = Kept(n, Ends, t)
        BY <1>n, <1>13, <2>3 DEF Kept
      <3>2. k - 1 = n
        BY <1>16, <3>0
      <3>3. \A t : {i \in 1 .. k - 1 : schedule'[i].until > t} = Kept(n, Ends, t)
        BY <3>1, <3>2
      <3>4. {schedule'[i].until : i \in 1 .. k - 1} = {Ends[i] : i \in 1 .. n}
        <4>1. \A i \in 1 .. n : schedule'[i].until = Ends[i]
          BY <1>n, <1>13, <2>3
        <4> QED BY <3>2, <4>1
      <3>5. free[best] = FirstFree(n, Ends, SlotPool)
        BY <1>4, <2>1, FirstMoment
      <3>6. schedule'[k].start = free[best]
        BY <1>n, <1>12, <1>13, <2>2, <3>0
      <3> DEFINE M == {t \in {0} \union {schedule'[i].until : i \in 1 .. k - 1} :
                          Cardinality({i \in 1 .. k - 1 : schedule'[i].until > t}) < Slots'}
                 N == {t \in {0} \union {Ends[i] : i \in 1 .. n} :
                          Cardinality(Kept(n, Ends, t)) < Cardinality(SlotPool)}
      <3>7. M = N
        BY <1>15, <3>3, <3>4
      <3>8. FirstFree(n, Ends, SlotPool) = Min(N)
        BY DEF FirstFree
      <3>9. schedule'[k].start = Min(M)
        <4> HIDE DEF M, N
        <4> QED BY <3>5, <3>6, <3>7, <3>8
      <3>10. TakesFirst(k)'
        BY <3>9 DEF TakesFirst, Busy
      <3> QED BY <3>0, <3>10
    <2>6. HasRoom(n + 1)'
      <3> DEFINE m == free[best]
                 s == best[1]
                 Q == StationSlots(s)
                 J == {i \in 1 .. (n + 1) : schedule'[i].station = s /\ schedule'[i].until > m}
                 K == {i \in Kept(n, Ends, m) : at[i] \in Q} \union {n + 1}
      <3>1. Q \subseteq SlotPool /\ best \in Q /\ IsFiniteSet(Q) /\ Cardinality(Q) = capacity[s]
            /\ \A x \in SlotPool : x[1] = s => x \in Q
        <4>1. s \in Station /\ StationSlots(s) = {x \in SlotPool : x[1] = s}
              /\ IsFiniteSet(StationSlots(s)) /\ Cardinality(StationSlots(s)) = Max({0, capacity[s]})
          BY <1>0, <1>11, RoomOfStation
        <4>2. Max({0, capacity[s]}) = capacity[s]
          <5>1. Max({0, capacity[s]}) = IF 0 >= capacity[s] THEN 0 ELSE capacity[s]
            BY <1>11, MaxOfTwo
          <5> QED BY <1>11, <5>1
        <4>3. best \in Q
          BY <1>4, <4>1
        <4> QED BY <4>1, <4>2, <4>3
      <3>2. Cardinality(K) <= capacity[s]
        <4> HIDE DEF Q
        <4>1. Cardinality(K) <= Cardinality(Q)
          BY <1>4, <2>1, <3>1, RoomForOne
        <4> QED BY <3>1, <4>1
      <3>3. J \subseteq K
        <4> SUFFICES ASSUME NEW i \in 1 .. n, schedule'[i].station = s, schedule'[i].until > m
                     PROVE  i \in K
          BY <1>16
        <4>1. schedule[i].station = at[i][1] /\ at[i] \in SlotPool
          BY <1>n, <2>1
        <4>2. at[i] \in Q
          BY <1>n, <1>13, <3>1, <4>1
        <4>3. i \in Kept(n, Ends, m)
          BY <1>n, <1>13, <2>3 DEF Kept
        <4> QED BY <4>2, <4>3
      <3>4. IsFiniteSet(K)
        <4>1. IsFiniteSet(Kept(n, Ends, m))
          BY <1>16, KeptIsFinite
        <4>2. IsFiniteSet({i \in Kept(n, Ends, m) : at[i] \in Q})
          BY <4>1, FS_Subset
        <4> QED BY <4>2, FS_AddElement
      <3>5. Cardinality(J) <= Cardinality(K) /\ Cardinality(J) \in Nat /\ Cardinality(K) \in Nat
        BY <3>3, <3>4, FS_Subset, FS_CardinalityType
      <3>6. capacity[s] \in Nat
        BY <1>11
      <3> HIDE DEF J, K, Q
      <3>7. Cardinality(J) <= capacity[s]
        BY <3>2, <3>5, <3>6
      <3>8. schedule'[n + 1].station = s /\ schedule'[n + 1].start = m
        BY <1>n, <1>12, <1>13, <2>2
      <3> QED BY <1>8, <3>7, <3>8 DEF HasRoom, J
    <2>7. \A k \in 1 .. n : schedule'[k].start <= schedule'[n + 1].start
      <3>1. \A k \in 1 .. n : Starts[k] <= free[best]
        BY <1>4, <2>1 DEF Loaded
      <3> QED BY <1>12, <1>13, <2>2, <2>3, <3>1
    <2>8. FirstAndInOrder(n + 1)'
      <3>1. PICK k : k = n + 1
        OBVIOUS
      <3>2. k - 1 = n
        BY <1>16, <3>1
      <3>3. TakesFirst(k)' /\ HasRoom(k)' /\ \A i \in 1 .. k - 1 : schedule'[i].start <= schedule'[k].start
        BY <2>5, <2>6, <2>7, <3>1, <3>2
      <3>4. FirstAndInOrder(k)'
        BY <3>3 DEF FirstAndInOrder
      <3> QED BY <3>1, <3>4
    <2> QED BY <2>4, <2>8
  <1>23. Forward(n + 1)' => Forward(n) /\ hours[j] >= 0
    <2>1. \A i \in 1 .. n : i \in 1 .. (n + 1) /\ schedule'[i] = schedule[i]
      BY <1>13, <1>16
    <2> QED BY <1>n, <1>8, <1>12, <1>13, <1>16, <2>1 DEF Forward
  <1>24. Forward(Len(schedule))' => SlotsAreLoaded'
    BY <1>18, <1>22, <1>23
  <1>25. \A k \in 1 .. Len(schedule') :
            capacity'[schedule'[k].station] > 0 /\ (Forward(k - 1)' => FirstAndInOrder(k)')
    <2>1. PICK m : m = n + 1
      OBVIOUS
    <2>2. m - 1 = n
      BY <1>16, <2>1
    <2>3. capacity'[schedule'[m].station] > 0 /\ (Forward(m - 1) => FirstAndInOrder(m)')
      BY <1>8, <1>11, <1>12, <1>13, <1>22, <2>1, <2>2
    <2> QED BY <1>16, <1>18, <1>20, <1>21, <2>1, <2>3
  <1> QED BY <1>14, <1>17, <1>18, <1>19, <1>24, <1>25 DEF SchedulingIInv

LEMMA SchedulingNextKeeps == SchedulingIInv /\ [SchedulingNext]_schedulingVars => SchedulingIInv'
  <1> SUFFICES ASSUME SchedulingIInv, [SchedulingNext]_schedulingVars PROVE SchedulingIInv'
    OBVIOUS
  <1>1. CASE Answer
    BY <1>1, EndingKeeps DEF Answer
  <1>2. CASE NoSlot
    BY <1>2, EndingKeeps DEF NoSlot
  <1>3. CASE UNCHANGED schedulingVars
    <2>1. /\ due' = due /\ hours' = hours /\ capacity' = capacity
          /\ waiting' = waiting /\ free' = free /\ schedule' = schedule /\ phase' = phase
      BY <1>3 DEF schedulingVars
    <2> QED BY <2>1, EndingKeeps
  <1> QED BY <1>1, <1>2, <1>3, RunApsKeeps, AssignKeeps DEF SchedulingNext

\* For any due dates, estimates and capacities, also negative ones: orders are
\* put by due date, into stations with slots.  As long as no order put before it
\* ends before it starts, an order starts at the first moment at which a slot of
\* some station is free, in a station with room, and not before those.
THEOREM ScheduleIsGreedyHolds == SchedulingSpec => []ScheduleIsGreedy
  <1>1. SchedulingIInv => ScheduleIsGreedy
    <2> SUFFICES ASSUME SchedulingIInv, NEW k \in 1 .. Len(schedule)
                 PROVE  /\ schedule[k].start >= 0
                        /\ capacity[schedule[k].station] > 0
                        /\ \A j \in 1 .. Len(schedule) :
                              due[schedule[j].job] < due[schedule[k].job] => j < k
                        /\ Forward(k - 1) => FirstAndInOrder(k)
      BY ScheduleFacts DEF SchedulingIInv, ScheduleIsGreedy, FirstAndInOrder
    <2>1. Numbers /\ OrdersComeByDue
      BY DEF SchedulingIInv
    <2>2. ASSUME NEW j \in 1 .. Len(schedule), due[schedule[j].job] < due[schedule[k].job]
          PROVE  j < k
      <3>1. /\ schedule[j] \in Entry /\ schedule[k] \in Entry
            /\ due[schedule[j].job] \in Int /\ due[schedule[k].job] \in Int
        BY <2>1, ScheduleFacts DEF Numbers, Entry
      <3>2. ~(k < j) /\ j # k
        BY <2>1, <2>2, <3>1 DEF OrdersComeByDue
      <3> QED BY <3>2
    <2>3. schedule[k].start >= 0
      BY <2>1, ScheduleFacts DEF Entry
    <2> QED BY <2>2, <2>3 DEF SchedulingIInv
  <1>2. SchedulingSpec => []SchedulingIInv
    BY SchedulingInitHolds, SchedulingNextKeeps, PTL DEF SchedulingSpec
  <1> QED BY <1>1, <1>2, PTL
=============================================================================
