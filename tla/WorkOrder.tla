------------------------------ MODULE WorkOrder ------------------------------
(***************************************************************************)
(* Work orders and the job tickets reported against them (production lane: *)
(* api/work_orders.py, api/job_tickets.py).                                *)
(*                                                                         *)
(* Reporting a ticket stamps it, adds its quantity to the one its work     *)
(* order had when it was read, flushes both rows, which stay locked from   *)
(* then on, and appends "work_order.completed" to the stream when the      *)
(* planned quantity is reached, all before the commit.  The status of the  *)
(* work order is moved by hand and looks at none of this.                  *)
(***************************************************************************)
EXTENDS Integers, FiniteSetsExt

CONSTANTS
    Req,            \* database sessions open at once
    Order, Ticket,  \* work orders, job tickets
    OrderOf(_),     \* the work order of a ticket
    Planned(_),     \* WorkOrder.planned_quantity, which nothing bounds
    WithBom,        \* work orders whose BOM the PLM service finds
    Qty             \* quantities a ticket reports, ge=0

ASSUME OrderAssumption ==
    /\ \A t \in Ticket : OrderOf(t) \in Order
    /\ \A w \in Order : Planned(w) \in Int
ASSUME QtyAssumption == Qty \subseteq Nat

VARIABLES
    status,     \* WorkOrder.status, "none" before it is created
    completed,  \* WorkOrder.completed_quantity
    ticket,     \* "none", "open" or "reported" (reported_at is set)
    quantity,   \* JobTicket.completed_qty
    announced,  \* quantities told by the completion events of each work order
    reporting,  \* sessions inside report
    moving,     \* sessions inside transition_status
    lost,       \* history: orders of which a COMMIT overwrote an unread quantity
    doubled,    \* history: tickets a second report has gone through for
    restated    \* history: orders whose status was set over one not read

tables  == <<status, completed, ticket, quantity, announced>>
history == <<lost, doubled, restated>>
vars    == <<tables, reporting, moving, history>>

\* _ALLOWED_TRANSITIONS is a chain, given here by the place of each status.
Rank(s) == CASE s = "none"        -> 0
             [] s = "planned"     -> 1
             [] s = "released"    -> 2
             [] s = "in_progress" -> 3
             [] s = "completed"   -> 4
             [] s = "closed"      -> 5

Status == {"none", "planned", "released", "in_progress", "completed", "closed"}

Free(r) == /\ \A s \in reporting : s.by # r
           /\ \A s \in moving : s.by # r

\* Rows a session has flushed and not committed: its ticket always, its work
\* order if the quantity of that has changed.
Flushed(s) == s.stage \in {"flushed", "announced"}
LockedTicket(t) == \E s \in reporting : Flushed(s) /\ s.ticket = t
LockedOrder(w)  == \E s \in reporting : Flushed(s) /\ OrderOf(s.ticket) = w /\ s.qty > 0

Init ==
    /\ status = [w \in Order |-> "none"]
    /\ completed = [w \in Order |-> 0]
    /\ ticket = [t \in Ticket |-> "none"]
    /\ quantity = [t \in Ticket |-> 0]
    /\ announced = [w \in Order |-> {}]
    /\ reporting = {}
    /\ moving = {}
    /\ lost = {}
    /\ doubled = {}
    /\ restated = {}

-----------------------------------------------------------------------------
(* create_work_order and create_job_ticket, whose rows nobody sees before    *)
(* their commit, and transition_status.                                      *)

CreateOrder(w) ==
    /\ status[w] = "none"
    /\ status' = [status EXCEPT ![w] = "planned"]
    /\ UNCHANGED <<completed, ticket, quantity, announced, reporting, moving, history>>

CreateTicket(t) ==
    /\ ticket[t] = "none"
    /\ status[OrderOf(t)] # "none"
    /\ ticket' = [ticket EXCEPT ![t] = "open"]
    /\ UNCHANGED <<status, completed, quantity, announced, reporting, moving, history>>

Allowed(from, to) == from # "none" /\ Rank(to) = Rank(from) + 1

\* Releasing asks the PLM service for the BOM, which takes a while.
BeginTransition(r, w, to) ==
    /\ Free(r)
    /\ Allowed(status[w], to)
    /\ to = "released" => w \in WithBom
    /\ moving' = moving \union {[by |-> r, order |-> w, from |-> status[w], to |-> to]}
    /\ UNCHANGED <<tables, reporting, history>>

CommitTransition(s) ==
    /\ ~LockedOrder(s.order)
    /\ status' = [status EXCEPT ![s.order] = s.to]
    /\ moving' = moving \ {s}
    /\ restated' = IF status[s.order] = s.from THEN restated ELSE restated \union {s.order}
    /\ UNCHANGED <<completed, ticket, quantity, announced, reporting, lost, doubled>>

RollbackTransition(s) ==
    /\ moving' = moving \ {s}
    /\ UNCHANGED <<tables, reporting, history>>

-----------------------------------------------------------------------------
(* report                                                                    *)

Step(s, t) == reporting' = (reporting \ {s}) \union {t}

\* "job ticket already reported"
Reportable(t) == ticket[t] = "open"

BeginReport(r, t, q) ==
    /\ Free(r)
    /\ Reportable(t)
    /\ reporting' = reporting \union
           {[by |-> r, ticket |-> t, qty |-> q, stage |-> "begun", saw |-> 0, left |-> 0]}
    /\ UNCHANGED <<tables, moving, history>>

ReadOrder(s) ==
    /\ s.stage = "begun"
    /\ Step(s, [s EXCEPT !.stage = "read", !.saw = completed[OrderOf(s.ticket)]])
    /\ UNCHANGED <<tables, moving, history>>

\* flush and refresh: a quantity that did not change is not written, and is
\* read again as others have left it.
Flush(s) ==
    LET w == OrderOf(s.ticket)
    IN  /\ s.stage = "read"
        /\ ~LockedTicket(s.ticket)
        /\ s.qty > 0 => ~LockedOrder(w)
        /\ Step(s, [s EXCEPT !.stage = "flushed",
                              !.left = IF s.qty > 0 THEN s.saw + s.qty ELSE completed[w]])
        /\ UNCHANGED <<tables, moving, history>>

\* Mutant: the event is only published when the plan is exceeded.
MutantReached(s) == s.left > Planned(OrderOf(s.ticket))

Reached(s) == s.left >= Planned(OrderOf(s.ticket))

Publish(s) ==
    /\ s.stage = "flushed"
    /\ Reached(s)
    /\ announced' = [announced EXCEPT ![OrderOf(s.ticket)] = @ \union {s.left}]
    /\ Step(s, [s EXCEPT !.stage = "announced"])
    /\ UNCHANGED <<status, completed, ticket, quantity, moving, history>>

\* Mutant: the quantity of the work order is written even if it is unchanged.
MutantAdds(s) == TRUE

Adds(s) == s.qty > 0

CommitReport(s) ==
    LET w == OrderOf(s.ticket)
    IN  /\ s.stage = IF Reached(s) THEN "announced" ELSE "flushed"
        /\ ticket' = [ticket EXCEPT ![s.ticket] = "reported"]
        /\ quantity' = [quantity EXCEPT ![s.ticket] = IF s.qty > 0 THEN s.qty ELSE @]
        /\ completed' = [completed EXCEPT ![w] = IF Adds(s) THEN s.saw + s.qty ELSE @]
        /\ lost' = IF s.qty > 0 /\ s.saw # completed[w] THEN lost \union {w} ELSE lost
        /\ doubled' = IF ticket[s.ticket] = "reported"
                      THEN doubled \union {s.ticket} ELSE doubled
        /\ reporting' = reporting \ {s}
        /\ UNCHANGED <<status, announced, moving, restated>>

\* The publisher raises, the COMMIT fails or the process dies.
RollbackReport(s) ==
    /\ reporting' = reporting \ {s}
    /\ UNCHANGED <<tables, moving, history>>

Next ==
    \/ \E w \in Order : CreateOrder(w)
    \/ \E t \in Ticket : CreateTicket(t)
    \/ \E r \in Req, w \in Order, to \in Status : BeginTransition(r, w, to)
    \/ \E s \in moving : CommitTransition(s)
    \/ \E s \in moving : RollbackTransition(s)
    \/ \E r \in Req, t \in Ticket, q \in Qty : BeginReport(r, t, q)
    \/ \E s \in reporting : ReadOrder(s)
    \/ \E s \in reporting : Flush(s)
    \/ \E s \in reporting : Publish(s)
    \/ \E s \in reporting : CommitReport(s)
    \/ \E s \in reporting : RollbackReport(s)

Spec == Init /\ [][Next]_vars

-----------------------------------------------------------------------------
\* The tables of the shop floor and the sessions working on them; a ticket
\* belongs to a work order that exists.
TypeOK ==
    /\ status \in [Order -> Status]
    /\ completed \in [Order -> Nat]
    /\ ticket \in [Ticket -> {"none", "open", "reported"}]
    /\ \A t \in Ticket : ticket[t] # "none" => status[OrderOf(t)] # "none"
    /\ quantity \in [Ticket -> Nat]
    /\ announced \in [Order -> SUBSET Nat]
    /\ reporting \subseteq
           [by : Req, ticket : Ticket, qty : Qty, saw : Nat, left : Nat,
            stage : {"begun", "read", "flushed", "announced"}]
    /\ moving \subseteq [by : Req, order : Order, from : Status, to : Status]
    /\ lost \subseteq Order
    /\ doubled \subseteq Ticket
    /\ restated \subseteq Order

Reported(w) == {t \in Ticket : OrderOf(t) = w /\ ticket[t] = "reported"}

\* The completed quantity of a work order is the sum of its reported tickets,
\* unless two reports overlapped on the order or on one of the tickets.
CompletedIsReported ==
    \A w \in Order \ lost :
        Reported(w) \intersect doubled = {} =>
            completed[w] = SumFunctionOnSet(quantity, Reported(w))

\* Once a committed report has brought a work order to its plan the event has
\* been published, however the reports overlapped and whatever they lost.
ReachedIsAnnounced ==
    \A w \in Order :
        (Reported(w) # {} /\ completed[w] >= Planned(w)) => announced[w] # {}

\* The status of a work order moves along the chain one step at a time and
\* never back, unless it had changed since the session read it.
ForwardUnlessStale ==
    [][\A w \in Order : status'[w] # status[w] =>
          Rank(status'[w]) = Rank(status[w]) + 1 \/ w \in restated']_vars
=============================================================================
