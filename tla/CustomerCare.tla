----------------------------- MODULE CustomerCare -----------------------------
(***************************************************************************)
(* Customers with their leads, opportunities and service tickets           *)
(* (customer_service.py, crm_service.py, ticket_service.py).               *)
(*                                                                         *)
(* All three documents move along a table of transitions that is looked up *)
(* for the status a session has read.  A ticket is closed with a score, or *)
(* by the plain transition without one.  The 360 degree view of a customer *)
(* and the funnel are each put together from several SELECTs; the view     *)
(* counts all documents of a customer, orders among them, and lists the    *)
(* newest of them.                                                         *)
(***************************************************************************)
EXTENDS Integers, FiniteSets

CONSTANTS
    DeskReq,            \* database sessions open at once
    Customer,
    Rating(_),          \* Customer.rating, which nothing changes
    Doc,                \* leads, opportunities, tickets and PLM orders
    Kind(_), Client(_), \* their kind and customer
    Score,              \* NPS scores in use
    Moment,             \* values of created_at
    ListLimit           \* rows the view lists, 10 in the code

ASSUME DocAssumption ==
    \A d \in Doc : Kind(d) \in {"lead", "opportunity", "ticket", "order"} /\ Client(d) \in Customer
ASSUME RatingAssumption == \A c \in Customer : Rating(c) \in {"A", "B", "C", "D", "none"}

\* 0 <= nps_score <= 10 is checked by close_ticket.
ASSUME ScoreAssumption == Score \subseteq 0 .. 10
ASSUME ListAssumption == Moment \subseteq Nat /\ ListLimit \in Nat \ {0}

VARIABLES
    customers,  \* rows of customers
    contacts,   \* their number of contacts, none or some
    stage,      \* status or stage of a document, "none" before it is created
    opened,     \* created_at of a document
    due,        \* hours to sla_due_at of a ticket
    score,      \* nps_score of a ticket, -1 if NULL
    caring,     \* sessions at work on a document
    view,       \* a view being put together or last returned
    passed      \* history: documents whose status was set over one not read,
                \* since they were last closed

deskTables == <<customers, contacts, stage, opened, due, score>>
deskVars   == <<deskTables, caring, view, passed>>

LEAD_TRANSITIONS ==
    [new |-> {"contacted", "disqualified"}, contacted |-> {"qualified", "disqualified"},
     qualified |-> {"converted", "disqualified"}, converted |-> {}, disqualified |-> {}]

OPPORTUNITY_TRANSITIONS ==
    [qualification |-> {"proposal", "closed_lost"}, proposal |-> {"negotiation", "closed_lost"},
     negotiation |-> {"closed_won", "closed_lost"}, closed_won |-> {}, closed_lost |-> {}]

\* Mutant: a closed ticket may be taken up again.
MutantTICKET_TRANSITIONS ==
    [open |-> {"in_progress", "closed"}, in_progress |-> {"pending_customer", "resolved"},
     pending_customer |-> {"in_progress", "resolved"}, resolved |-> {"closed", "in_progress"},
     closed |-> {"in_progress"}]

TICKET_TRANSITIONS ==
    [open |-> {"in_progress", "closed"}, in_progress |-> {"pending_customer", "resolved"},
     pending_customer |-> {"in_progress", "resolved"}, resolved |-> {"closed", "in_progress"},
     closed |-> {}]

\* An order is confirmed as soon as it is made of a quote, and then left alone.
ORDER_TRANSITIONS == [confirmed |-> {}]

Table(d) == CASE Kind(d) = "lead"        -> LEAD_TRANSITIONS
              [] Kind(d) = "opportunity" -> OPPORTUNITY_TRANSITIONS
              [] Kind(d) = "ticket"      -> TICKET_TRANSITIONS
              [] Kind(d) = "order"       -> ORDER_TRANSITIONS

Exists(d) == stage[d] # "none"

\* Targets the table has for a status.
Targets(d, from) == IF from \in DOMAIN Table(d) THEN Table(d)[from] ELSE {}

First(d) == CASE Kind(d) = "lead"        -> "new"
              [] Kind(d) = "opportunity" -> "qualification"
              [] Kind(d) = "ticket"      -> "open"
              [] Kind(d) = "order"       -> "confirmed"

SLA_HOURS == [A |-> 4, B |-> 8, C |-> 24, D |-> 48]

\* calculate_sla_due
SlaHours(rating) == IF rating \in DOMAIN SLA_HOURS THEN SLA_HOURS[rating] ELSE 24

NoView == [step |-> "none", of |-> {}, counted |-> {}, listed |-> {}]

DeskInit ==
    /\ customers = {}
    /\ contacts = [c \in Customer |-> 0]
    /\ stage = [d \in Doc |-> "none"]
    /\ opened = [d \in Doc |-> 0]
    /\ due = [d \in Doc |-> 0]
    /\ score = [d \in Doc |-> -1]
    /\ caring = {}
    /\ view = NoView
    /\ passed = {}

CreateCustomer(c) ==
    /\ c \notin customers
    /\ customers' = customers \union {c}
    /\ UNCHANGED <<contacts, stage, opened, due, score, caring, view, passed>>

\* The number is cut at one.
AddContact(c) ==
    /\ c \in customers
    /\ contacts' = [contacts EXCEPT ![c] = 1]
    /\ UNCHANGED <<customers, stage, opened, due, score, caring, view, passed>>

\* created_at is the start of the transaction, so that a document may be older
\* than one that was there before it.
Insert(d, moment) ==
    /\ ~Exists(d)
    /\ Client(d) \in customers
    /\ stage' = [stage EXCEPT ![d] = First(d)]
    /\ opened' = [opened EXCEPT ![d] = moment]

\* create_lead, create_opportunity, and the order made of a quote
CreateDoc(d, moment) ==
    /\ Kind(d) # "ticket"
    /\ Insert(d, moment)
    /\ UNCHANGED <<customers, contacts, due, score, caring, view, passed>>

CreateServiceTicket(d, moment) ==
    /\ Kind(d) = "ticket"
    /\ Insert(d, moment)
    /\ due' = [due EXCEPT ![d] = SlaHours(Rating(Client(d)))]
    /\ UNCHANGED <<customers, contacts, score, caring, view, passed>>

-----------------------------------------------------------------------------
(* transition_lead, transition_opportunity, transition_ticket, close_ticket  *)

Waiting(r) == \A s \in caring : s.by # r

BeginMoveDoc(r, d, to) ==
    /\ Waiting(r)
    /\ Exists(d)
    /\ to \in Targets(d, stage[d])
    /\ caring' = caring \union {[by |-> r, doc |-> d, from |-> stage[d], to |-> to, score |-> -1]}
    /\ UNCHANGED <<deskTables, view, passed>>

MayClose(d) == "closed" \in Targets(d, stage[d])

BeginClose(r, d, n) ==
    /\ Waiting(r)
    /\ Kind(d) = "ticket"
    /\ Exists(d)
    /\ MayClose(d)
    /\ caring' = caring \union {[by |-> r, doc |-> d, from |-> stage[d], to |-> "closed", score |-> n]}
    /\ UNCHANGED <<deskTables, view, passed>>

\* Only close_ticket writes the column of the score.
Stamped(s) == IF s.score = -1 THEN score[s.doc] ELSE s.score

Passed(s) ==
    IF s.to = "closed" THEN passed \ {s.doc}
    ELSE IF stage[s.doc] = s.from THEN passed
    ELSE passed \union {s.doc}

CommitMoveDoc(s) ==
    /\ stage' = [stage EXCEPT ![s.doc] = s.to]
    /\ score' = [score EXCEPT ![s.doc] = Stamped(s)]
    /\ passed' = Passed(s)
    /\ caring' = caring \ {s}
    /\ UNCHANGED <<customers, contacts, opened, due, view>>

DeskRollback(s) ==
    /\ caring' = caring \ {s}
    /\ UNCHANGED <<deskTables, view, passed>>

-----------------------------------------------------------------------------
(* get_customer_360 and get_funnel: what is counted first and what is read   *)
(* next are different moments.                                               *)

DocsOf(c) == {d \in Doc : Exists(d) /\ Client(d) = c}

Prospects(kind) == {d \in Doc : Exists(d) /\ Kind(d) = kind}

CountActivities(c) ==
    /\ view.step # "counted"
    /\ c \in customers
    /\ view' = [step |-> "counted", of |-> {c}, counted |-> DocsOf(c), listed |-> {}]
    /\ UNCHANGED <<deskTables, caring, passed>>

\* Mutant: the oldest documents are listed.
MutantNewest(docs) ==
    {l \in SUBSET docs :
        /\ Cardinality(l) <= ListLimit
        /\ l # docs => Cardinality(l) = ListLimit
        /\ \A d \in l, e \in docs \ l : opened[d] <= opened[e]}

\* ORDER BY created_at DESC LIMIT: documents of one moment come in any order.
Newest(docs) ==
    {l \in SUBSET docs :
        /\ Cardinality(l) <= ListLimit
        /\ l # docs => Cardinality(l) = ListLimit
        /\ \A d \in l, e \in docs \ l : opened[d] >= opened[e]}

\* What the second SELECT may return.
Listed == IF view.of = {} THEN {Prospects("opportunity")}
                          ELSE Newest(DocsOf(CHOOSE c \in view.of : TRUE))

CountLeads ==
    /\ view.step # "counted"
    /\ view' = [step |-> "counted", of |-> {}, counted |-> Prospects("lead"), listed |-> {}]
    /\ UNCHANGED <<deskTables, caring, passed>>

ListActivities ==
    /\ view.step = "counted"
    /\ \E l \in Listed : view' = [view EXCEPT !.step = "returned", !.listed = l]
    /\ UNCHANGED <<deskTables, caring, passed>>

DeskNext ==
    \/ \E c \in Customer : CreateCustomer(c)
    \/ \E c \in Customer : AddContact(c)
    \/ \E d \in Doc, moment \in Moment : CreateDoc(d, moment)
    \/ \E d \in Doc, moment \in Moment : CreateServiceTicket(d, moment)
    \/ \E r \in DeskReq, d \in Doc, to \in UNION {DOMAIN Table(e) : e \in Doc} :
           BeginMoveDoc(r, d, to)
    \/ \E r \in DeskReq, d \in Doc, n \in Score : BeginClose(r, d, n)
    \/ \E s \in caring : CommitMoveDoc(s)
    \/ \E s \in caring : DeskRollback(s)
    \/ \E c \in Customer : CountActivities(c)
    \/ CountLeads
    \/ ListActivities

DeskSpec == DeskInit /\ [][DeskNext]_deskVars

-----------------------------------------------------------------------------
\* The rows of customers and documents, each document in a status of its table.
DeskTypeOK ==
    /\ customers \subseteq Customer
    /\ contacts \in [Customer -> 0 .. 1]
    /\ \A d \in Doc : Exists(d) => stage[d] \in DOMAIN Table(d) /\ Client(d) \in customers
    /\ opened \in [Doc -> Nat]
    /\ due \in [Doc -> 0 .. 48]
    /\ score \in [Doc -> -1 .. 10]
    /\ view.listed \subseteq Doc /\ view.counted \subseteq Doc
    /\ passed \subseteq Doc

\* A ticket that has been scored by its customer is closed and stays closed,
\* unless a session that had read it before has set its status over the closing,
\* and then until it is closed again.
ScoredIsClosed == \A d \in Doc \ passed : score[d] # -1 => stage[d] = "closed"

\* A document the 360 degree view has counted and does not list has had to give
\* way to as many as it lists, none of them older, although counting and listing
\* are different moments and a document may appear with an old created_at.
ViewListsNewest ==
    view.step = "returned" /\ view.of # {} =>
        \A d \in view.counted \ view.listed :
            /\ Cardinality(view.listed) = ListLimit
            /\ \A e \in view.listed : opened[e] >= opened[d]

\* The documents of the desk and what it shows of them hang together.
DeskIsSound ==
    /\ DeskTypeOK
    /\ ScoredIsClosed
    /\ ViewListsNewest
=============================================================================
