----------------------------- MODULE MCCustomers ------------------------------
(* The customer side in one run: sales orders, quotes, customer care and the *)
(* access to the gateway.  They share no row, so that their interleavings    *)
(* add nothing: `part` says which of them moves in a behaviour.              *)
EXTENDS SalesOrder, Quotes, CustomerCare, Access, TLC

CONSTANTS q1, c1, lead1, opp1, ticket1, order1, root

VARIABLE part

MCTotal      == {0, 2}
MCAmount     == {1, 2}
MCQuoteOf(i) == q1
MCRating(c)  == "B"
MCKind(d)    == CASE d = lead1 -> "lead" [] d = opp1 -> "opportunity"
                  [] d = ticket1 -> "ticket" [] d = order1 -> "order"
MCClient(d)  == c1

MCInit ==
    /\ Init
    /\ QuoteInit
    /\ DeskInit
    /\ AccessInit
    /\ part \in {"orders", "quotes", "care", "views", "access"}

\* Sessions on one document, and views of documents that do not move.
DeskBound ==
    CASE part = "care"  -> /\ view' = view
                           /\ Cardinality({d \in Doc : stage'[d] # "none"}) <= 1
                           /\ \A d \in Doc : opened'[d] <= 1
      [] part = "views" -> caring' = caring

MCNext ==
    /\ UNCHANGED part
    /\ \/ part = "orders" /\ Next /\ UNCHANGED <<quoteVars, deskVars, accessVars>>
       \/ part = "quotes" /\ QuoteNext /\ UNCHANGED <<vars, deskVars, accessVars>>
       \/ /\ part \in {"care", "views"}
          /\ DeskNext
          /\ DeskBound
          /\ UNCHANGED <<vars, quoteVars, accessVars>>
       \/ part = "access" /\ AccessNext /\ UNCHANGED <<vars, quoteVars, deskVars>>

MCSpec == MCInit /\ [][MCNext]_<<vars, quoteVars, deskVars, accessVars, part>>

\* The parts use the same requests.
MCSymmetry == Permutations(Req)
=============================================================================
