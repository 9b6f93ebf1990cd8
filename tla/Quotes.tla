-------------------------------- MODULE Quotes --------------------------------
(***************************************************************************)
(* Quotes of the product lifecycle lane and the orders made from them      *)
(* (order_service.py, models/quote.py, models/crm.py).                     *)
(*                                                                         *)
(* Adding an item sums the items of the quote into its total_amount.  The  *)
(* transition to "ordered" writes the status, copies total and items into  *)
(* an order, publishes "sales_order.confirmed" and only then commits.      *)
(* Nothing limits a quote to one order, and items may be added at any      *)
(* time.  An amount is represented by the set of the items it adds up.     *)
(***************************************************************************)
EXTENDS Naturals

CONSTANTS
    QuoteReq,       \* database sessions open at once
    Quote, Item,    \* quotes and the items that may be added to them
    QuoteOf(_),     \* the quote an item is added to
    OrderId         \* bound: primary keys of orders, drawn before the commit

ASSUME ItemAssumption == \A i \in Item : QuoteOf(i) \in Quote

VARIABLES
    quote,      \* Quote.status, "none" before it is created
    total,      \* Quote.total_amount, as the items it adds up
    items,      \* rows of quote_items
    orders,     \* rows of sales_orders with their lines
    confirmed,  \* orders announced by sales_order.confirmed
    quoting,    \* sessions at work on a quote
    skewed,     \* history: quotes whose total or order mixes two readings
    repeated    \* history: quotes whose status was set over one not read

quoteTables == <<quote, total, items, orders, confirmed>>
quoteVars   == <<quoteTables, quoting, skewed, repeated>>

QUOTE_TRANSITIONS ==
    [none |-> {}, draft |-> {"submitted"}, submitted |-> {"approved", "rejected"},
     approved |-> {"contracted"}, contracted |-> {"ordered"}, ordered |-> {},
     rejected |-> {"draft"}]

QuoteStatus == DOMAIN QUOTE_TRANSITIONS

ItemsOf(q) == {i \in items : QuoteOf(i) = q}

OrderRow == [id : OrderId, quote : Quote, total : SUBSET Item, lines : SUBSET Item]

QuoteInit ==
    /\ quote = [q \in Quote |-> "none"]
    /\ total = [q \in Quote |-> {}]
    /\ items = {}
    /\ orders = {}
    /\ confirmed = {}
    /\ quoting = {}
    /\ skewed = {}
    /\ repeated = {}

Idle(r) == \A s \in quoting : s.by # r

\* Between its flush and its commit an ordering session holds the quote.
QuoteLocked(q) == \E s \in quoting : s.stage = "published" /\ s.quote = q

QuoteStep(s, t) == quoting' = (quoting \ {s}) \union {t}

CreateQuote(q) ==
    /\ quote[q] = "none"
    /\ quote' = [quote EXCEPT ![q] = "draft"]
    /\ UNCHANGED <<total, items, orders, confirmed, quoting, skewed, repeated>>

-----------------------------------------------------------------------------
(* add_quote_item: INSERT, then the items that can be seen are summed up.    *)

\* Mutant: the sum misses the item that has just been inserted.
MutantSummed(i) == ItemsOf(QuoteOf(i))

Summed(i) == ItemsOf(QuoteOf(i)) \union {i}

BeginAddItem(r, i) ==
    /\ Idle(r)
    /\ quote[QuoteOf(i)] # "none"
    /\ i \notin items
    /\ quoting' = quoting \union
           {[by |-> r, quote |-> QuoteOf(i), stage |-> "adding", item |-> i,
             seen |-> ItemsOf(QuoteOf(i)), sum |-> Summed(i)]}
    /\ UNCHANGED <<quoteTables, skewed, repeated>>

CommitAddItem(s) ==
    /\ s.stage = "adding"
    /\ ~QuoteLocked(s.quote)
    /\ s.item \notin items
    /\ items' = items \union {s.item}
    /\ total' = [total EXCEPT ![s.quote] = s.sum]
    /\ skewed' = IF s.seen = ItemsOf(s.quote) THEN skewed ELSE skewed \union {s.quote}
    /\ quoting' = quoting \ {s}
    /\ UNCHANGED <<quote, orders, confirmed, repeated>>

-----------------------------------------------------------------------------
(* transition_quote                                                          *)

BeginQuoteTransition(r, q, to) ==
    /\ Idle(r)
    /\ to \in QUOTE_TRANSITIONS[quote[q]]
    /\ quoting' = quoting \union
           {[by |-> r, quote |-> q, stage |-> "moving", from |-> quote[q], to |-> to,
             seen |-> ItemsOf(q), sum |-> total[q]]}
    /\ UNCHANGED <<quoteTables, skewed, repeated>>

CommitQuoteTransition(s) ==
    /\ s.stage = "moving"
    /\ s.to # "ordered"
    /\ ~QuoteLocked(s.quote)
    /\ quote' = [quote EXCEPT ![s.quote] = s.to]
    /\ repeated' = IF quote[s.quote] = s.from THEN repeated ELSE repeated \union {s.quote}
    /\ quoting' = quoting \ {s}
    /\ UNCHANGED <<total, items, orders, confirmed, skewed>>

\* get_quote loads the items with a SELECT of its own, after that of the quote.
ReadItems(s) ==
    /\ s.stage = "moving"
    /\ s.to = "ordered"
    /\ QuoteStep(s, [by |-> s.by, quote |-> s.quote, stage |-> "read", from |-> s.from,
                     sum |-> s.sum, lines |-> ItemsOf(s.quote)])
    /\ skewed' = IF s.seen = ItemsOf(s.quote) THEN skewed ELSE skewed \union {s.quote}
    /\ UNCHANGED <<quoteTables, repeated>>

\* _create_order_from_quote
OrderFrom(s, o) == [id |-> o, quote |-> s.quote, total |-> s.sum, lines |-> s.lines]

Announce(o) == confirmed \union {o}

\* The status is flushed, the order inserted and confirmed, the event sent.
PublishConfirmed(s, o) ==
    /\ s.stage = "read"
    /\ ~QuoteLocked(s.quote)
    /\ \A row \in orders : row.id # o
    /\ o \notin confirmed
    /\ confirmed' = Announce(o)
    /\ QuoteStep(s, [by |-> s.by, quote |-> s.quote, stage |-> "published",
                     from |-> s.from, row |-> OrderFrom(s, o)])
    /\ UNCHANGED <<quote, total, items, orders, skewed, repeated>>

CommitOrder(s) ==
    /\ s.stage = "published"
    /\ quote' = [quote EXCEPT ![s.quote] = "ordered"]
    /\ orders' = orders \union {s.row}
    /\ repeated' = IF quote[s.quote] = s.from THEN repeated ELSE repeated \union {s.quote}
    /\ quoting' = quoting \ {s}
    /\ UNCHANGED <<total, items, confirmed, skewed>>

\* The publisher raises, a constraint fails or the process dies.
QuoteRollback(s) ==
    /\ quoting' = quoting \ {s}
    /\ UNCHANGED <<quoteTables, skewed, repeated>>

QuoteNext ==
    \/ \E q \in Quote : CreateQuote(q)
    \/ \E r \in QuoteReq, i \in Item : BeginAddItem(r, i)
    \/ \E r \in QuoteReq, q \in Quote, to \in QuoteStatus : BeginQuoteTransition(r, q, to)
    \/ \E s \in quoting : CommitAddItem(s)
    \/ \E s \in quoting : CommitQuoteTransition(s)
    \/ \E s \in quoting : ReadItems(s)
    \/ \E s \in quoting, o \in OrderId : PublishConfirmed(s, o)
    \/ \E s \in quoting : CommitOrder(s)
    \/ \E s \in quoting : QuoteRollback(s)

QuoteSpec == QuoteInit /\ [][QuoteNext]_quoteVars

-----------------------------------------------------------------------------
\* The rows of the quotes and their orders, and the sessions at work on them.
QuoteTypeOK ==
    /\ quote \in [Quote -> QuoteStatus]
    /\ total \in [Quote -> SUBSET Item]
    /\ items \subseteq Item
    /\ orders \subseteq OrderRow
    /\ confirmed \subseteq OrderId
    /\ \A s \in quoting : s.by \in QuoteReq /\ s.quote \in Quote
    /\ skewed \subseteq Quote
    /\ repeated \subseteq Quote

\* An order that exists has been announced by sales_order.confirmed, whatever
\* failed before or beside it: the event is sent before the commit.
OrderIsAnnounced == \A o \in orders : o.id \in confirmed

\* The total of an order is the sum of its lines, unless items were added to
\* its quote by two sessions at once or between the two SELECTs of an order.
OrderTotalIsLines == \A o \in orders : o.quote \in skewed \/ o.total = o.lines

\* A quote becomes one order, unless a session set its status over one that it
\* had not read.
OneOrderPerQuote ==
    \A o, p \in orders : o.quote = p.quote /\ o # p => o.quote \in repeated

\* What becomes of a quote is one order as it was quoted, and announced.
OrderIsAsQuoted ==
    /\ QuoteTypeOK
    /\ OrderIsAnnounced
    /\ OrderTotalIsLines
    /\ OneOrderPerQuote
=============================================================================
