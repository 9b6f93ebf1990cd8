------------------------------- MODULE Suppliers -------------------------------
(***************************************************************************)
(* Suppliers, their ratings and the changes of their tier                  *)
(* (services/supplier_service.py, models/supplier.py).                     *)
(*                                                                         *)
(* A change of tier is requested, an approval is asked for over HTTP       *)
(* whether or not that succeeds, and a callback approves or rejects it.    *)
(* Any number of changes may be pending.  The callback loads the change    *)
(* and the supplier and writes the columns that differ from what it has    *)
(* loaded; a rating sets the score of the supplier in the same way.        *)
(***************************************************************************)
EXTENDS Integers, FiniteSets

CONSTANTS
    SourcingReq,        \* database sessions open at once
    Supplier,
    Tier,               \* tiers in use
    TierChange,         \* requests for a tier
    RatingPeriod,       \* periods a supplier is rated for
    Rated               \* total scores in use

ASSUME RatedAssumption == Rated \subseteq 0 .. 100

VARIABLES
    tier,       \* Supplier.tier, "none" before it is created
    rating,     \* Supplier.rating_score
    changes,    \* rows of supplier_tier_changes
    ratings,    \* rows of supplier_ratings
    sourcing,   \* sessions at work
    started,    \* history: the tier a supplier was created with
    promised,   \* history: the tier of the change approved last
    lastRating, \* history: the score of the rating committed last
    outrun      \* history: suppliers written from a row that had changed

supplierTables == <<tier, rating, changes, ratings>>
supplierVars   == <<supplierTables, sourcing, started, promised, lastRating, outrun>>

ChangeRow == [id : TierChange, supplier : Supplier, from : Tier, to : Tier,
              approval : {"pending", "approved", "rejected"}]

SupplierInit ==
    /\ tier = [s \in Supplier |-> "none"]
    /\ rating = [s \in Supplier |-> 0]
    /\ changes = {}
    /\ ratings = {}
    /\ sourcing = {}
    /\ started = [s \in Supplier |-> "none"]
    /\ promised = [s \in Supplier |-> "none"]
    /\ lastRating = [s \in Supplier |-> 0]
    /\ outrun = {}

\* The client chooses the first tier.
CreateSupplier(s, t) ==
    /\ tier[s] = "none"
    /\ tier' = [tier EXCEPT ![s] = t]
    /\ started' = [started EXCEPT ![s] = t]
    /\ promised' = [promised EXCEPT ![s] = t]
    /\ UNCHANGED <<rating, changes, ratings, sourcing, lastRating, outrun>>

\* request_tier_change: the row stays pending whatever the approval answers.
RequestTierChange(id, s, to) ==
    /\ tier[s] # "none"
    /\ tier[s] # to
    /\ \A c \in changes : c.id # id
    /\ changes' = changes \union
           {[id |-> id, supplier |-> s, from |-> tier[s], to |-> to, approval |-> "pending"]}
    /\ UNCHANGED <<tier, rating, ratings, sourcing, started, promised, lastRating, outrun>>

-----------------------------------------------------------------------------
(* complete_tier_change and add_rating                                       *)

Vacant(r) == \A t \in sourcing : t.by # r

Decidable == {c \in changes : c.approval = "pending"}

BeginCallback(r, c, approved) ==
    /\ Vacant(r)
    /\ sourcing' = sourcing \union
           {[by |-> r, does |-> "callback", change |-> c, approved |-> approved,
             saw |-> tier[c.supplier], supplier |-> c.supplier]}
    /\ UNCHANGED <<supplierTables, started, promised, lastRating, outrun>>

\* Mutant: a rejected change is applied as well.
MutantTierAfter(t) == t.change.to

\* The column is left out of the UPDATE when it has the value it was loaded with.
TierAfter(t) ==
    IF t.approved /\ t.change.to # t.saw THEN t.change.to ELSE tier[t.supplier]

Decided(t) == [t.change EXCEPT !.approval = IF t.approved THEN "approved" ELSE "rejected"]

CommitCallback(t) ==
    /\ t.does = "callback"
    /\ changes' = {c \in changes : c.id # t.change.id} \union {Decided(t)}
    /\ tier' = [tier EXCEPT ![t.supplier] = TierAfter(t)]
    /\ promised' = [promised EXCEPT ![t.supplier] = IF t.approved THEN t.change.to ELSE @]
    /\ outrun' = IF t.change \in changes /\ t.saw = tier[t.supplier]
                 THEN outrun ELSE outrun \union {t.supplier}
    /\ sourcing' = sourcing \ {t}
    /\ UNCHANGED <<rating, ratings, started, lastRating>>

BeginRating(r, s, period, score) ==
    /\ Vacant(r)
    /\ tier[s] # "none"
    /\ sourcing' = sourcing \union
           {[by |-> r, does |-> "rating", supplier |-> s, period |-> period, score |-> score,
             saw |-> rating[s]]}
    /\ UNCHANGED <<supplierTables, started, promised, lastRating, outrun>>

ScoreAfter(t) == IF t.score # t.saw THEN t.score ELSE rating[t.supplier]

\* A supplier has one rating of a period.
CommitRating(t) ==
    /\ t.does = "rating"
    /\ \A row \in ratings : <<row.supplier, row.period>> # <<t.supplier, t.period>>
    /\ ratings' = ratings \union [supplier : {t.supplier}, period : {t.period}, score : {t.score}]
    /\ rating' = [rating EXCEPT ![t.supplier] = ScoreAfter(t)]
    /\ lastRating' = [lastRating EXCEPT ![t.supplier] = t.score]
    /\ outrun' = IF t.saw = rating[t.supplier] THEN outrun ELSE outrun \union {t.supplier}
    /\ sourcing' = sourcing \ {t}
    /\ UNCHANGED <<tier, changes, started, promised>>

SupplierRollback(t) ==
    /\ sourcing' = sourcing \ {t}
    /\ UNCHANGED <<supplierTables, started, promised, lastRating, outrun>>

SupplierNext ==
    \/ \E s \in Supplier, t \in Tier : CreateSupplier(s, t)
    \/ \E id \in TierChange, s \in Supplier, to \in Tier : RequestTierChange(id, s, to)
    \/ \E r \in SourcingReq, c \in Decidable, approved \in BOOLEAN : BeginCallback(r, c, approved)
    \/ \E t \in sourcing : CommitCallback(t)
    \/ \E r \in SourcingReq, s \in Supplier, p \in RatingPeriod, n \in Rated : BeginRating(r, s, p, n)
    \/ \E t \in sourcing : CommitRating(t)
    \/ \E t \in sourcing : SupplierRollback(t)

SupplierSpec == SupplierInit /\ [][SupplierNext]_supplierVars

-----------------------------------------------------------------------------
\* The rows of suppliers, their changes and ratings.
SupplierTypeOK ==
    /\ tier \in [Supplier -> Tier \union {"none"}]
    /\ rating \in [Supplier -> 0 .. 100]
    /\ changes \subseteq ChangeRow
    /\ \A row \in ratings : row.supplier \in Supplier /\ row.score \in Rated
    /\ started \in [Supplier -> Tier \union {"none"}]
    /\ outrun \subseteq Supplier

\* A supplier has the tier of the change approved last and the score of the
\* rating added last, however the changes were requested and decided, unless a
\* session wrote over a row that had changed since it was loaded.
SupplierIsAsDecided ==
    \A s \in Supplier \ outrun : tier[s] = promised[s] /\ rating[s] = lastRating[s]

\* A change that ends as rejected has not moved its supplier: a supplier that
\* has left the tier it was created with, whichever that was, has an approved
\* change to where it is, unless a session wrote over a row that had changed.
TierHasApproval ==
    \A s \in Supplier \ outrun : tier[s] # started[s] =>
        \E c \in changes : c.supplier = s /\ c.to = tier[s] /\ c.approval = "approved"

\* Suppliers are where their approved changes and ratings have put them.
SuppliersAreAsDecided ==
    /\ SupplierTypeOK
    /\ SupplierIsAsDecided
    /\ TierHasApproval
=============================================================================
