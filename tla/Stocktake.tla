------------------------------ MODULE Stocktake ------------------------------
(***************************************************************************)
(* Stocktakes (services/stocktake_service.py, models/stocktake.py) working *)
(* on the inventory of module Inventory, at the same time as its requests. *)
(*                                                                         *)
(* A stocktake records, when it is created, the on_hand of every counted   *)
(* item next to the quantity found.  Confirming it is one session that     *)
(* reads the header, then reads and flushes the inventory row of one line  *)
(* after the other, each of which stays locked from then on, and commits   *)
(* all adjustment moves and the new status together.                       *)
(***************************************************************************)
EXTENDS Inventory

CONSTANTS
    StReq,   \* database sessions that can run stocktake handlers at once
    St,      \* stocktakes
    Actual   \* quantities a count may find; the schema declares ge=0

ASSUME ActualAssumption == Actual \subseteq Nat

VARIABLES
    st_status,  \* Stocktake.status; "none" before the stocktake exists
    lines,      \* counted items, each with its system and actual quantity
    adjusted,   \* signed sum, per item, of the moves that reference a stocktake
    confirming, \* sessions inside confirm_stocktake
    moving,     \* sessions inside transition_stocktake
    restated    \* history: stocktakes whose new status replaced one not read

stVars == <<st_status, lines, adjusted, confirming, moving, restated>>
vars   == <<invVars, stVars>>

STOCKTAKE_TRANSITIONS ==
    {<<"draft", "confirmed">>, <<"draft", "cancelled">>, <<"confirmed", "closed">>}

Status == {"none", "draft", "confirmed", "closed", "cancelled"}

NoRows  == [i \in {} |-> 0]
NoMoves == [i \in Item |-> 0]

\* Mutant: a surplus is taken for a loss.
MutantVariance(s, i) ==
    IF i \in DOMAIN lines[s] THEN lines[s][i].system - lines[s][i].actual ELSE 0

Variance(s, i) ==
    IF i \in DOMAIN lines[s] THEN lines[s][i].actual - lines[s][i].system ELSE 0

\* Mutant: the loss is booked whatever is on hand.
MutantCoverable(s, i) == TRUE

\* create_move for one line: adjustment_in for a surplus, adjustment_out,
\* which needs enough on hand, for a loss.
Coverable(s, i) == Variance(s, i) < 0 => Enough("adjustment_out", i, -Variance(s, i))

\* Lines without a variance are skipped by confirm_stocktake.
Adjusting(s) == {i \in Item : Variance(s, i) # 0}

StFree(r) == /\ \A t \in confirming : t.by # r
             /\ \A t \in moving : t.by # r

StInit ==
    /\ st_status = [s \in St |-> "none"]
    /\ lines = [s \in St |-> NoRows]
    /\ adjusted = [s \in St |-> NoMoves]
    /\ confirming = {}
    /\ moving = {}
    /\ restated = {}

-----------------------------------------------------------------------------
(* create_stocktake: the count is given by the caller, the system quantity  *)
(* is the on_hand of the moment.  Nobody sees the draft before its commit,  *)
(* and what is read for it is kept as it was, so it is one step.            *)
CreateStocktake(s, items, found) ==
    /\ st_status[s] = "none"
    /\ items # {}
    /\ st_status' = [st_status EXCEPT ![s] = "draft"]
    /\ lines' = [lines EXCEPT ![s] =
           [i \in items |-> [system |-> on_hand[i], actual |-> found[i]]]]
    /\ UNCHANGED <<invVars, adjusted, confirming, moving, restated>>

-----------------------------------------------------------------------------
(* confirm_stocktake                                                         *)

BeginConfirm(r, s) ==
    /\ StFree(r)
    /\ <<st_status[s], "confirmed">> \in STOCKTAKE_TRANSITIONS
    /\ confirming' = confirming \union
           {[by |-> r, st |-> s, from |-> st_status[s], saw |-> NoRows, wrote |-> {}]}
    /\ UNCHANGED <<invVars, st_status, lines, adjusted, moving, restated>>

ReadLine(t, i) ==
    LET row == [row |-> i \in present, onHand |-> on_hand[i]]
    IN  /\ DOMAIN t.saw = t.wrote
        /\ i \in Adjusting(t.st) \ t.wrote
        /\ Coverable(t.st, i)
        /\ confirming' = (confirming \ {t}) \union
               {[t EXCEPT !.saw = [j \in DOMAIN t.saw \union {i} |->
                                       IF j = i THEN row ELSE t.saw[j]]]}
        /\ UNCHANGED <<invVars, st_status, lines, adjusted, moving, restated>>

\* The flush at the end of create_move: an INSERT of a row that exists by now
\* fails, a row another confirmation has flushed has to be waited for.
FlushLine(t, i) ==
    /\ i \in DOMAIN t.saw \ t.wrote
    /\ t.saw[i].row \/ i \notin present
    /\ \A u \in confirming : i \notin u.wrote
    /\ confirming' = (confirming \ {t}) \union {[t EXCEPT !.wrote = @ \union {i}]}
    /\ UNCHANGED <<invVars, st_status, lines, adjusted, moving, restated>>

\* Mutant: lines that raised are skipped and the others are committed.
MutantAllLines(t) == TRUE

\* No line raised.
AllLines(t) == t.wrote = Adjusting(t.st)

\* Mutant: the row is set to what was counted instead of moved by the variance.
MutantLeft(t, i) == lines[t.st][i].actual

\* The on_hand that create_move leaves in a row.
Left(t, i) == t.saw[i].onHand + Variance(t.st, i)

\* The adjustment move of an item.
Moved(t, i) == IF i \in t.wrote THEN Variance(t.st, i) ELSE 0

CommitConfirm(t) ==
    LET s    == t.st
        done == t.wrote
    IN  /\ AllLines(t)
        /\ \A i \in done : booked[i] + Moved(t, i) \in -MaxBooked..MaxBooked
        /\ present' = present \union done
        /\ on_hand' = [i \in Item |-> IF i \in done THEN Left(t, i) ELSE on_hand[i]]
        /\ booked' = [i \in Item |-> booked[i] + Moved(t, i)]
        /\ adjusted' = [adjusted EXCEPT ![s] = [i \in Item |-> @[i] + Moved(t, i)]]
        /\ st_status' = [st_status EXCEPT ![s] = "confirmed"]
        /\ confirming' = confirming \ {t}
        /\ lost' = lost \union {i \in done : t.saw[i].onHand # on_hand[i]}
        /\ uncovered' = uncovered \union
               {i \in done : Moved(t, i) < 0 /\ Left(t, i) < reserved[i]}
        /\ restated' = IF st_status[s] = t.from THEN restated ELSE restated \union {s}
        /\ UNCHANGED <<reserved, open, lines, moving>>

\* A line without enough stock raises, and takes the whole confirmation with
\* it; so do a duplicate row and a lost connection.
AbortConfirm(t) ==
    /\ confirming' = confirming \ {t}
    /\ UNCHANGED <<invVars, st_status, lines, adjusted, moving, restated>>

-----------------------------------------------------------------------------
(* transition_stocktake: the status is validated against the one read; any   *)
(* status of the table can be asked for, "confirmed" too.                    *)

BeginTransition(r, s, to) ==
    /\ StFree(r)
    /\ <<st_status[s], to>> \in STOCKTAKE_TRANSITIONS
    /\ moving' = moving \union {[by |-> r, st |-> s, from |-> st_status[s], to |-> to]}
    /\ UNCHANGED <<invVars, st_status, lines, adjusted, confirming, restated>>

CommitTransition(t) ==
    /\ st_status' = [st_status EXCEPT ![t.st] = t.to]
    /\ moving' = moving \ {t}
    /\ restated' = IF st_status[t.st] = t.from THEN restated ELSE restated \union {t.st}
    /\ UNCHANGED <<invVars, lines, adjusted, confirming>>

-----------------------------------------------------------------------------
\* Rows that a confirmation has flushed and not committed yet.
LockedRows == UNION {t.wrote : t \in confirming}

\* The requests of the inventory service wait for a locked row.
InventoryStep ==
    /\ InvNext
    /\ \A i \in LockedRows : on_hand'[i] = on_hand[i] /\ reserved'[i] = reserved[i]
                              /\ (i \in present' => i \in present)
    /\ UNCHANGED stVars

StNext ==
    \/ InventoryStep
    \/ \E s \in St, items \in SUBSET Item :
          \E found \in [items -> Actual] : CreateStocktake(s, items, found)
    \/ \E r \in StReq, s \in St : BeginConfirm(r, s)
    \/ \E t \in confirming, i \in Item : ReadLine(t, i)
    \/ \E t \in confirming, i \in Item : FlushLine(t, i)
    \/ \E t \in confirming : CommitConfirm(t)
    \/ \E t \in confirming : AbortConfirm(t)
    \/ \E r \in StReq, s \in St, to \in Status : BeginTransition(r, s, to)
    \/ \E t \in moving : CommitTransition(t)

Init == InvInit /\ StInit
Spec == Init /\ [][StNext]_vars

-----------------------------------------------------------------------------
\* The stocktake tables and the sessions working on them; every stocktake has
\* lines.
StTypeOK ==
    /\ InvTypeOK
    /\ st_status \in [St -> Status]
    /\ \A s \in St : /\ DOMAIN lines[s] \subseteq Item
                     /\ \A i \in DOMAIN lines[s] :
                           lines[s][i] \in [system : Int, actual : Nat]
    /\ \A s \in St : st_status[s] = "none" <=> DOMAIN lines[s] = {}
    /\ adjusted \in [St -> [Item -> Int]]
    /\ \A t \in confirming : /\ t.by \in StReq /\ t.st \in St /\ t.from \in Status
                             /\ t.wrote \subseteq DOMAIN t.saw
                             /\ DOMAIN t.saw \subseteq Item
                             /\ \A i \in DOMAIN t.saw :
                                   t.saw[i] \in [row : BOOLEAN, onHand : Int]
    /\ moving \subseteq [by : StReq, st : St, from : Status, to : Status]
    /\ restated \subseteq St

\* Confirming is all or nothing and happens once: the moves that reference a
\* stocktake are either none or exactly its variances, and exactly those only
\* on a stocktake that is confirmed or closed, unless a session overwrote a
\* status it had not read.
AdjustedAllOrNothing ==
    \A s \in St \ restated :
        \/ adjusted[s] = NoMoves
        \/ /\ adjusted[s] = [i \in Item |-> Variance(s, i)]
           /\ st_status[s] \in {"confirmed", "closed"}

\* A confirmation leaves on hand what was counted wherever the stock has not
\* moved since the count, even if other lines have and other sessions are at
\* work; a stock that has moved is not looked at again.
ConfirmReachesCountUnlessMoved ==
    [][\A s \in St : adjusted'[s] # adjusted[s] =>
          \A i \in DOMAIN lines[s] \ lost' :
              on_hand[i] = lines[s][i].system => on_hand'[i] = lines[s][i].actual]_vars

\* models/stocktake.py: confirming a draft creates the adjustment moves.
ConfirmedIsAdjusted ==
    \A s \in St : st_status[s] = "confirmed" =>
        adjusted[s] = [i \in Item |-> Variance(s, i)]
=============================================================================
