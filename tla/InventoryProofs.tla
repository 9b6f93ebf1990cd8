--------------------------- MODULE InventoryProofs ---------------------------
(***************************************************************************)
(* Theorems about module Inventory for any number of sessions, items and   *)
(* quantities.  The inductive invariant InvIInv adds to the properties     *)
(* GuardsHeld: what a session may still write was safe for the row it      *)
(* read, which is all that survives once the row has changed under it.     *)
(*                                                                         *)
(* The second part is about module Stocktake, whose confirmations work on  *)
(* the same rows: the theorems of the first hold with them, and a          *)
(* stocktake is adjusted once and as a whole.                              *)
(***************************************************************************)
EXTENDS Stocktake, TLAPS

\* A quantity is a positive number, so a signed one is a number.
LEMMA SignedInt ==
    ASSUME NEW type \in MoveTypes, NEW q \in Qty
    PROVE  /\ q \in Nat /\ q > 0
           /\ Signed(type, q) \in Int
           /\ Signed(type, q) = q \/ Signed(type, q) = -q
  BY QtyAssumption DEF Signed

\* A session that only read leaves the tables alone and obeys the guards.
LEMMA OpenedKeeps ==
    ASSUME InvIInv, NEW s \in Session, Opened(s),
           s.sawOnHand >= 0 /\ s.sawReserved >= 0,
           s.kind = "move" => s.sawOnHand + s.delta >= 0,
           s.kind = "reserve" =>
              /\ s.item \in present
              /\ s.sawReserved + s.delta >= 0
              /\ s.delta >= 0 => s.sawReserved + s.delta <= s.sawOnHand
    PROVE  InvIInv'
  <1>1. InvTypeOK'
    BY DEF InvIInv, InvTypeOK, Opened, history
  <1>2. GuardsHeld'
    BY DEF InvIInv, GuardsHeld, Opened, history
  <1>3. NonNegative' /\ LedgerUnlessLost' /\ ReservedCoveredUnlessIssued'
    BY DEF InvIInv, NonNegative, LedgerUnlessLost, ReservedCoveredUnlessIssued,
           Opened, history
  <1> QED BY <1>1, <1>2, <1>3 DEF InvIInv

\* Opening a session reads integers.
LEMMA ReadingType ==
    ASSUME InvTypeOK, NEW r \in Req, NEW k \in {"move", "reserve"},
           NEW i \in Item, NEW d \in Int
    PROVE  Reading(r, k, i, d) \in Session
  BY DEF InvTypeOK, Reading, Session

LEMMA BeginMoveKeeps ==
    ASSUME InvIInv, NEW r \in Req, NEW type \in MoveTypes, NEW i \in Item,
           NEW q \in Qty, BeginMove(r, type, i, q)
    PROVE  InvIInv'
  <1> DEFINE s == Reading(r, "move", i, Signed(type, q))
  <1>1. Signed(type, q) \in Int /\ q \in Nat
    BY SignedInt
  <1>2. s \in Session /\ Opened(s)
    BY <1>1, ReadingType DEF BeginMove, InvIInv
  <1>3. on_hand[i] \in Int /\ on_hand[i] >= 0 /\ reserved[i] >= 0
    BY DEF InvIInv, InvTypeOK, NonNegative
  <1>4. on_hand[i] + Signed(type, q) >= 0
    BY <1>1, <1>3 DEF BeginMove, Enough, Signed, MoveTypes
  <1> QED
    BY <1>2, <1>3, <1>4, OpenedKeeps DEF Reading

LEMMA BeginReserveKeeps ==
    ASSUME InvIInv, NEW r \in Req, NEW i \in Item, NEW q \in Qty,
           BeginReserve(r, i, q) \/ BeginUnreserve(r, i, q)
    PROVE  InvIInv'
  <1>1. on_hand[i] \in Int /\ reserved[i] \in Int
    BY DEF InvIInv, InvTypeOK
  <1>2. on_hand[i] >= 0 /\ reserved[i] >= 0 /\ q \in Nat /\ q > 0
    BY QtyAssumption DEF InvIInv, NonNegative
  <1>3. CASE BeginReserve(r, i, q)
    <2> DEFINE s == Reading(r, "reserve", i, q)
    <2>1. s \in Session /\ Opened(s)
      BY <1>2, <1>3, ReadingType DEF BeginReserve, InvIInv
    <2>2. reserved[i] + q <= on_hand[i]
      BY <1>1, <1>2, <1>3 DEF BeginReserve, Available
    <2> QED BY <1>1, <1>2, <1>3, <2>1, <2>2, OpenedKeeps DEF Reading, BeginReserve
  <1>4. CASE BeginUnreserve(r, i, q)
    <2> DEFINE s == Reading(r, "reserve", i, -q)
    <2>1. s \in Session /\ Opened(s)
      BY <1>2, <1>4, ReadingType DEF BeginUnreserve, InvIInv
    <2>2. reserved[i] - q >= 0
      BY <1>1, <1>2, <1>4 DEF BeginUnreserve
    <2> QED BY <1>1, <1>2, <1>4, <2>1, <2>2, OpenedKeeps DEF Reading, BeginUnreserve
  <1> QED BY <1>3, <1>4

LEMMA CommitMoveKeeps ==
    ASSUME InvIInv, NEW s \in open, CommitMove(s)
    PROVE  InvIInv'
  <1> DEFINE j == s.item
             left == s.sawOnHand + s.delta
  <1>1. /\ s \in Session /\ j \in Item /\ s.delta \in Int
        /\ s.sawOnHand \in Int /\ left \in Int
    BY DEF InvIInv, InvTypeOK, Session
  <1>2. left >= 0
    BY DEF InvIInv, GuardsHeld, CommitMove
  <1>3. /\ on_hand' = [on_hand EXCEPT ![j] = left]
        /\ booked' = [booked EXCEPT ![j] = @ + s.delta]
        /\ present' = present \union {j}
        /\ open' = open \ {s}
        /\ reserved' = reserved
        /\ lost' = Mark(lost, j, StaleOnHand(s))
        /\ uncovered' = Mark(uncovered, j, s.delta < 0 /\ left < reserved[j])
    BY DEF CommitMove, WithRow
  <1>4. InvTypeOK'
    BY <1>1, <1>3 DEF InvIInv, InvTypeOK, Mark
  <1>5. GuardsHeld'
    BY <1>3 DEF InvIInv, GuardsHeld
  <1>6. NonNegative'
    BY <1>1, <1>2, <1>3 DEF InvIInv, NonNegative, InvTypeOK
  <1>7. LedgerUnlessLost'
    BY <1>1, <1>3 DEF InvIInv, LedgerUnlessLost, InvTypeOK, Mark, StaleOnHand
  <1>8. ReservedCoveredUnlessIssued'
    <2> SUFFICES ASSUME NEW i \in Item, i \notin (lost \union uncovered)'
                 PROVE  reserved[i] <= on_hand'[i]
      BY <1>3 DEF ReservedCoveredUnlessIssued
    <2>1. i \notin lost \union uncovered
      BY <1>3 DEF Mark
    <2>2. reserved[i] <= on_hand[i] /\ reserved[i] \in Int /\ on_hand[i] \in Int
      BY <2>1 DEF InvIInv, ReservedCoveredUnlessIssued, InvTypeOK
    <2>3. CASE i # j
      BY <1>3, <2>2, <2>3 DEF InvIInv, InvTypeOK
    <2>4. CASE i = j
      <3>1. on_hand'[j] = left
        BY <1>1, <1>3 DEF InvIInv, InvTypeOK
      <3>2. s.sawOnHand = on_hand[j]
        BY <1>3, <2>4 DEF Mark, StaleOnHand
      <3>3. ~(s.delta < 0 /\ left < reserved[j])
        BY <1>3, <2>4 DEF Mark
      <3> QED BY <1>1, <2>2, <2>4, <3>1, <3>2, <3>3
    <2> QED BY <2>3, <2>4
  <1> QED BY <1>4, <1>5, <1>6, <1>7, <1>8 DEF InvIInv

LEMMA CommitReserveKeeps ==
    ASSUME InvIInv, NEW s \in open, CommitReserve(s)
    PROVE  InvIInv'
  <1> DEFINE j == s.item
             held == s.sawReserved + s.delta
  <1>1. /\ j \in Item /\ s.delta \in Int /\ s.sawOnHand \in Int
        /\ s.sawReserved \in Int /\ held \in Int
    BY DEF InvIInv, InvTypeOK, Session
  <1>2. held >= 0 /\ (s.delta >= 0 => held <= s.sawOnHand)
    BY DEF InvIInv, GuardsHeld, CommitReserve
  <1>3. /\ reserved' = [reserved EXCEPT ![j] = held]
        /\ open' = open \ {s}
        /\ uncovered' = Mark(uncovered, j, StaleOnHand(s) \/ StaleReserved(s))
        /\ present' = present /\ on_hand' = on_hand /\ booked' = booked
        /\ lost' = lost
    BY DEF CommitReserve
  <1>0. j \in present
    BY DEF InvIInv, GuardsHeld, CommitReserve
  <1>4. InvTypeOK'
    BY <1>0, <1>1, <1>3 DEF InvIInv, InvTypeOK, Mark
  <1>5. GuardsHeld'
    BY <1>3 DEF InvIInv, GuardsHeld
  <1>6. NonNegative' /\ LedgerUnlessLost'
    BY <1>1, <1>2, <1>3 DEF InvIInv, NonNegative, LedgerUnlessLost, InvTypeOK
  <1>7. ReservedCoveredUnlessIssued'
    <2> SUFFICES ASSUME NEW i \in Item, i \notin (lost \union uncovered)'
                 PROVE  reserved'[i] <= on_hand[i]
      BY <1>3 DEF ReservedCoveredUnlessIssued
    <2>1. reserved[i] <= on_hand[i] /\ reserved[i] \in Int /\ on_hand[i] \in Int
      BY <1>3 DEF InvIInv, ReservedCoveredUnlessIssued, InvTypeOK, Mark
    <2>2. CASE i # j
      BY <1>3, <2>1, <2>2 DEF InvIInv, InvTypeOK
    <2>3. CASE i = j
      <3>1. s.sawOnHand = on_hand[j] /\ s.sawReserved = reserved[j]
        BY <1>3, <2>3 DEF Mark, StaleOnHand, StaleReserved
      <3>2. reserved'[j] = held
        BY <1>1, <1>3 DEF InvIInv, InvTypeOK
      <3> QED BY <1>1, <1>2, <2>1, <2>3, <3>1, <3>2
    <2> QED BY <2>2, <2>3
  <1> QED BY <1>4, <1>5, <1>6, <1>7 DEF InvIInv

\* Every step of the inventory service keeps the inductive invariant.
LEMMA InvNextKeeps == InvIInv /\ [InvNext]_invVars => InvIInv'
  <1> SUFFICES ASSUME InvIInv, [InvNext]_invVars PROVE InvIInv'
    OBVIOUS
  <1>1. ASSUME NEW r \in Req, NEW type \in MoveTypes, NEW i \in Item, NEW q \in Qty,
               BeginMove(r, type, i, q)
        PROVE  InvIInv'
    BY <1>1, BeginMoveKeeps
  <1>7. ASSUME NEW r \in Req, NEW i \in Item, NEW q \in Qty,
               ReceiveStock(r, i, q) \/ IssueMaterial(r, i, q)
        PROVE  InvIInv'
    BY <1>7, BeginMoveKeeps DEF ReceiveStock, IssueMaterial, MoveTypes,
                                InboundTypes, OutboundTypes
  <1>2. ASSUME NEW r \in Req, NEW i \in Item, NEW q \in Qty,
               BeginReserve(r, i, q) \/ BeginUnreserve(r, i, q)
        PROVE  InvIInv'
    BY <1>2, BeginReserveKeeps
  <1>3. ASSUME NEW s \in open, CommitMove(s) PROVE InvIInv'
    BY <1>3, CommitMoveKeeps
  <1>4. ASSUME NEW s \in open, CommitReserve(s) PROVE InvIInv'
    BY <1>4, CommitReserveKeeps
  <1>5. ASSUME NEW s \in open, Rollback(s) PROVE InvIInv'
    BY <1>5 DEF Rollback, InvIInv, InvTypeOK, GuardsHeld, NonNegative,
                LedgerUnlessLost, ReservedCoveredUnlessIssued, history
  <1>6. CASE UNCHANGED invVars
    BY <1>6 DEF invVars, history, InvIInv, InvTypeOK, GuardsHeld, NonNegative,
                LedgerUnlessLost, ReservedCoveredUnlessIssued
  <1> QED BY <1>1, <1>2, <1>3, <1>4, <1>5, <1>6, <1>7 DEF InvNext

LEMMA InvInitHolds == InvInit => InvIInv
  BY DEF InvInit, InvIInv, InvTypeOK, GuardsHeld, NonNegative,
         LedgerUnlessLost, ReservedCoveredUnlessIssued

\* The inductive invariant holds in every reachable state.
THEOREM InvInductive == InvSpec => []InvIInv
  BY InvInitHolds, InvNextKeeps, PTL DEF InvSpec

\* No interleaving of receive, issue, reserve and unreserve requests makes
\* on_hand or reserved negative.
THEOREM InvNonNegative == InvSpec => []NonNegative
  <1>1. InvIInv => NonNegative
    BY DEF InvIInv
  <1> QED BY <1>1, InvInductive, PTL

\* On hand equals the sum of the stock moves, for every item whose row no
\* session has overwritten with a value computed from an older one.
THEOREM InvLedger == InvSpec => []LedgerUnlessLost
  <1>1. InvIInv => LedgerUnlessLost
    BY DEF InvIInv
  <1> QED BY <1>1, InvInductive, PTL

\* Reserved stock is on hand, unless a reservation was computed from an old
\* row, an update was lost or a move took reserved stock.
THEOREM InvReserved == InvSpec => []ReservedCoveredUnlessIssued
  <1>1. InvIInv => ReservedCoveredUnlessIssued
    BY DEF InvIInv
  <1> QED BY <1>1, InvInductive, PTL

-----------------------------------------------------------------------------
(* Stocktakes                                                                *)

Readings == UNION {[D -> [row : BOOLEAN, onHand : Int]] : D \in SUBSET Item}

Confirmations == [by : StReq, st : St, from : Status, saw : Readings, wrote : SUBSET Item]

\* What confirm_stocktake has checked of the stocktake and of each line.
Confirms(t) ==
    /\ st_status[t.st] # "none"
    /\ t.from = "draft"
    /\ t.wrote \subseteq DOMAIN t.saw
    /\ \A i \in DOMAIN t.saw : t.saw[i].onHand >= 0 /\ Left(t, i) >= 0

StSessionsFit ==
    /\ DOMAIN lines = St
    /\ confirming \subseteq Confirmations
    /\ \A t \in confirming : Confirms(t)
    /\ \A t \in moving : /\ <<t.from, t.to>> \in STOCKTAKE_TRANSITIONS
                         /\ st_status[t.st] # "none"

StIInv ==
    /\ InvIInv
    /\ StTypeOK
    /\ StSessionsFit
    /\ AdjustedAllOrNothing

LEMMA VarianceInt ==
    ASSUME StTypeOK, NEW s \in St, NEW i \in Item
    PROVE  /\ Variance(s, i) \in Int
           /\ i \notin DOMAIN lines[s] => Variance(s, i) = 0
           /\ i \in DOMAIN lines[s] => Variance(s, i) = lines[s][i].actual - lines[s][i].system
  BY DEF StTypeOK, Variance

LEMMA StInitHolds == Init => StIInv
  <1> SUFFICES ASSUME Init PROVE StIInv
    OBVIOUS
  <1>1. InvIInv
    BY InvInitHolds DEF Init
  <1>2. StTypeOK
    BY <1>1 DEF InvIInv, Init, StInit, StTypeOK, Status, NoRows, NoMoves
  <1>3. StSessionsFit /\ AdjustedAllOrNothing
    BY DEF Init, StInit, StSessionsFit, AdjustedAllOrNothing
  <1> QED BY <1>1, <1>2, <1>3 DEF StIInv

\* A step that touches neither the stocktakes nor their adjustments.
LEMMA StSessionsKeep ==
    ASSUME StIInv, InvIInv', UNCHANGED <<st_status, lines, adjusted, restated>>,
           \A t \in confirming' : t \in confirming \/ (t \in Confirmations /\ Confirms(t)),
           \A t \in moving' : t \in moving \/
               /\ t \in [by : StReq, st : St, from : Status, to : Status]
               /\ <<t.from, t.to>> \in STOCKTAKE_TRANSITIONS
               /\ st_status[t.st] # "none"
    PROVE  StIInv'
  <1>1. StTypeOK'
    <2>1. ASSUME NEW t \in confirming'
          PROVE  /\ t.by \in StReq /\ t.st \in St /\ t.from \in Status
                 /\ t.wrote \subseteq DOMAIN t.saw
                 /\ DOMAIN t.saw \subseteq Item
                 /\ \A i \in DOMAIN t.saw : t.saw[i] \in [row : BOOLEAN, onHand : Int]
      BY <2>1 DEF StIInv, StTypeOK, Confirms, Confirmations, Readings
    <2> QED BY <2>1 DEF StIInv, InvIInv, StTypeOK
  <1>2. StSessionsFit'
    BY DEF StIInv, StSessionsFit, Confirms, Left, Variance
  <1>3. AdjustedAllOrNothing'
    BY DEF StIInv, AdjustedAllOrNothing, Variance
  <1> QED BY <1>1, <1>2, <1>3 DEF StIInv

LEMMA SameStock == ASSUME InvIInv, UNCHANGED invVars PROVE InvIInv'
  BY InvNextKeeps

LEMMA InventoryStepKeeps ==
    ASSUME StIInv, InventoryStep
    PROVE  StIInv'
  <1>1. InvIInv'
    BY InvNextKeeps DEF StIInv, InventoryStep
  <1> QED BY <1>1, StSessionsKeep DEF InventoryStep, stVars

LEMMA CreateStocktakeKeeps ==
    ASSUME StIInv, NEW s \in St, NEW items \in SUBSET Item, NEW found \in [items -> Actual],
           CreateStocktake(s, items, found)
    PROVE  StIInv'
  <1> DEFINE new == [i \in items |-> [system |-> on_hand[i], actual |-> found[i]]]
  <1>1. InvIInv'
    BY SameStock DEF StIInv, CreateStocktake
  <1>2. /\ st_status[s] = "none" /\ items # {}
        /\ st_status' = [st_status EXCEPT ![s] = "draft"]
        /\ lines' = [lines EXCEPT ![s] = new]
        /\ UNCHANGED <<adjusted, confirming, moving, restated>>
    BY DEF CreateStocktake
  <1>3. /\ DOMAIN new = items
        /\ \A i \in items : new[i] \in [system : Int, actual : Nat]
    BY ActualAssumption DEF StIInv, InvIInv, InvTypeOK
  <1> HIDE DEF new
  <1>4. /\ lines'[s] = new /\ st_status'[s] = "draft" /\ DOMAIN lines' = St
        /\ \A u \in St \ {s} : lines'[u] = lines[u] /\ st_status'[u] = st_status[u]
    BY <1>2 DEF StIInv, StTypeOK, StSessionsFit
  <1>5. StTypeOK'
    <2>1. st_status' \in [St -> Status]
      BY <1>2 DEF StIInv, StTypeOK, Status
    <2>2. \A u \in St : /\ DOMAIN lines'[u] \subseteq Item
                        /\ \A i \in DOMAIN lines'[u] : lines'[u][i] \in [system : Int, actual : Nat]
                        /\ st_status'[u] = "none" <=> DOMAIN lines'[u] = {}
      BY <1>2, <1>3, <1>4 DEF StIInv, StTypeOK
    <2> QED BY <1>1, <1>2, <2>1, <2>2 DEF StIInv, StTypeOK, InvIInv
  <1>6. \A u \in St \ {s} : \A i \in Item : Variance(u, i)' = Variance(u, i)
    BY <1>4 DEF Variance
  <1>7. StSessionsFit'
    <2>1. ASSUME NEW t \in confirming PROVE Confirms(t)'
      <3>1. t.st \in St \ {s} /\ Confirms(t) /\ DOMAIN t.saw \subseteq Item
        BY <1>2 DEF StIInv, StTypeOK, StSessionsFit, Confirms
      <3> QED BY <1>4, <1>6, <3>1 DEF Confirms, Left
    <2>2. \A t \in moving : st_status'[t.st] # "none"
      BY <1>2, <1>4 DEF StIInv, StTypeOK, StSessionsFit
    <2> QED BY <1>2, <1>4, <2>1, <2>2 DEF StIInv, StSessionsFit
  <1>8. AdjustedAllOrNothing'
    <2> SUFFICES ASSUME NEW u \in St, u \notin restated
                 PROVE  \/ adjusted[u] = NoMoves
                        \/ /\ adjusted[u] = [i \in Item |-> Variance(u, i)']
                           /\ st_status'[u] \in {"confirmed", "closed"}
      BY <1>2 DEF AdjustedAllOrNothing, NoMoves
    <2>1. \/ adjusted[u] = NoMoves
          \/ /\ adjusted[u] = [i \in Item |-> Variance(u, i)]
             /\ st_status[u] \in {"confirmed", "closed"}
      BY DEF StIInv, AdjustedAllOrNothing
    <2>2. CASE u = s
      BY <1>2, <2>1, <2>2
    <2>3. CASE u # s
      <3>1. [i \in Item |-> Variance(u, i)'] = [i \in Item |-> Variance(u, i)]
        BY <1>6, <2>3
      <3> QED BY <1>4, <2>1, <2>3, <3>1
    <2> QED BY <2>2, <2>3
  <1> QED BY <1>1, <1>5, <1>7, <1>8 DEF StIInv

LEMMA BeginConfirmKeeps ==
    ASSUME StIInv, NEW r \in StReq, NEW s \in St, BeginConfirm(r, s)
    PROVE  StIInv'
  <1> DEFINE t == [by |-> r, st |-> s, from |-> st_status[s], saw |-> NoRows, wrote |-> {}]
  <1>1. /\ confirming' = confirming \union {t}
        /\ UNCHANGED <<invVars, st_status, lines, adjusted, moving, restated>>
    BY DEF BeginConfirm
  <1>2. st_status[s] = "draft"
    BY DEF BeginConfirm, STOCKTAKE_TRANSITIONS
  <1>3. NoRows \in Readings /\ DOMAIN NoRows = {}
    <2>1. NoRows \in [{} -> [row : BOOLEAN, onHand : Int]]
      BY DEF NoRows
    <2> QED BY <2>1 DEF Readings, NoRows
  <1>4. t \in Confirmations /\ Confirms(t)
    BY <1>2, <1>3 DEF Confirmations, Confirms, Status
  <1> QED BY <1>1, <1>4, SameStock, StSessionsKeep DEF StIInv

LEMMA ReadLineKeeps ==
    ASSUME StIInv, NEW t \in confirming, NEW i \in Item, ReadLine(t, i)
    PROVE  StIInv'
  <1> DEFINE row == [row |-> i \in present, onHand |-> on_hand[i]]
             saw == [j \in DOMAIN t.saw \union {i} |-> IF j = i THEN row ELSE t.saw[j]]
             u   == [t EXCEPT !.saw = saw]
  <1>1. /\ confirming' = (confirming \ {t}) \union {u} /\ Coverable(t.st, i)
        /\ UNCHANGED <<invVars, st_status, lines, adjusted, moving, restated>>
    BY DEF ReadLine
  <1>2. t \in Confirmations /\ Confirms(t) /\ t.st \in St /\ DOMAIN t.saw \subseteq Item
    BY DEF StIInv, StSessionsFit, StTypeOK
  <1>3. /\ row \in [row : BOOLEAN, onHand : Int] /\ row.onHand = on_hand[i]
        /\ on_hand[i] \in Int /\ on_hand[i] >= 0
    BY DEF StIInv, InvIInv, InvTypeOK, NonNegative
  <1>4. on_hand[i] + Variance(t.st, i) >= 0
    BY <1>1, <1>2, <1>3, VarianceInt DEF StIInv, Coverable, Enough, OutboundTypes
  <1> HIDE DEF row
  <1>5. /\ saw \in Readings /\ DOMAIN saw = DOMAIN t.saw \union {i}
        /\ saw[i] = row /\ \A j \in DOMAIN t.saw \ {i} : saw[j] = t.saw[j]
    <2>1. \A j \in DOMAIN t.saw : t.saw[j] \in [row : BOOLEAN, onHand : Int]
      BY DEF StIInv, StTypeOK
    <2>2. saw \in [DOMAIN t.saw \union {i} -> [row : BOOLEAN, onHand : Int]]
      BY <1>3, <2>1
    <2> QED BY <1>2, <2>2 DEF Readings
  <1> HIDE DEF saw
  <1>6. /\ u \in Confirmations /\ u.st = t.st /\ u.from = t.from /\ u.saw = saw
        /\ u.wrote = t.wrote
    BY <1>2, <1>5 DEF Confirmations
  <1> HIDE DEF u
  <1>7. Confirms(u)
    BY <1>2, <1>3, <1>4, <1>5, <1>6 DEF Confirms, Left
  <1> QED BY <1>1, <1>6, <1>7, SameStock, StSessionsKeep DEF StIInv

LEMMA FlushLineKeeps ==
    ASSUME StIInv, NEW t \in confirming, NEW i \in Item, FlushLine(t, i)
    PROVE  StIInv'
  <1> DEFINE u == [t EXCEPT !.wrote = @ \union {i}]
  <1>1. /\ confirming' = (confirming \ {t}) \union {u} /\ i \in DOMAIN t.saw
        /\ UNCHANGED <<invVars, st_status, lines, adjusted, moving, restated>>
    BY DEF FlushLine
  <1>2. t \in Confirmations /\ Confirms(t)
    BY DEF StIInv, StSessionsFit
  <1>3. /\ u \in Confirmations /\ u.st = t.st /\ u.from = t.from /\ u.saw = t.saw
        /\ u.wrote = t.wrote \union {i}
    BY <1>2 DEF Confirmations
  <1> HIDE DEF u
  <1>4. Confirms(u)
    BY <1>1, <1>2, <1>3 DEF Confirms, Left
  <1> QED BY <1>1, <1>3, <1>4, SameStock, StSessionsKeep DEF StIInv

LEMMA AbortConfirmKeeps ==
    ASSUME StIInv, NEW t \in confirming, AbortConfirm(t)
    PROVE  StIInv'
  BY SameStock, StSessionsKeep DEF AbortConfirm, StIInv

LEMMA BeginStTransitionKeeps ==
    ASSUME StIInv, NEW r \in StReq, NEW s \in St, NEW to \in Status, BeginTransition(r, s, to)
    PROVE  StIInv'
  <1> DEFINE m == [by |-> r, st |-> s, from |-> st_status[s], to |-> to]
  <1>1. /\ m \in [by : StReq, st : St, from : Status, to : Status]
        /\ <<m.from, m.to>> \in STOCKTAKE_TRANSITIONS /\ st_status[m.st] # "none"
    BY DEF BeginTransition, STOCKTAKE_TRANSITIONS, StIInv, StTypeOK
  <1>2. /\ moving' = moving \union {m}
        /\ UNCHANGED <<invVars, st_status, lines, adjusted, confirming, restated>>
    BY DEF BeginTransition
  <1> HIDE DEF m
  <1> QED BY <1>1, <1>2, SameStock, StSessionsKeep DEF StIInv

LEMMA CommitStTransitionKeeps ==
    ASSUME StIInv, NEW t \in moving, CommitTransition(t)
    PROVE  StIInv'
  <1>1. /\ t.st \in St /\ t.to \in Status \ {"none"}
        /\ <<t.from, t.to>> \in STOCKTAKE_TRANSITIONS /\ st_status[t.st] # "none"
    BY DEF StIInv, StTypeOK, StSessionsFit, STOCKTAKE_TRANSITIONS
  <1>2. /\ \A s \in St : st_status'[s] = IF s = t.st THEN t.to ELSE st_status[s]
        /\ st_status' \in [St -> Status]
        /\ restated' = IF st_status[t.st] = t.from THEN restated ELSE restated \union {t.st}
        /\ moving' = moving \ {t}
        /\ UNCHANGED <<invVars, lines, adjusted, confirming>>
    BY <1>1 DEF CommitTransition, StIInv, StTypeOK
  <1>3. InvIInv'
    BY <1>2, SameStock DEF StIInv
  <1>4. StTypeOK'
    BY <1>1, <1>2, <1>3 DEF StIInv, InvIInv, StTypeOK
  <1>5. StSessionsFit'
    BY <1>1, <1>2 DEF StIInv, StTypeOK, StSessionsFit, Confirms, Left, Variance
  <1>6. AdjustedAllOrNothing'
    <2> SUFFICES ASSUME NEW s \in St, s \notin restated'
                 PROVE  \/ adjusted[s] = NoMoves
                        \/ /\ adjusted[s] = [i \in Item |-> Variance(s, i)]
                           /\ st_status'[s] \in {"confirmed", "closed"}
      BY <1>2 DEF AdjustedAllOrNothing, Variance
    <2>1. \/ adjusted[s] = NoMoves
          \/ /\ adjusted[s] = [i \in Item |-> Variance(s, i)]
             /\ st_status[s] \in {"confirmed", "closed"}
      BY <1>2 DEF StIInv, AdjustedAllOrNothing
    <2> QED BY <1>1, <1>2, <2>1 DEF STOCKTAKE_TRANSITIONS
  <1> QED BY <1>3, <1>4, <1>5, <1>6 DEF StIInv

\* What a confirmation writes.
LEMMA Confirmed ==
    ASSUME StIInv, NEW t \in confirming, CommitConfirm(t)
    PROVE  /\ t.st \in St /\ Confirms(t) /\ t.wrote \subseteq Item /\ t.wrote \subseteq DOMAIN t.saw
           /\ \A i \in Item : /\ i \notin t.wrote => Variance(t.st, i) = 0
                             /\ Moved(t, i) = Variance(t.st, i)
                             /\ Variance(t.st, i) \in Int
           /\ \A i \in t.wrote : /\ t.saw[i].onHand \in Int /\ Left(t, i) \in Int
                                 /\ Left(t, i) >= 0
           /\ \A i \in Item : on_hand'[i] = IF i \in t.wrote THEN Left(t, i) ELSE on_hand[i]
           /\ \A i \in Item : booked'[i] = booked[i] + Variance(t.st, i)
           /\ \A i \in t.wrote \ lost' : t.saw[i].onHand = on_hand[i]
           /\ \A i \in t.wrote \ uncovered' : Variance(t.st, i) < 0 => Left(t, i) >= reserved[i]
           /\ lost \subseteq lost' /\ uncovered \subseteq uncovered'
  <1>1. /\ t.st \in St /\ Confirms(t) /\ t.wrote \subseteq DOMAIN t.saw /\ DOMAIN t.saw \subseteq Item
        /\ \A i \in DOMAIN t.saw : t.saw[i].onHand \in Int
    BY DEF StIInv, StTypeOK, StSessionsFit
  <1>2. \A i \in Item : Variance(t.st, i) \in Int
    BY <1>1, VarianceInt DEF StIInv
  <1>3. \A i \in Item : /\ i \notin t.wrote => Variance(t.st, i) = 0
                      /\ Moved(t, i) = Variance(t.st, i)
    BY DEF CommitConfirm, AllLines, Adjusting, Moved
  <1>4. \A i \in t.wrote : /\ t.saw[i].onHand \in Int /\ Left(t, i) \in Int
                          /\ Left(t, i) >= 0
    BY <1>1, <1>2 DEF Confirms, Left
  <1>5. /\ \A i \in Item : on_hand'[i] = IF i \in t.wrote THEN Left(t, i) ELSE on_hand[i]
        /\ \A i \in Item : booked'[i] = booked[i] + Variance(t.st, i)
    BY <1>3 DEF CommitConfirm
  <1>6. /\ lost' = lost \union {i \in t.wrote : t.saw[i].onHand # on_hand[i]}
        /\ uncovered' = uncovered \union
               {i \in t.wrote : Moved(t, i) < 0 /\ Left(t, i) < reserved[i]}
    BY DEF CommitConfirm
  <1>7. \A i \in t.wrote \ uncovered' : Variance(t.st, i) < 0 => Left(t, i) >= reserved[i]
    <2>1. \A i \in t.wrote : reserved[i] \in Int
      BY <1>1 DEF StIInv, InvIInv, InvTypeOK
    <2> QED BY <1>1, <1>3, <1>4, <1>6, <2>1
  <1> QED BY <1>1, <1>2, <1>3, <1>4, <1>5, <1>6, <1>7

LEMMA CommitConfirmKeeps ==
    ASSUME StIInv, NEW t \in confirming, CommitConfirm(t)
    PROVE  StIInv'
  <1> DEFINE s == t.st
  <1>1. /\ s \in St /\ Confirms(t) /\ t.wrote \subseteq Item
        /\ \A i \in Item : /\ i \notin t.wrote => Variance(s, i) = 0
                          /\ Moved(t, i) = Variance(s, i)
                          /\ Variance(s, i) \in Int
        /\ \A i \in t.wrote : /\ t.saw[i].onHand \in Int /\ Left(t, i) \in Int
                              /\ Left(t, i) >= 0
        /\ \A i \in Item : on_hand'[i] = IF i \in t.wrote THEN Left(t, i) ELSE on_hand[i]
        /\ \A i \in Item : booked'[i] = booked[i] + Variance(s, i)
        /\ \A i \in t.wrote \ lost' : t.saw[i].onHand = on_hand[i]
        /\ \A i \in t.wrote \ uncovered' : Variance(s, i) < 0 => Left(t, i) >= reserved[i]
        /\ lost \subseteq lost' /\ uncovered \subseteq uncovered'
    BY Confirmed
  <1>2. /\ present' = present \union t.wrote
        /\ on_hand' = [i \in Item |-> on_hand'[i]] /\ booked' = [i \in Item |-> booked'[i]]
        /\ lost' \subseteq lost \union t.wrote /\ uncovered' \subseteq uncovered \union t.wrote
        /\ UNCHANGED <<reserved, open>>
    BY DEF CommitConfirm
  <1>3. /\ adjusted' = [adjusted EXCEPT ![s] = [i \in Item |-> @[i] + Moved(t, i)]]
        /\ st_status' = [st_status EXCEPT ![s] = "confirmed"]
        /\ confirming' = confirming \ {t}
        /\ restated' = IF st_status[s] = t.from THEN restated ELSE restated \union {s}
        /\ UNCHANGED <<lines, moving>>
    BY DEF CommitConfirm
  <1>4. \A i \in t.wrote : Left(t, i) = t.saw[i].onHand + Variance(s, i)
    BY DEF Left
  <1> HIDE DEF s
  <1>5. \A i \in Item : /\ on_hand[i] \in Int /\ on_hand[i] >= 0
                      /\ reserved[i] \in Int /\ booked[i] \in Int
    BY DEF StIInv, InvIInv, InvTypeOK, NonNegative
  <1>6. InvIInv'
    <2>1. InvTypeOK'
      <3>1. on_hand' \in [Item -> Int] /\ booked' \in [Item -> Int]
        BY <1>1, <1>2, <1>5
      <3>2. \A i \in Item \ present' : on_hand'[i] = 0 /\ reserved'[i] = 0
        BY <1>1, <1>2 DEF StIInv, InvIInv, InvTypeOK
      <3> QED BY <1>1, <1>2, <3>1, <3>2 DEF StIInv, InvIInv, InvTypeOK
    <2>2. GuardsHeld'
      BY <1>2 DEF StIInv, InvIInv, GuardsHeld
    <2>3. NonNegative'
      BY <1>1, <1>2 DEF StIInv, InvIInv, NonNegative
    <2>4. LedgerUnlessLost'
      <3> SUFFICES ASSUME NEW i \in Item, i \notin lost' PROVE on_hand'[i] = booked'[i]
        BY DEF LedgerUnlessLost
      <3>1. on_hand[i] = booked[i]
        BY <1>1 DEF StIInv, InvIInv, LedgerUnlessLost
      <3> QED BY <1>1, <1>4, <1>5, <3>1
    <2>5. ReservedCoveredUnlessIssued'
      <3> SUFFICES ASSUME NEW i \in Item, i \notin lost', i \notin uncovered'
                   PROVE  reserved[i] <= on_hand'[i]
        BY <1>2 DEF ReservedCoveredUnlessIssued
      <3>1. reserved[i] <= on_hand[i]
        BY <1>1 DEF StIInv, InvIInv, ReservedCoveredUnlessIssued
      <3>2. CASE i \notin t.wrote
        BY <1>1, <3>1, <3>2
      <3>3. CASE i \in t.wrote
        <4>1. on_hand'[i] = on_hand[i] + Variance(s, i) /\ on_hand'[i] = Left(t, i)
          BY <1>1, <1>4, <3>3
        <4>2. Variance(s, i) < 0 => on_hand'[i] >= reserved[i]
          BY <1>1, <3>3, <4>1
        <4>3. Variance(s, i) \in Int
          BY <1>1
        <4> QED BY <1>5, <3>1, <4>1, <4>2, <4>3
      <3> QED BY <3>2, <3>3
    <2> QED BY <2>1, <2>2, <2>3, <2>4, <2>5 DEF InvIInv
  <1>7. /\ adjusted' \in [St -> [Item -> Int]] /\ st_status' \in [St -> Status]
        /\ adjusted'[s] = [i \in Item |-> adjusted[s][i] + Variance(s, i)]
        /\ \A u \in St : st_status'[u] = IF u = s THEN "confirmed" ELSE st_status[u]
        /\ \A u \in St \ {s} : adjusted'[u] = adjusted[u]
    <2>1. [i \in Item |-> adjusted[s][i] + Moved(t, i)] = [i \in Item |-> adjusted[s][i] + Variance(s, i)]
      BY <1>1
    <2>2. adjusted[s] \in [Item -> Int] /\ adjusted \in [St -> [Item -> Int]]
      BY <1>1 DEF StIInv, StTypeOK
    <2>3. [i \in Item |-> adjusted[s][i] + Variance(s, i)] \in [Item -> Int]
      BY <1>1, <2>2
    <2>4. adjusted' = [adjusted EXCEPT ![s] = [i \in Item |-> adjusted[s][i] + Variance(s, i)]]
      BY <1>3, <2>1
    <2> QED BY <1>1, <1>3, <2>2, <2>3, <2>4 DEF StIInv, StTypeOK, Status
  <1>8. StTypeOK'
    <2>1. st_status[s] # "none"
      BY <1>1 DEF Confirms, s
    <2> QED BY <1>1, <1>3, <1>6, <1>7, <2>1 DEF StIInv, InvIInv, StTypeOK
  <1>9. StSessionsFit'
    BY <1>1, <1>3, <1>7 DEF StIInv, StTypeOK, StSessionsFit, Confirms, Left, Variance
  <1>10. AdjustedAllOrNothing'
    <2>0. \A u, i : Variance(u, i)' = Variance(u, i)
      BY <1>3 DEF Variance
    <2> SUFFICES ASSUME NEW u \in St, u \notin restated'
                 PROVE  \/ adjusted'[u] = NoMoves
                        \/ /\ adjusted'[u] = [i \in Item |-> Variance(u, i)]
                           /\ st_status'[u] \in {"confirmed", "closed"}
      BY <2>0 DEF AdjustedAllOrNothing, NoMoves
    <2>1. \/ adjusted[u] = NoMoves
          \/ /\ adjusted[u] = [i \in Item |-> Variance(u, i)]
             /\ st_status[u] \in {"confirmed", "closed"}
      BY <1>3 DEF StIInv, AdjustedAllOrNothing
    <2>2. CASE u # s
      BY <1>7, <2>1, <2>2
    <2>3. CASE u = s
      <3>1. st_status[s] = "draft"
        BY <1>1, <1>3, <2>3 DEF Confirms, s
      <3>2. \A i \in Item : adjusted[s][i] = 0
        BY <2>1, <2>3, <3>1 DEF NoMoves
      <3>3. adjusted'[s] = [i \in Item |-> Variance(s, i)]
        BY <1>1, <1>7, <3>2
      <3> QED BY <1>1, <1>7, <2>3, <3>3
    <2> QED BY <2>2, <2>3
  <1> QED BY <1>6, <1>8, <1>9, <1>10 DEF StIInv

LEMMA StNextKeeps == StIInv /\ [StNext]_vars => StIInv'
  <1> SUFFICES ASSUME StIInv, [StNext]_vars PROVE StIInv'
    OBVIOUS
  <1>1. CASE InventoryStep
    BY <1>1, InventoryStepKeeps
  <1>2. ASSUME NEW s \in St, NEW items \in SUBSET Item, NEW found \in [items -> Actual],
               CreateStocktake(s, items, found)
        PROVE  StIInv'
    BY <1>2, CreateStocktakeKeeps
  <1>3. ASSUME NEW r \in StReq, NEW s \in St, BeginConfirm(r, s) PROVE StIInv'
    BY <1>3, BeginConfirmKeeps
  <1>4. ASSUME NEW t \in confirming, NEW i \in Item, ReadLine(t, i) PROVE StIInv'
    BY <1>4, ReadLineKeeps
  <1>5. ASSUME NEW t \in confirming, NEW i \in Item, FlushLine(t, i) PROVE StIInv'
    BY <1>5, FlushLineKeeps
  <1>6. ASSUME NEW t \in confirming, CommitConfirm(t) PROVE StIInv'
    BY <1>6, CommitConfirmKeeps
  <1>7. ASSUME NEW t \in confirming, AbortConfirm(t) PROVE StIInv'
    BY <1>7, AbortConfirmKeeps
  <1>8. ASSUME NEW r \in StReq, NEW s \in St, NEW to \in Status, BeginTransition(r, s, to)
        PROVE  StIInv'
    BY <1>8, BeginStTransitionKeeps
  <1>9. ASSUME NEW t \in moving, CommitTransition(t) PROVE StIInv'
    BY <1>9, CommitStTransitionKeeps
  <1>10. CASE UNCHANGED vars
    BY <1>10, SameStock, StSessionsKeep DEF vars, stVars, StIInv
  <1> QED BY <1>1, <1>2, <1>3, <1>4, <1>5, <1>6, <1>7, <1>8, <1>9, <1>10 DEF StNext

LEMMA StInductive == Spec => []StIInv
  BY StInitHolds, StNextKeeps, PTL DEF Spec

\* The tables of stocktakes keep their types, next to those of the inventory.
THEOREM StTypeCorrect == Spec => []StTypeOK
  BY StInductive, PTL DEF StIInv

\* With confirmations of stocktakes among the requests the stock still never
\* goes negative, is explained by its moves and covers its reservations, up to
\* the same lost updates and issues.
THEOREM StStock == Spec => [](NonNegative /\ LedgerUnlessLost /\ ReservedCoveredUnlessIssued)
  BY StInductive, PTL DEF StIInv, InvIInv

\* confirm_stocktake books all the variances of a stocktake or none, and once,
\* unless a status was overwritten that had not been read.
THEOREM Adjusted == Spec => []AdjustedAllOrNothing
  BY StInductive, PTL DEF StIInv

\* A confirmation leaves what was counted of every item whose stock has not
\* moved since the count.
THEOREM ReachesCount == Spec => ConfirmReachesCountUnlessMoved
  <1>1. ASSUME StIInv, [StNext]_vars, NEW s \in St, adjusted'[s] # adjusted[s],
               NEW i \in DOMAIN lines[s], i \notin lost', on_hand[i] = lines[s][i].system
        PROVE  on_hand'[i] = lines[s][i].actual
    <2>1. PICK t \in confirming : CommitConfirm(t)
      BY <1>1 DEF StNext, vars, stVars, InventoryStep, CreateStocktake, BeginConfirm, ReadLine,
                  FlushLine, AbortConfirm, BeginTransition, CommitTransition
    <2>2. t.st = s
      BY <1>1, <2>1 DEF CommitConfirm, StIInv, StTypeOK
    <2>3. /\ i \in Item /\ lines[s][i].system \in Int /\ lines[s][i].actual \in Nat
          /\ Variance(s, i) = lines[s][i].actual - lines[s][i].system
      BY <1>1, VarianceInt DEF StIInv, StTypeOK
    <2>4. /\ i \notin t.wrote => Variance(s, i) = 0
          /\ on_hand'[i] = IF i \in t.wrote THEN Left(t, i) ELSE on_hand[i]
          /\ i \in t.wrote => t.saw[i].onHand = on_hand[i]
      BY <1>1, <2>1, <2>2, <2>3, Confirmed
    <2> QED BY <1>1, <2>2, <2>3, <2>4 DEF Left
  <1>2. ASSUME StIInv, [StNext]_vars
        PROVE  [\A s \in St : adjusted'[s] # adjusted[s] =>
                   \A i \in DOMAIN lines[s] \ lost' :
                       on_hand[i] = lines[s][i].system => on_hand'[i] = lines[s][i].actual]_vars
    BY <1>1, <1>2
  <1> QED BY <1>2, StInductive, PTL DEF Spec, ConfirmReachesCountUnlessMoved
=============================================================================
