----------------------------- MODULE MCManagement -----------------------------
(* The management side in one run: approvals, ledger, payroll, KPI rollups   *)
(* and permissions.  They share no row, so that their interleavings add      *)
(* nothing: `part` says which of them moves in a behaviour, and for the      *)
(* ledger, the payroll and the rollups also which of their features, so that *)
(* each is checked with the instance it needs.                               *)
EXTENDS Approval, Ledger, Payroll, KpiRollup, Policy, TLC

CONSTANTS u1, u2, cash1, debt1, sale1, cost1, odd1, v1, v2, v3, v4, ap1, ar1,
          e1, e2, d1, d2, d3, b1, b2, ta, tb

VARIABLE part

\* Step numbers as intended, with one approver for two steps, and with a gap.
MCConfig == {1 :> u1, 1 :> u1 @@ 2 :> u2, 1 :> u1 @@ 2 :> u1 @@ 3 :> u2,
             1 :> u1 @@ 3 :> u2}

MCType(a)  == CASE a = cash1 -> "asset" [] a = debt1 -> "liability"
                [] a = sale1 -> "revenue" [] a = cost1 -> "expense"
                [] a = odd1  -> "other"
MCMonth(v) == IF v = v3 THEN 2 ELSE 1
Two(d, c, n) == {[account |-> d, debit |-> n, credit |-> 0],
                 [account |-> c, debit |-> 0, credit |-> n]}
\* v2 does not balance.
MCLines(v) ==
    CASE v = v1 -> Two(cash1, sale1, 3)
      [] v = v2 -> {[account |-> cost1, debit |-> 1, credit |-> 0],
                    [account |-> cash1, debit |-> 0, credit |-> 2]}
      [] v = v3 -> Two(cost1, debt1, 2)
      [] v = v4 -> Two(odd1, cash1, 1)
MCSide(b)     == IF b = ap1 THEN "ap" ELSE "ar"
MCInvoiced(b) == 2

MCPeriod(d)   == IF d = d3 THEN 2 ELSE 1
\* Two employees on one day, and one of them on two days.
MCRows(b)     == IF b = b1 THEN {<<e1, d1, "normal">>, <<e2, d1, "normal">>}
                 ELSE {<<e1, d1, "normal">>, <<e1, d2, "normal">>}
MCOvertime(d) == IF d = d2 THEN 0 ELSE 2

MCTask == [finance |-> <<"FIN-001", "FIN-004">>,
           all     |-> <<"FIN-001", "FIN-004", "HR-001">>]

\* Two rows that remove_policy cannot tell apart.
MCRule == {[ptype |-> "p", v |-> <<"u", "t", "o", "a", "", "">>],
           [ptype |-> "p", v |-> <<"u", "t", "o", "a", "x", "">>]}

LedgerParts  == {"book", "bill", "report"}
PayrollParts == {"import", "pay"}
RollupParts  == {"rollup", "seed"}

MCInit ==
    /\ Init
    /\ LedgerInit
    /\ HrInit
    /\ KpiInit
    /\ PolicyInit
    /\ part \in {"approvals", "policy"} \union LedgerParts \union PayrollParts \union RollupParts
    /\ part # "policy" => rules = {}

\* What each part leaves alone; the bounds of the instance.
LedgerBound ==
    CASE part = "book"   -> bills' = bills /\ report' = NoReport
      [] part = "bill"   -> /\ accounts' = {} /\ bills'[ar1] = NoBill /\ report'.read = 0
                            /\ \A s \in booking' : s.new.status # "written_off"
      [] part = "report" -> /\ accounts' = {}
                            /\ bills'[ap1] = NoBill
                            /\ Cardinality(booking') <= 1
                            /\ \A s \in booking' : s.new.status # "written_off"

PayrollBound ==
    CASE part = "import" -> /\ \A s \in paying' : s.kind = "import"
                            /\ \A e \in DOMAIN staff' :
                                   staff'[e] = [active |-> TRUE, salary |-> 4000]
                            /\ \A k \in DOMAIN attendance' :
                                   attendance'[k] = "normal" /\ k[2] \in {d1, d2}
      [] part = "pay"    -> /\ \A s \in paying' : s.kind = "payroll" /\ s.period = 1
                            /\ \A k \in DOMAIN attendance' :
                                   /\ k[1] = e1 /\ k[2] \in {d1, d3}
                                   /\ attendance'[k] \in {"absent", "late"}
                            /\ e2 \in DOMAIN staff' => staff'[e2].salary = 4000

RollupBound ==
    CASE part = "rollup" -> /\ seeding' = {} /\ defined' = defined
                            /\ source'[tb] = 0 /\ pass'.task # "all"
                            /\ Cardinality(rolling') <= 2
                            /\ \A s \in rolling' : s.by # "worker" => s.tenant = ta
      [] part = "seed"   -> rolling' = {} /\ source' = source /\ Cardinality(seeding') <= 2

MCNext ==
    /\ UNCHANGED part
    /\ \/ part = "approvals" /\ Next /\ UNCHANGED <<ledgerVars, hrVars, kpiVars, policyVars>>
       \/ /\ part \in LedgerParts /\ LedgerNext /\ LedgerBound
          /\ UNCHANGED <<vars, hrVars, kpiVars, policyVars>>
       \/ /\ part \in PayrollParts /\ HrNext /\ PayrollBound
          /\ UNCHANGED <<vars, ledgerVars, kpiVars, policyVars>>
       \/ /\ part \in RollupParts /\ KpiNext /\ RollupBound
          /\ UNCHANGED <<vars, ledgerVars, hrVars, policyVars>>
       \/ /\ part = "policy" /\ PolicyNext /\ Cardinality(changing') + Cardinality(loading') <= 2
          /\ UNCHANGED <<vars, ledgerVars, hrVars, kpiVars>>

MCSpec == MCInit /\ [][MCNext]_<<vars, ledgerVars, hrVars, kpiVars, policyVars, part>>

\* The other parts use two of the requests of the approvals.
MCSymmetry == Permutations(FinReq)
=============================================================================
