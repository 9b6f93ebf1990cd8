-------------------------------- MODULE Ledger --------------------------------
(***************************************************************************)
(* General ledger, payables and receivables and the reports on them        *)
(* (finance.py, ap_ar.py, statements.py, dashboard.py).                    *)
(*                                                                         *)
(* A journal entry takes the number after those it has counted; the unique *)
(* constraint lets one of two equal numbers in.  An update of a payable    *)
(* writes the columns it has changed and no others.  A balance sheet is    *)
(* one query, the dashboard is several.                                    *)
(***************************************************************************)
EXTENDS Integers, Sequences, FiniteSetsExt

CONSTANTS
    FinReq,                     \* database sessions open at once
    Account, Type(_),           \* GL accounts and their account_type, in lower case
    Voucher, Month(_), Lines(_),\* journal entries that may be sent, with their lines
    Bill, Side(_), Invoiced(_), \* payables and receivables of this month
    Amount                      \* amounts that may be paid

ASSUME MonthAssumption == \A v \in Voucher : Month(v) \in Nat
ASSUME LinesAssumption ==
    \A v \in Voucher :
        /\ IsFiniteSet(Lines(v))
        /\ \A l \in Lines(v) : l.account \in Account /\ l.debit \in Nat /\ l.credit \in Nat
ASSUME BillAssumption ==
    /\ \A b \in Bill : Side(b) \in {"ap", "ar"} /\ Invoiced(b) \in Nat \ {0}
    /\ Amount \subseteq Nat

VARIABLES
    accounts,   \* rows of gl_accounts
    journal,    \* rows of journal_entries with their lines
    bills,      \* rows of ap_records and ar_records
    booking,    \* sessions that insert an entry or update a bill
    report,     \* a dashboard under way: the figures it has read so far
    forced,     \* history: bills whose status was set by hand
    collided    \* history: bills updated by two sessions at the same time

ledgerTables == <<accounts, journal, bills>>
ledgerVars   == <<ledgerTables, booking, report, forced, collided>>

BillStatus == {"unpaid", "partial", "paid", "overdue", "written_off"}

Entry == [voucher : Voucher, no : Nat, posted : BOOLEAN]

BillRow == [paid : Amount, status : BillStatus]

NoBill == [paid |-> -1, status |-> "none"]

\* Queries of the dashboard on the bills, in the order of the code.
DashboardQueries == <<"invoiced", "balance", "received", "paid", "due">>

NoReport == [read |-> 0, figures |-> [i \in DOMAIN DashboardQueries |-> 0], moved |-> FALSE]

LedgerInit ==
    /\ accounts = {}
    /\ journal = {}
    /\ bills = [b \in Bill |-> NoBill]
    /\ booking = {}
    /\ report = NoReport
    /\ forced = {}
    /\ collided = {}

Unbooked(r) == \A s \in booking : s.by # r

\* A dashboard under way notices that the bills have moved.
Moved == report' = [report EXCEPT !.moved = TRUE]

CreateAccount(a) ==
    /\ a \notin accounts
    /\ accounts' = accounts \union {a}
    /\ UNCHANGED <<journal, bills, booking, report, forced, collided>>

-----------------------------------------------------------------------------
(* create_journal_entry and post_journal_entry                               *)

OneSideOnly(l) == (l.debit = 0) # (l.credit = 0)

Debits(ls)  == SumFunction([l \in ls |-> l.debit])
Credits(ls) == SumFunction([l \in ls |-> l.credit])

\* JournalEntryCreate.balanced
Balanced(ls) == Cardinality(ls) >= 2 /\ Debits(ls) = Credits(ls)

EntriesOf(m) == {e \in journal : Month(e.voucher) = m}

\* Mutant: the number of the last entry is taken once more.
MutantNextNo(m) == Cardinality(EntriesOf(m)) + 2

\* _next_entry_no
NextNo(m) == Cardinality(EntriesOf(m)) + 1

BeginEntry(r, v) ==
    /\ Unbooked(r)
    /\ \A e \in journal : e.voucher # v
    /\ \A l \in Lines(v) : OneSideOnly(l) /\ l.account \in accounts
    /\ Balanced(Lines(v))
    /\ booking' = booking \union {[by |-> r, voucher |-> v, no |-> NextNo(Month(v))]}
    /\ UNCHANGED <<ledgerTables, report, forced, collided>>

\* uq_journal_entries_tenant_no
FreeNo(v, n) == \A e \in EntriesOf(Month(v)) : e.no # n

CommitEntry(s) ==
    /\ "voucher" \in DOMAIN s
    /\ FreeNo(s.voucher, s.no)
    /\ \A e \in journal : e.voucher # s.voucher
    /\ journal' = journal \union {[voucher |-> s.voucher, no |-> s.no, posted |-> FALSE]}
    /\ booking' = booking \ {s}
    /\ UNCHANGED <<accounts, bills, report, forced, collided>>

\* Reading and writing are one step: nothing takes an entry back to a draft.
PostEntry(e) ==
    /\ ~e.posted
    /\ journal' = (journal \ {e}) \union {[e EXCEPT !.posted = TRUE]}
    /\ UNCHANGED <<accounts, bills, booking, report, forced, collided>>

-----------------------------------------------------------------------------
(* create_ap_record, update_ap_record and the same for receivables           *)

\* Mutant: a bill that is paid in full is still partly paid.
MutantDerived(b, paid) == IF paid > Invoiced(b) THEN "paid"
                          ELSE IF paid > 0 THEN "partial" ELSE "unpaid"

\* _derive_ap_status, _derive_ar_status
Derived(b, paid) == IF paid >= Invoiced(b) THEN "paid"
                    ELSE IF paid > 0 THEN "partial" ELSE "unpaid"

CreateBill(b, paid) ==
    /\ bills[b] = NoBill
    /\ bills' = [bills EXCEPT ![b] = [paid |-> paid, status |-> Derived(b, paid)]]
    /\ Moved
    /\ UNCHANGED <<accounts, journal, booking, forced, collided>>

\* The columns are set on what was read: a new amount derives the status, a
\* status that is sent with it has the last word.
BeginAmount(r, b, paid) ==
    /\ Unbooked(r)
    /\ bills[b] # NoBill
    /\ booking' = booking \union
           {[by |-> r, bill |-> b, saw |-> bills[b], hand |-> FALSE,
             new |-> [paid |-> paid, status |-> Derived(b, paid)]]}
    /\ UNCHANGED <<ledgerTables, report, forced, collided>>

BeginStatus(r, b, st) ==
    /\ Unbooked(r)
    /\ bills[b] # NoBill
    /\ booking' = booking \union
           {[by |-> r, bill |-> b, saw |-> bills[b], hand |-> TRUE,
             new |-> [bills[b] EXCEPT !.status = st]]}
    /\ UNCHANGED <<ledgerTables, report, forced, collided>>

\* The UPDATE names the columns that differ from what was read.
Updated(s) ==
    [c \in DOMAIN s.new |-> IF s.new[c] # s.saw[c] THEN s.new[c] ELSE bills[s.bill][c]]

CommitBill(s) ==
    /\ "bill" \in DOMAIN s
    /\ bills' = [bills EXCEPT ![s.bill] = Updated(s)]
    /\ forced' = IF s.hand THEN forced \union {s.bill} ELSE forced
    /\ collided' = IF bills[s.bill] = s.saw THEN collided ELSE collided \union {s.bill}
    /\ booking' = booking \ {s}
    /\ Moved
    /\ UNCHANGED <<accounts, journal>>

LedgerRollback(s) ==
    /\ booking' = booking \ {s}
    /\ UNCHANGED <<ledgerTables, report, forced, collided>>

-----------------------------------------------------------------------------
(* statements.py                                                             *)

\* Posted lines on some accounts, with their entries.
PostedOn(months, accts) ==
    UNION {{<<e, l>> : l \in {x \in Lines(e.voucher) : x.account \in accts}} :
           e \in {x \in journal : x.posted /\ Month(x.voucher) \in months}}

DebitsOn(months, accts)  == SumFunction([p \in PostedOn(months, accts) |-> p[2].debit])
CreditsOn(months, accts) == SumFunction([p \in PostedOn(months, accts) |-> p[2].credit])

OfType(t) == {a \in Account : Type(a) = t}

\* The account_type of a request is free: a sheet drops the types it does not know.
AccountTypes == {"asset", "liability", "equity", "revenue", "expense"}
Dropped == {a \in Account : Type(a) \notin AccountTypes}

\* _account_balances, summed up by type
Balance(t, months) ==
    IF t \in {"asset", "expense"} THEN DebitsOn(months, OfType(t)) - CreditsOn(months, OfType(t))
    ELSE CreditsOn(months, OfType(t)) - DebitsOn(months, OfType(t))

IncomeStatement(m) == Balance("revenue", {m}) - Balance("expense", {m})

BalanceSheet(m) ==
    LET upTo     == 0 .. m
        retained == Balance("revenue", upTo) - Balance("expense", upTo)
    IN  [assets |-> Balance("asset", upTo), liabilities |-> Balance("liability", upTo),
         retained |-> retained, equity |-> Balance("equity", upTo) + retained]

BillsOf(side) == {b \in Bill : Side(b) = side /\ bills[b] # NoBill}

\* dashboard.py, _today_revenue and _cash_position: the statuses that count.
OpenStatuses == [ar |-> {"unpaid", "partial"}, ap |-> {"unpaid", "partial", "overdue"}]

Counted(side) == {b \in BillsOf(side) : bills[b].status \in OpenStatuses[side]}

ReceivableBalance == SumFunction([b \in Counted("ar") |-> Invoiced(b) - bills[b].paid])
PayableDue        == SumFunction([b \in Counted("ap") |-> Invoiced(b) - bills[b].paid])

PaidOn(side)      == SumFunction([b \in BillsOf(side) |-> bills[b].paid])
MonthToDate       == SumFunction([b \in BillsOf("ar") |-> Invoiced(b)])

-----------------------------------------------------------------------------
(* get_executive_dashboard, the figures taken from the bills                 *)

DashboardFigure(q) ==
    CASE q = "invoiced" -> MonthToDate
      [] q = "balance"  -> ReceivableBalance
      [] q = "received" -> PaidOn("ar")
      [] q = "paid"     -> PaidOn("ap")
      [] q = "due"      -> PayableDue

StartReport ==
    /\ report' = NoReport
    /\ UNCHANGED <<ledgerTables, booking, forced, collided>>

ReadFigure ==
    LET n == report.read + 1
    IN  /\ n \in DOMAIN DashboardQueries
        /\ report' = [report EXCEPT !.read = n, !.figures[n] = DashboardFigure(DashboardQueries[n])]
        /\ UNCHANGED <<ledgerTables, booking, forced, collided>>

LedgerNext ==
    \/ \E a \in Account : CreateAccount(a)
    \/ \E r \in FinReq, v \in Voucher : BeginEntry(r, v)
    \/ \E s \in booking : CommitEntry(s)
    \/ \E e \in journal : PostEntry(e)
    \/ \E b \in Bill, n \in Amount : CreateBill(b, n)
    \/ \E r \in FinReq, b \in Bill, n \in Amount : BeginAmount(r, b, n)
    \/ \E r \in FinReq, b \in Bill, st \in BillStatus : BeginStatus(r, b, st)
    \/ \E s \in booking : CommitBill(s)
    \/ \E s \in booking : LedgerRollback(s)
    \/ StartReport
    \/ ReadFigure

LedgerSpec == LedgerInit /\ [][LedgerNext]_ledgerVars

-----------------------------------------------------------------------------
\* The rows of the ledger, of payables and of receivables.
LedgerTypeOK ==
    /\ accounts \subseteq Account
    /\ journal \subseteq Entry
    /\ \A b \in Bill : bills[b] \in BillRow \union {NoBill}
    /\ \A s \in booking : s.by \in FinReq
    /\ forced \subseteq Bill
    /\ collided \subseteq Bill

\* The entries of a month are numbered 1, 2, 3, ... without a gap or a number
\* twice, however many sessions count the same entries at once.
NumbersAreDense ==
    \A v \in Voucher :
        {e.no : e \in EntriesOf(Month(v))} = 1 .. Cardinality(EntriesOf(Month(v)))

\* At the end of every month the sheet is off by exactly what has been posted
\* on accounts of a type it does not know, and by nothing else, whatever has
\* been posted in whatever order: it balances if there are none.  What it
\* retains is the sum of the monthly incomes.
StatementsAgree ==
    \A v \in Voucher :
        LET sheet == BalanceSheet(Month(v))
            upTo  == 0 .. Month(v)
        IN  /\ sheet.assets - (sheet.liabilities + sheet.equity)
                  = CreditsOn(upTo, Dropped) - DebitsOn(upTo, Dropped)
            /\ sheet.retained = SumFunction([k \in upTo |-> IncomeStatement(k)])

\* The dashboard counts as payable or receivable exactly the bills with an open
\* amount, except those whose status was set by hand or that two sessions
\* updated at once: these can be "paid" with an amount still open.
CountedIsOwed ==
    \A side \in {"ap", "ar"} : \A b \in BillsOf(side) \ (forced \union collided) :
        b \in Counted(side) <=> bills[b].paid < Invoiced(b)

\* A dashboard over which no bill was committed adds up: what was invoiced this
\* month has been received or is shown as still open.  Nothing is left out by
\* the statuses of its queries, unless one was set by hand or two sessions
\* updated the bill at once.
DashboardAddsUp ==
    /\ report.read = Len(DashboardQueries)
    /\ ~report.moved
    /\ BillsOf("ar") \intersect (forced \union collided) = {}
    => report.figures[1] <= report.figures[2] + report.figures[3]

\* The statements agree with each other, and the figures with the bills.
BillsAndBooksAgree ==
    /\ LedgerTypeOK
    /\ StatementsAgree
    /\ CountedIsOwed
    /\ DashboardAddsUp
=============================================================================
