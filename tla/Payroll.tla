------------------------------- MODULE Payroll -------------------------------
(***************************************************************************)
(* Employees, attendance and the monthly payroll (hr.py, attendance.py).   *)
(*                                                                         *)
(* run_payroll looks whether the period has been paid, lists the active    *)
(* employees and asks for the attendance of each with a query of its own;  *)
(* the unique constraints on periods and on days decide between overlaps.  *)
(* An import skips the rows it knows and inserts the rest as one.          *)
(*                                                                         *)
(* Amounts are integers in a unit of which Scale make one yuan (10000 in   *)
(* the code, which rounds to four decimals); hours are whole.              *)
(***************************************************************************)
EXTENDS Integers, FiniteSetsExt

CONSTANTS
    HrReq,              \* database sessions open at once
    Employee,           \* employee numbers in use
    Salary,             \* values of base_salary
    Day, Period(_),     \* working days and the months they belong to
    Batch, Rows(_),     \* import files, sets of <<employee, day, status>>
    Overtime(_),        \* overtime_hours of the record of a day
    Scale

ASSUME ScaleAssumption == Scale \in Nat \ {0}
ASSUME SalaryAssumption == Salary \subseteq Nat
ASSUME OvertimeAssumption == \A d \in Day : Overtime(d) \in Nat

\* An early leave or a holiday is counted like a leave: not at all.
AttendanceStatus == {"normal", "late", "absent", "leave"}

ASSUME EmployeeAssumption == IsFiniteSet(Employee)
ASSUME RowsAssumption ==
    \A b \in Batch : IsFiniteSet(Rows(b)) /\ \A x \in Rows(b) : x[2] \in Day /\ x[3] \in AttendanceStatus

VARIABLES
    staff,      \* rows of employees: active and base_salary by number
    attendance, \* rows of attendances: status by employee and day
    imported,   \* import files that were taken in, with the employees then known
    payrolls,   \* rows of payrolls with their items
    paying,     \* sessions at work
    outdated    \* history: periods whose records changed after they were read

hrTables == <<staff, attendance, imported, payrolls>>
hrVars   == <<hrTables, paying, outdated>>

WorkMonth == {Period(d) : d \in Day}

HrInit ==
    /\ staff = <<>>
    /\ attendance = <<>>
    /\ imported = {}
    /\ payrolls = {}
    /\ paying = {}
    /\ outdated = {}

Unpaid(r) == \A s \in paying : s.by # r

Known  == DOMAIN staff
Active == {e \in Known : staff[e].active}

\* A change of the records outdates every payroll made or being made from them.
Paid == {p.period : p \in payrolls} \union {s.period : s \in {t \in paying : t.kind = "payroll"}}

Put(f, k, v) == [x \in DOMAIN f \union {k} |-> IF x = k THEN v ELSE f[x]]

CreateEmployee(e, salary) ==
    /\ e \notin Known
    /\ staff' = Put(staff, e, [active |-> TRUE, salary |-> salary])
    /\ outdated' = outdated \union Paid
    /\ UNCHANGED <<attendance, imported, payrolls, paying>>

UpdateEmployee(e, active, salary) ==
    /\ e \in Known
    /\ staff' = Put(staff, e, [active |-> active, salary |-> salary])
    /\ outdated' = outdated \union Paid
    /\ UNCHANGED <<attendance, imported, payrolls, paying>>

\* uq_attendances_tenant_emp_date
CreateAttendance(e, d, st) ==
    /\ e \in Known
    /\ <<e, d>> \notin DOMAIN attendance
    /\ attendance' = Put(attendance, <<e, d>>, st)
    /\ outdated' = outdated \union ({Period(d)} \intersect Paid)
    /\ UNCHANGED <<staff, imported, payrolls, paying>>

-----------------------------------------------------------------------------
(* import_attendance_batch                                                   *)

\* Rows of known employees for days that have no record yet.
FreshRows(b) == {x \in Rows(b) : x[1] \in Known /\ <<x[1], x[2]>> \notin DOMAIN attendance}

BeginImport(r, b) ==
    /\ Unpaid(r)
    /\ paying' = paying \union
           {[by |-> r, kind |-> "import", batch |-> b, known |-> Known, rows |-> FreshRows(b)]}
    /\ UNCHANGED <<hrTables, outdated>>

\* One row that has been recorded since makes the whole import fail.
CommitImport(s) ==
    LET keys == {<<x[1], x[2]>> : x \in s.rows}
    IN  /\ s.kind = "import"
        /\ keys \intersect DOMAIN attendance = {}
        /\ attendance' = [k \in DOMAIN attendance \union keys |->
               IF k \in keys THEN (CHOOSE x \in s.rows : <<x[1], x[2]>> = k)[3]
               ELSE attendance[k]]
        /\ imported' = imported \union {<<s.batch, s.known>>}
        /\ outdated' = outdated \union ({Period(k[2]) : k \in keys} \intersect Paid)
        /\ paying' = paying \ {s}
        /\ UNCHANGED <<staff, payrolls>>

-----------------------------------------------------------------------------
(* The wage of an employee, as run_payroll computes it.                      *)

Yuan(n) == n * Scale

\* Decimal.quantize of n / d: half to even.
Rounded(n, d) ==
    LET q == n \div d
        r == n % d
    IN  IF 2 * r > d \/ (2 * r = d /\ q % 2 = 1) THEN q + 1 ELSE q

Clamp(x, lo, hi) == IF x < lo THEN lo ELSE IF x > hi THEN hi ELSE x

\* Old-age, medical, unemployment insurance and housing fund of the employee.
Contributions(salary) ==
    LET social  == Clamp(salary, Yuan(4900), Yuan(26533))
        housing == Clamp(salary, Yuan(2100), Yuan(26533))
    IN  Rounded(social * 80, 1000) + Rounded(social * 20, 1000)
            + Rounded(social * 3, 1000) + Rounded(housing * 80, 1000)

\* TAX_BRACKETS: a hundred times the tax on t, rate and quick deduction of the
\* first bracket that holds t.  Above the last one there is none.
Bracket(t) ==
    IF t <= 0 THEN 0
    ELSE IF t <= Yuan(3000)    THEN t * 3
    ELSE IF t <= Yuan(12000)   THEN t * 10 - Yuan(210) * 100
    ELSE IF t <= Yuan(25000)   THEN t * 20 - Yuan(1410) * 100
    ELSE IF t <= Yuan(35000)   THEN t * 25 - Yuan(2660) * 100
    ELSE IF t <= Yuan(55000)   THEN t * 30 - Yuan(4410) * 100
    ELSE IF t <= Yuan(80000)   THEN t * 35 - Yuan(7160) * 100
    ELSE IF t <= Yuan(9999999) THEN t * 45 - Yuan(15160) * 100
    ELSE 0

Taxable(salary, gross) == gross - Contributions(salary) - Yuan(5000)

\* A day has 8 hours, a month 21.75 days, an hour of overtime counts 1.5.
Gross(salary, overtime, absent) ==
    salary + Rounded(salary * 3 * overtime, 348) - Rounded(salary * absent * 100, 2175)

WageOf(e, salary, overtime, absent) ==
    LET gross == Gross(salary, overtime, absent)
        tax   == Rounded(Bracket(Taxable(salary, gross)), 100)
    IN  [employee |-> e, gross |-> gross, taxable |-> Max({0, Taxable(salary, gross)}),
         tax |-> tax,
         net |-> gross - Contributions(salary) - tax]

-----------------------------------------------------------------------------
(* run_payroll                                                               *)

RecordsOf(e, m) == {k \in DOMAIN attendance : k[1] = e /\ Period(k[2]) = m}

\* Mutant: the records of all months are added up.
MutantSummary(e, m) ==
    LET rs == {k \in DOMAIN attendance : k[1] = e}
    IN  [overtime |-> SumFunction([k \in {j \in rs : attendance[j] \in {"normal", "late"}} |->
                                      Overtime(k[2])]),
         absent   |-> Cardinality({k \in rs : attendance[k] = "absent"})]

\* get_monthly_attendance_summary
Summary(e, m) ==
    LET rs == RecordsOf(e, m)
    IN  [overtime |-> SumFunction([k \in {j \in rs : attendance[j] \in {"normal", "late"}} |->
                                      Overtime(k[2])]),
         absent   |-> Cardinality({k \in rs : attendance[k] = "absent"})]

Wage(e, salary, m) == WageOf(e, salary, Summary(e, m).overtime, Summary(e, m).absent)

BeginPayroll(r, m) ==
    /\ Unpaid(r)
    /\ \A p \in payrolls : p.period # m
    /\ Active # {}
    /\ paying' = paying \union
           {[by |-> r, kind |-> "payroll", period |-> m, items |-> {},
             left |-> {<<e, staff[e].salary>> : e \in Active}]}
    /\ UNCHANGED <<hrTables, outdated>>

\* The wages are made one after the other, in the order of the list.
PayNext(s) ==
    /\ s.kind = "payroll"
    /\ \E x \in s.left :
           paying' = (paying \ {s}) \union
               {[s EXCEPT !.left = @ \ {x}, !.items = @ \union {Wage(x[1], x[2], s.period)}]}
    /\ UNCHANGED <<hrTables, outdated>>

\* uq_payrolls_tenant_period
CommitPayroll(s) ==
    /\ s.kind = "payroll"
    /\ s.left = {}
    /\ \A p \in payrolls : p.period # s.period
    /\ payrolls' = payrolls \union
           {[period |-> s.period, items |-> s.items, heads |-> Cardinality(s.items),
             total |-> SumFunction([w \in s.items |-> w.net])]}
    /\ paying' = paying \ {s}
    /\ UNCHANGED <<staff, attendance, imported, outdated>>

HrRollback(s) ==
    /\ paying' = paying \ {s}
    /\ UNCHANGED <<hrTables, outdated>>

HrNext ==
    \/ \E e \in Employee, n \in Salary : CreateEmployee(e, n)
    \/ \E e \in Employee, a \in BOOLEAN, n \in Salary : UpdateEmployee(e, a, n)
    \/ \E e \in Employee, d \in Day, st \in AttendanceStatus : CreateAttendance(e, d, st)
    \/ \E r \in HrReq, b \in Batch : BeginImport(r, b)
    \/ \E s \in paying : CommitImport(s)
    \/ \E r \in HrReq, m \in WorkMonth : BeginPayroll(r, m)
    \/ \E s \in paying : PayNext(s)
    \/ \E s \in paying : CommitPayroll(s)
    \/ \E s \in paying : HrRollback(s)

HrSpec == HrInit /\ [][HrNext]_hrVars

-----------------------------------------------------------------------------
\* The rows of employees, attendance and payrolls.
HrTypeOK ==
    /\ Known \subseteq Employee
    /\ \A e \in Known : staff[e] \in [active : BOOLEAN, salary : Salary]
    /\ DOMAIN attendance \subseteq Known \X Day
    /\ \A k \in DOMAIN attendance : attendance[k] \in AttendanceStatus
    /\ \A p \in payrolls : p.period \in WorkMonth /\ p.heads \in 1 .. Cardinality(Employee)
    /\ outdated \subseteq WorkMonth

\* A month is paid once, and every active employee gets what the records of the
\* month say, unless these were changed while they were read or afterwards.
PaidFromRecords ==
    /\ \A p, q \in payrolls : p.period = q.period => p = q
    /\ \A p \in payrolls : p.period \notin outdated =>
           p.items = {Wage(e, staff[e].salary, p.period) : e \in Active}

\* The rows of an import that was accepted are all recorded, those of employees
\* that were known when it began: overlapping imports lose none of them.
ImportIsWhole ==
    \A i \in imported : \A x \in Rows(i[1]) :
        x[1] \in i[2] => <<x[1], x[2]>> \in DOMAIN attendance

\* Reference: each slice of the taxable wage pays the rate of its own bracket.
Slice(t, lo, hi) == IF t <= lo THEN 0 ELSE IF t <= hi THEN t - lo ELSE hi - lo

Progressive(t) ==
    3 * Slice(t, 0, Yuan(3000)) + 10 * Slice(t, Yuan(3000), Yuan(12000))
        + 20 * Slice(t, Yuan(12000), Yuan(25000)) + 25 * Slice(t, Yuan(25000), Yuan(35000))
        + 30 * Slice(t, Yuan(35000), Yuan(55000)) + 35 * Slice(t, Yuan(55000), Yuan(80000))
        + 45 * Slice(t, Yuan(80000), Yuan(9999999))

\* The quick deductions add up: no wage up to the last bracket is taxed with
\* more or less than its slices, so that earning more never pays less.
TaxIsProgressive ==
    \A p \in payrolls : \A w \in p.items :
        w.taxable <= Yuan(9999999) => w.tax = Rounded(Progressive(w.taxable), 100)

\* Everybody is paid, and taxed, once and from complete records.
PayrollIsSound ==
    /\ HrTypeOK
    /\ PaidFromRecords
    /\ ImportIsWhole
    /\ TaxIsProgressive
=============================================================================
