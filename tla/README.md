# Verification of the 分路链式 (fenlu) ERP V5.0

This directory holds TLA+ models of the ERP: the components in which several
HTTP requests, database sessions, event publishers and workers use the same
rows, streams and memories, and the computations that are easy to get wrong
(schedules, cost rollups, taxes, statements). TLC checks them on small
instances, TLAPS proves the statements that matter most for every value of the
constants. `PROJECT.json` lists the runs, the source lines behind every
definition, the hazards and the theorems.

    tlc -workers 2 -config MCStocktake.cfg MCStocktake     # one run
    tlapm InventoryProofs.tla                              # the proofs of one module

## 1. The system

A FastAPI application (`src/packages`, `src/apps/api_gateway`) over Postgres,
Redis and an object store, divided into four lanes that own a database schema
each (SCM supply chain, MFG production, PLM product lifecycle, MGMT management),
plus a gateway and a shared package.

| Component | State | Operations | Interacts with | Correct when |
|---|---|---|---|---|
| Inventory (SCM) | `inventory` rows (on_hand, reserved), `stock_moves` | create_move, receive, issue, reserve, unreserve | stocktakes call create_move | stock is never negative and is what the moves say; reservations are covered |
| Stocktakes (SCM) | `stocktakes`, their lines | create, confirm, transition | inventory rows | a confirmation adjusts all lines or none, once, to the count |
| Purchase chain (SCM) | requests, RFQs, orders with lines, receipts | create and transition each; confirming a receipt updates its order | publishes `po.approved` | received is what receipts delivered; an order closes exactly when complete |
| Suppliers (SCM) | suppliers, tier changes, ratings | create, request a change, callback, rate | asks MGMT for an approval over HTTP | tier and score are those last decided |
| Warehouses, migration (SCM) | warehouses, tree of locations; rows taken over from V4 | create; load, flush, commit, reconcile | the migration writes the tables of the lane | the tree shows all locations; a migration that passes has taken over every row of the tables it loads |
| Event bus and consumer (shared, MGMT) | Redis streams and their consumer group, KPI data points, AP/AR records | publish, consume loop, dispatch to handlers | all lanes publish, MGMT consumes | an entry takes effect at most once, and only failures swallow it |
| Approval (MGMT) | definitions, instances, steps | submit, approve, reject, withdraw | none | no step is skipped, the verdict is that of the steps and final |
| Ledger, AP / AR, statements (MGMT) | accounts, entries, bills; reports | create, post, update amounts; balance sheet, income, cash flow, dashboard | bills created by event handlers and the gateway | numbers without gaps, books that balance, figures that agree |
| Payroll and attendance (MGMT) | employees, attendance, payrolls | create, update, import, run | none | a month is paid once, from its records, with the right tax |
| KPI rollups and worker (MGMT) | definitions, data points | seed, scheduled passes, trigger by hand | same data points as the consumer | a rollup writes all its figures, one tenant's failure costs no other |
| Permission rules (MGMT) | `casbin_rules`, the enforcer of each process | add, reload, check; `remove_policy`, which no route calls, and a watcher nothing starts | the approval endpoints of MGMT only; `require_permission` of `shared/auth/deps.py:53-66` is a stub that lets everybody pass | from its first good reload on a process decides by the rules, unless something went past it |
| Users, organizations, audit log (gateway, shared) | users, roles, organizations, audit rows | login, create, update, audit middleware | all routes | roles are those last given, the log is true to what was answered |
| Sales orders (gateway) | sales order row, AR record | create, confirm, payment, ship | creates the AR record of MGMT | completed only when shipped and paid, money counted once |
| Quotes and PLM orders | quotes with lines, orders | create, add items, transition; the step to *ordered* makes an order | publishes `sales_order.confirmed` | one order as quoted, announced |
| Customers, CRM, tickets (PLM) | customers, leads, opportunities, tickets | create, transitions, close with a score; 360 degree view, funnel | none | tables and deadlines are kept, a view lists the newest of what it counts |
| Products, versions, ECN, BOM, routing, CAD (PLM) | their rows, files in the object store | create, add components, new version, transition, upload, cost rollup | BOM read by MFG and SCM | no cycle, one current version, a notice makes a version, files exist |
| Work orders and job tickets (MFG) | work orders, tickets | create, report, transition | PLM BOM service; publishes `work_order.completed` | completed is the sum of the reports, reaching the plan is announced |
| Safety (MFG) | hazards, audit log | report, transition, read the log | publishes `hazard.reported` | the log tells how a hazard came to its status |
| Equipment (MFG) | machines, faults, plans, maintenance logs | create, report a fault, scan for due plans, availability of a day | publishes `equipment.fault` | jobs are an interval apart, downtime is the time down, a fault has its alarm |
| Scheduling (MFG) | none (a pure computation over orders and workstations) | run | reads work orders | orders are put by due date; while estimates are not negative the schedule is the greedy one and overbooks nothing |

**How requests run.** Every request gets a database session of its own
(`packages/shared/db/base.py:64-74`): the handler runs, then the session is
committed, or rolled back when anything raised. Isolation is READ COMMITTED.
There is no `SELECT FOR UPDATE` and no version column anywhere. A handler
SELECTs a row, decides and computes in Python, and flushes an UPDATE that sets
the *columns it changed* to *absolute values*; from that flush to the commit
the row is locked. So the guard of a handler speaks about the past, two
overlapping handlers can lose an update or leave a row whose columns come from
both, and a session that fails leaves nothing in the database but keeps what it
has already sent to Redis.

**What is hard.** (1) Overlapping sessions: stale guards, lost updates, mixed
columns. (2) Two resources without a common transaction: the stream, the memory
of a process or the object store and the database, or two commits of one
handler. (3) The consumer: failures of the
database, of Redis and of the process, several workers in one group. (4) State
machines with a second way in: a receipt that closes an order, a plain
transition endpoint next to a confirm endpoint. (5) Boundaries: step numbers,
quantities that just reach the plan, overpayment. The 40 places where these
bite are listed with their lines under `hazards` in `PROJECT.json`.

## 2. The modules

| Module | Models | Composition |
|---|---|---|
| `Inventory` | `inventory_service.py` | |
| `Stocktake` | `stocktake_service.py` | EXTENDS Inventory: requests on stock run next to stocktakes |
| `Purchase` | `purchase_service.py`, `VALID_TRANSITIONS` | in `MCSupply`; alone in `MCPurchase` |
| `Suppliers` | `supplier_service.py` | in `MCSupply` |
| `Warehouses` | `warehouse_service.py` | in `MCSupply` |
| `Migration` | `migration/*.py` | EXTENDS Warehouses, into which it loads; in `MCSupply` |
| `EventDelivery` | abstract: what the consumer promises | |
| `EventConsumer` | `event_consumer.py`, the publishers | refines EventDelivery |
| `Approval` | `approval.py` | in `MCManagement` |
| `Ledger` | `finance.py`, `ap_ar.py`, `statements.py`, `dashboard.py` | in `MCManagement` |
| `Payroll` | `hr.py`, `attendance.py` | in `MCManagement` |
| `KpiRollup` | `kpi.py`, `rollups.py`, `worker.py` | in `MCManagement` |
| `Policy` | `management_decision/services/enforcer.py` | in `MCManagement` |
| `SalesOrder` | `routers/sales.py` | in `MCCustomers` |
| `Quotes` | `order_service.py`, `models/quote.py` | in `MCCustomers` |
| `CustomerCare` | `customer_service.py`, `crm_service.py`, `ticket_service.py` | in `MCCustomers` |
| `Access` | `routers/auth.py`, `routers/orgs.py`, `audit_middleware.py` | in `MCCustomers` |
| `WorkOrder` | `work_orders.py`, `job_tickets.py` | in `MCFactory` |
| `ProductStructure` | product, BOM, routing, ECN and CAD services | in `MCFactory` |
| `Safety` | `api/safety.py` | in `MCFactory` |
| `Equipment` | `api/equipment.py`, `maintenance.py`, `oee.py` | in `MCFactory` |
| `Scheduling` | `services/aps.py`, `api/aps.py` | in `MCFactory` |
| `InventoryProofs` | theorems about Inventory and Stocktake | EXTENDS them |
| `SupplyProofs` | theorems about Purchase, Suppliers, Warehouses and Migration | EXTENDS them and SumTheorems |
| `EventConsumerProofs` | theorems about EventConsumer, the refinement among them | EXTENDS it |
| `ManagementProofs` | theorems about Approval, Ledger, Payroll and KpiRollup | EXTENDS them and SumTheorems |
| `CustomerProofs` | theorems about SalesOrder, Quotes and CustomerCare | EXTENDS them |
| `AccessProofs` | theorems about Access and Policy | EXTENDS them |
| `FactoryProofs` | theorems about WorkOrder, ProductStructure, Safety, Equipment and Scheduling | EXTENDS them and SumTheorems |
| `SumTheorems` | sums over finite sets of any size, functions defined by recursion over the naturals | used by the proofs |
| `MC...` | instances for TLC | |

**Composed instances.** `MCCustomers`, `MCSupply`, `MCManagement` and `MCFactory`
each hold several components of one side of the business. Components that share
rows are composed in earnest: stocktakes with stock, the migration with the
warehouses. The others share no row, no stream and no memory, and nothing any
of them reads is written by another, so that a state of the product is a pair
of independent states and an interleaving of the two shows nothing the two do
not show alone. (The consumer and the rollups write different KPI codes; the one
figure a rollup takes from a point of the consumer, SAF-002 from SAF-001, makes
that point one more source table in `KpiRollup`.) The variable `part`, chosen
once at the start, says which of them moves; where a component has features that need different instances
(`Ledger`, `Payroll`, `KpiRollup`, `CustomerCare`, `ProductStructure`,
`Equipment`) there is a part for each and a `...Bound` definition says what the
part leaves out. In PLM, MFG and MGMT the names of a module carry its component
(`QuoteNext`, `LedgerTypeOK`) so that a composed module can extend them all.

Common form. A request is `Begin...` (its SELECT and its guards), further reads
where the handler reads again after an await, and `Commit...`, which writes what
was computed from those readings; `Rollback...` ends it at any point instead. A
session record (`open`, `confirming`, `moving`, `receiving`, `acting`,
`reporting`, `quoting`, `editing`, `booking`, `paying`, ...) holds what the
handler has in local variables. A refused guard raises and changes nothing, so
it is a step that is not taken. Creating a document is one step, because nobody
can see it before its commit. A session holds row locks in the model where it is
between flush and commit for longer than a moment: while it goes on to other
rows (Stocktake), publishes (Purchase) or reads again (WorkOrder).

History variables (`lost`, `uncovered`, `restated`, `stale`, `misjudged`,
`doubled`, `failed`, `attempted`, `payments`, `approvals`, `booked`, `adjusted`,
`skewed`, `repeated`, `crossed`, `overtaken`, `passed`, `forced`, `collided`,
`outdated`, `astray`, `crossing`, `outrun`, `revoked`, `promised`, `wanted`,
`mixed`, ...) are not read by any action. They say *when* a reading was
outdated, so that a property can state exactly which rule holds in spite of
every interleaving, and which one needs sessions not to overlap on the row: the
unconditional form of such a rule is false in this code, and the condition is
as narrow as we could make it.

**Inventory.** `on_hand`, `reserved`, `present` are the columns and the
existence of an `inventory` row; `booked` is the signed sum of the `stock_moves`
of the item. `BeginMove` is `create_move` with the "Insufficient stock" check of
`_apply_move`; a transfer leaves its source and arrives nowhere, as in the code.
`CommitMove` fails on the unique constraint when another session has inserted
the row meanwhile. `reserve` looks at `available`, a move at `on_hand` only.

**Stocktake.** `lines[s][i]` is the system quantity and the count of an item;
the variance is stored at creation. `ReadLine`/`FlushLine` are one iteration of
the loop in `confirm_stocktake`: SELECT the row, flush the adjustment, keep the
lock. Iterations come in any order of the items. Several lines for one item are
one line here. `BeginTransition` is the plain endpoint, which also accepts
*confirmed*.

**Purchase.** One `status` for the documents of all four kinds, validated
against the table of its kind. `PublishApproved` is the flush and the XADD of
`po.approved`, before `CommitTransition`. Confirming a receipt makes three
SELECTs (`BeginReceive`, `ReadOrder`, `ReadLines`); `ReadLines` keeps one line
per product, as the dictionary `po_line_map` does. Requests
have the state machine of orders and RFQs a chain of their own; both go through
the same two actions and touch nothing else, so the instance has neither.

**EventConsumer.** `log` is the stream, `delivered` and `pending` the consumer
group, `phase`, `held`, `saw` the worker's loop. `Read` may lose the answer
after Redis has recorded the delivery, `Ack` the answer to XACK. `Dispatch`
raises for entries the handler cannot read; the registry swallows the
exception, and the loop acknowledges also after a failed commit. `kpi` and
`rows` are `kpi_data_points`. An entry's event type stands for its KPI code and
its content is its form: *documented* (as the tests write it), *string* (as the
SCM publisher writes it), *flat* (as the PLM and MFG publishers write it).

**EventDelivery.** Entries are appended, each is settled at most once, by being
applied or by being dropped. It promises no more, because the code does not.
The mapping is `appended <- Len(log)`, `settled <- Settled` (handed out and in
nobody's hands any more), `applied`.

**Approval.** `config` is the set of steps with their approvers; step numbers
are any positive integers, as the schema lets them through. `Begin` reads the
instance and checks status and actor, `ReadSteps` is the `selectinload`, and
`Commit` writes the columns that changed.

**WorkOrder.** `report` is `BeginReport` (ticket), `ReadOrder`, `Flush` (which
locks both rows and refreshes), `Publish` if the plan is reached, and
`CommitReport`. The status chain is moved by hand.

**SalesOrder.** `row` is the sales order. Each handler plans a whole row from
the one it read; `Written` is the UPDATE of the columns that differ.
`CreateReceivable` is the second commit of `create_order`, whose failure is
swallowed.

**Quotes.** An amount is the set of the items it adds up, so that a property can
say *what* is missing from it. `BeginAddItem` inserts and sums what is visible;
the step to *ordered* is `BeginQuoteTransition`, `ReadItems`, `PublishConfirmed`
and `CommitOrder`: total and items are two SELECTs, and the event precedes the
commit.

**CustomerCare.** One `stage` for leads, opportunities and tickets, looked up in
the table of the kind; sales orders are documents too, which the view counts and
lists and no transition of the desk moves. A ticket also closes through
`BeginClose`, with a score. `opened` is `created_at`, the start of the transaction,
so that a document may appear with a moment that has passed. `CountActivities`
and `CountLeads` are the first queries of the two views, `ListActivities` the
next, with other sessions between them; the 360 degree view lists the newest
ten only, here `ListLimit`, and those of one moment in any order (`Newest`).

**Access.** A request begins by reading its user; user updates delete the roles
read and insert those given and commit in the handler; other handlers answer
first and commit when the dependency closes. A request that was answered, with
success or by an HTTPException (`Refuse`), comes back to the audit middleware,
which writes its row in a session of its own (`WriteAudit`, `SwallowAudit`) before
or after the commit. Any other exception (`Raise`: an IntegrityError, a lost
connection, also an update whose roles cannot be read again after its commit)
passes through `call_next`, and the lines of the middleware behind it are never
reached: there is no row at all.

**Suppliers.** Any number of tier changes may be pending; a callback writes the
columns that differ from the rows it has loaded. A client chooses the tier a
supplier begins with, any one, and the history of changes begins there.

**Warehouses, Migration.** Locations are checked against their parent when
created through the API. The migration goes through the seven tables `run()`
loads, and only those, one by one (`LoadRow`, `Flush`, `CommitMigration`,
`Reconcile`). A row that raises is skipped (`good` is false), but its new key may
have been drawn already (`Drawn`). The flush at the end of a table is where the
database checks keys (`KeysHold`), columns (`ColumnsHold`, by `fits`: NOT NULL and
CHECK) and unique codes (`CodesAreUnique`); nothing catches what it raises, nor
what the grouping of lines raises before the first order and the first stocktake
(`LinesGrouped`: `_int` of an id that is not a number, outside of the `try`), and the
whole load fails (`FlushFails`). `prior` says in which tables another tenant already
has rows, because the reconciliation counts them too. Locations are
created once a migration is over (`UseWarehouses`), or without any migration
(the part *warehouses* of `MCSupply`). `PlacedInV4` says of a
source that its locations hang where their level belongs.

**Ledger.** `NextNo` counts the entries of the month; the unique constraint lets
one of two equal numbers in. `Derived` is the status an update gives a bill; an
update writes the columns that differ from what it read (`Updated`).
Statements are functions of the journal. An account's type is free text in the
schema and in the table, and a sheet knows five (`AccountTypes`): what is posted
on accounts of another type (`Dropped`) is in no total. The dashboard is read
figure by figure (`StartReport`, `ReadFigure`).

**Payroll.** `BeginPayroll` looks for a payroll of the period and lists the
employees, `PayNext` queries one employee's attendance, `CommitPayroll` meets the
unique constraint. `Wage` is the computation in the code's order with its
rounding, in integers of which `Scale` make one yuan.

**KpiRollup.** `pass` is the run of a worker over its list of tenants, `rolling`
the sessions of rollups, by the worker or by hand. What a figure is computed
from is abstracted to the *state* of its source tables (`source`), so a data
point says as of when it is.

**Policy.** A rule is a row with its columns `v0` to `v5`; the enforcer holds a line,
the columns that are not empty, of policies and groupings. `memory[p]` is the
enforcer of process `p`, empty when the process starts (`StartProcess`) whatever
the table holds. A change is flushed, made in memory and announced before its
commit. A removal names a row by its first four columns (`Named`), so it can hit
rows that differ in the others. A reload empties the memory first
(`StartReload`), then reads (`ReadRules`) and fills (`FillMemory`); it can fail on
the way (`FailReload`), and what was in memory stays lost. `Watching` is a constant
because nothing in the program starts the watcher: the
instance has one process that watches and one that does not.

**ProductStructure.** `parts` are the rows of `bom_items`, numbered within their bill
because a bill may have several lines of one component, each with a quantity
and a price of its own or without a price (`Unknown`). The cycle
check (`Below`) searches the bills of all versions of everything below the component.
A version is made in the statements of `create_version`; `ApplyEcn` runs it
inside the transition of a notice. A file is put into `objects` before its row.
`Rollup` is `rollup_cost` as a recursive function of the depth, `BillCost` one
level of it: of each product the bill with the latest `created_at` (`newest`), which
is the start of a transaction and need not be the bill committed last (`Latest`),
and of each line the cost of the bill below or else its own price; lines without
either are left out. `Demand` is the reference, an explosion from the top
(`NeededFor` is one level of that), and `Purchase` what is paid, line by line, for
what is bought. That there is no cycle is said of sets: of any products
there is one that has none of them as a component.

**Safety.** `opened` is the clock of `created_at`, the start of the transaction.
`AuditLog` is what the endpoint lists, in the order of that clock: `Before` and
`IsLast` say which row precedes which, and `LeadTo` what they bring a hazard to.

**Equipment.** A machine begins in any of the five statuses a client may send. A
fault is a row with any two times, also with an end before its start, and the
same fault may be reported again. A scan reads all plans and writes a log for
each that is due; nothing in the program runs it by itself, so that nothing is
said of plans being *kept*, only of jobs being apart. `Downtime` and
`Availability` are the sums of `oee.py`, over slots of time; the code's day ends a
microsecond before midnight, the model's at midnight.

**Scheduling.** A run takes eligible orders by due date and puts each into the
slot that is free first (`BestSlot`); it writes nothing. A slot is a pair of a
station and a number, `free` the list of `(workstation_id, earliest_available)`;
`ListedBefore` is the order of that list, in which `min()` takes the first. Due
dates, estimates and capacities are any integers, because no schema or column
bounds them: a station of negative capacity has no slot, and an order with a
negative estimate frees its slot before it starts, after which the next starts
at `range_start` at the earliest.

## 3. The runs

| Run | Instance | Shows |
|---|---|---|
| `stocktake` | 1 request, 2 stocktake sessions, 2 items, 1 stocktake, quantities 0..1 | stock never negative; moves explain stock unless an update was lost; reservations covered; a confirmation is all or nothing; it reaches the count where stock has not moved |
| `consumer` | 2 workers, 3 entries, batch 2, all failures | only failures swallow effects; counters never ahead; refines `EventDelivery`, so nothing is applied twice |
| `consumer_live` | 1 worker, 3 entries, fairness | order, exact KPI values, every entry is settled once a worker is left alone with its group |
| `sales` (`MCCustomers`) | sales orders: 2 sessions, totals 0 and 2, payments 1 and 2. Quotes: 2 sessions, 2 items, 2 order numbers. Desk: 2 sessions, a lead, an opportunity, a ticket, a sales order, a list of 2. Access: 2 requests, an administrator and a user, 2 roles | completed only when shipped and paid, money never counted twice, columns follow from payments; one announced order with the total of its lines per quote; scores only on closed tickets, a view leaves out only what is older than what it lists; roles as given; audit rows are true to the answers |
| `purchase` (`MCSupply`) | 2 sessions, an order with lines of 1 and 2 units, 2 receipts. Suppliers: 3 tiers, 2 changes, 2 ratings. Warehouses: 2 with up to 3 locations. Migration: a V4 row per table, each good or bad, in two orders, with four kinds of order lines, or one row more (counts, an equal code, a bad column, an unknown table), into a database where other tenants have rows or not | received = delivered by confirmed receipts; approved is announced; a complete order is closed and only a complete one is closed by a receipt; tiers and scores as decided; a migration that passes has all rows of its tables, and one that fails has a row that depends on a skipped one, violates a constraint or cannot be grouped; trees show every location where its level belongs |
| `approval` (`MCManagement`) | approvals: 3 sessions, 2 users, one to three steps and a gap. Ledger: 5 accounts, one of a type unknown to the sheet, 4 vouchers in 2 months, one unbalanced, 2 bills. Payroll: 2 employees, 3 days in 2 months, 2 imports. Rollups: 2 tenants, 2 tasks one of which contains the other, triggers by hand. Policy: 2 processes, 2 rules that a removal cannot tell apart, changes and reloads that fail | no step skipped, verdict follows from the steps, finished is final; dense numbers; the sheet is off by what is posted on unknown types and by nothing else, the dashboard counts what is owed and adds up; paid once, from records, progressively taxed; rollups whole, passes reach all; memory is the rules from a good reload on |
| `workorder` (`MCFactory`) | work orders: 2 sessions, 2 tickets of 0..2 units, plan 2. Structure: 3 products, 3 lines of 3 kinds, 2 versions, 2 contents of a file. Safety: 1 hazard, 6 requests. Equipment: 1 machine, 2 plans, 3 days, 5 spans, 3 faults. Scheduling: 3 orders, 2 workstations, due dates 1 and 2, estimates from -2 to 3, capacities from -1 to 2 | completed = reported; reaching the plan is announced; no cycle and the rollup equals an explosion from the top; one current version, files exist; the log tells the history, closed is rectified; jobs are spaced, downtime is time down, faults have alarms; the schedule is greedy while estimates are not negative |

A name like `DeskIsSound` or `UpkeepIsSound` is the conjunction of a component's
type invariant and its named safety invariants.

Five runs show a disagreement between the code and what the repository says of
it; each is a finding in `PROJECT.json` with the quoted line.

| Run | What TLC finds |
|---|---|
| `inventory_ledger` | two overlapping moves; one is lost from `on_hand`, its StockMove stays |
| `stocktake_transition` | a draft is *confirmed* without adjustments through the plain endpoint |
| `purchase_cancelled` | confirming an old receipt closes a cancelled order, past `validate_transition` |
| `consumer_loss` | an entry whose commit failed is acknowledged, one in the hands of a dying worker is never read again: not at-least-once |
| `consumer_record` | the payload of `po.approved` has an amount the AP handler cannot read: no AP record, without any failure |

**Why the bounds are enough.** Every hazard is about two sessions and one row;
two need a third (stock moving under two confirmations, an approval between two
actors). Two lines, two steps more than one, two tickets and two receipts are
what it takes for a partial failure, a skipped step, or a sum to go wrong; three
entries in batches of two make a worker drop an entry, hold one and have one to
come; three products are the smallest structure with a component reached on two
ways; three orders on two workstations of capacity up to two fill every slot
and reuse one; three lines are enough for two of one component next to one of another, and a
second session adds a component while there is at most one line; negative,
zero, short and long estimates and capacities are one of each; three faults
overlap, repeat and enclose one another; a list of two is cut where there are
three documents; two tenants let one fail and the other follow; six requests walk
a hazard through its whole life with two overlapping; three days let a plan fall
due twice. Quantities go to the smallest value at which a plan is met in one or
in two portions, and missed. `MaxOnHand`, `MaxBooked`, `MaxReceived`, `MaxPaid`,
`MaxEntries`, `MaxOpened`, `MaxDay`, `MaxVersion` and `MaxMoves` cap counters,
each in one guard. `Scale = 1` makes the instance of the payroll round to whole
yuan instead of to four decimals. Sessions, workers, tickets, receipts and items
are only told apart by name, so symmetry is sound for the safety runs; the
liveness run uses none. The four composed runs and the runs in which all
documents end up final say `CHECK_DEADLOCK FALSE`, because the system really
comes to rest there; the runs of the consumer check deadlock.

**Fairness** is assumed in `EventConsumer!FairSpec` only, and it is weak. The loop
of `consume_stream` is a `while True` whose every branch comes back to the read,
so a worker that is up goes on, and after an error of Redis sleeps five seconds
and returns. XREADGROUP, when it is answered, returns entries the group has.
Nobody has to start a worker: a task that was cancelled leaves the loop and
nothing in the program starts it again. Nobody has to create the group: a
failure of XGROUP CREATE is taken for a group that exists already, and every
read then fails with NOGROUP until a worker is started whose call succeeds.
`EverySettled` therefore has a premise, `Steady(w)`: from some moment on the group
exists, the worker is not down and Redis does not refuse it. It says that nothing
*before* that moment, and nothing the database or the other workers do after it,
makes an entry wait for ever. The finding `consumer_loss` is a counterexample
under the same fairness and the same premise.

## 4. The proofs

TLAPS checks the proofs for any number of sessions, rows, workers, users and
processes and any quantities. Assumptions about constants are the named ASSUMEs
of the modules, each justified by the schema or the code it stands next to.
In each module the invariant of the runs is strengthened to an inductive one,
`...IInv`, and the argument is what was added and why. A proof has one lemma per
action; the temporal theorem combines them.

*Inventory* (`InventoryProofs`, first part). `InvIInv` adds `GuardsHeld`, what the
guards of a handler leave true of its *reading*, however old it is by the time
it commits: the planned `on_hand` is not negative, a planned reservation fits
the `on_hand` read with it. `InvNonNegative`, `InvLedger` and `InvReserved` follow.
Quantities are assumed to be positive (`gt=0` in the schemas).

*Stocktakes* (`InventoryProofs`, second part). A flushed line is a move, so
`StStock` carries the three invariants over to the composition. `StSessionsFit`
says that what a confirming session has flushed is the variance of the lines it
has done, and its row locks keep anybody else off them; with it `Adjusted` (all
lines or none, unless the status was overwritten from a stale reading) and
`ReachesCount` (an action property: the count is reached where `on_hand` is what
it was).

*Purchases* (`SupplyProofs`). `SessionsFit` ties a session to the document it
has read, `ReceiptsOfAnnounced` keeps the order of a receipt among those that
were announced, `OpenIsIncomplete` says that an open order that has had receipts
lacks something, unless misjudged. They give `ApprovedIsAnnouncedHolds`,
`CompleteIsClosedHolds` and the action properties `ClosedIsComplete` and
`Enforced`: the state machines are left only through a stale status and through
the closing of an order by a receipt. `ReceivedIsDeliveredHolds` is about a sum
over any number of receipts (`Brought`): the commit of a receipt adds to a line
what it delivers of the product. Assumed: each order has a line, lines belong to
orders, document kinds share no ids.

*Suppliers* (`SupplyProofs`). `SuppliersAreWhereDecided`: a session that decides a
tier change holds a row that was pending, and the row with its number is still
there (`CallbackOK`); decided rows keep their supplier and tier. A supplier is in
the tier it was created with or in one that a decision gave it, for any first
tier the client chooses.

*Migration* (`SupplyProofs`). `MigrationIsWholeHolds`: keys are drawn by rows that
were loaded or skipped (`KeysAreDrawn`), loaded rows refer to drawn keys
(`AddedRefer`), and the tables before the present one are done (`TablesAreDone`).
So a key that is violated at a flush is that of a skipped row, and the other
ways to fail are rows of the source: one that violates a column, two with one
code, a line that cannot be grouped. A load that passes the reconciliation had
no error and has every row of the seven tables, with their lines.
Assumed of a source: its rows are numbered and belong to known tables, no two
have the same key, and a location names its warehouse.

*Warehouses* (`SupplyProofs`). `TreeIsSoundHolds`: a location that is created hangs
under one that is there, one that is migrated under an earlier row of the
source (`ParentsBefore`, which needs that rows are loaded in turn and what they
say of their parents: `LoadedInTurn`, `ParentsGiven`, `ParentsLoaded`). So of any
set of locations one has its parent outside of it (`NoLoops`). Hence as long as some
location is not shown yet, another level of the tree shows one more
(`NodesGrow`), and with as many levels as locations all are shown. Assumed:
finitely many locations, NULL is none of them.

*Event consumer* (`EventConsumerProofs`). The batches held by the workers are
disjoint and increasing, and the only attempted entry in a batch is the head of
one that waits for its XACK: an entry about to be committed has never been
committed. `ConsumerImplementsDelivery` is the refinement, `Spec => DeliverySpec`,
action by action; `AppliedOnceHolds`, `DroppedIsPendingHolds`,
`EffectUnlessFailedHolds`. `KpiNotAheadHolds` has an invariant of its own that
bounds what every worker in flight is about to write by what has been applied.
For a single worker (`OneWorker`, a hypothesis of these two theorems, because two
workers do overtake each other) `AppliedInOrderHolds` and `KpiExactHolds`: all
that was applied lies before what the worker holds, and what it is about to
write was computed from the point as it is.

*Approval* (`ManagementProofs`). `EveryStepApproved`: an instance is approved only
when each of its steps has been. The last step is recognised by comparing a step
*number* with the *number of steps*, which looks wrong for numbers with gaps.
`PassedAreApproved` is the strengthening: all numbers below the current step have
been approved and only existing steps are approved, so passing `n` numbers out of
`n` steps means that the steps *are* `1..n` (lemma `AllTaken`, by counting).
`PendingAsksSomebody`: without gaps a pending instance never waits for a step
that is not there. `FinishedIsFinal`: a status that is final is only changed by a
session that found it pending. `VerdictHolds` adds `SawAsItIs`: on an instance
that no overlap has touched a session's reading is still the row. Assumed of a
definition: a finite non-empty set of positive step numbers.

*Ledger* (`ManagementProofs`). `NumbersAreDenseHolds`: a number a session has
counted is never beyond the next one (`NumberInReach`), and those that have been
taken meanwhile are refused. `BillsAndBooksAgreeHolds`: the statements are sums
over the lines of all posted entries; taking out one entry takes the same amount
out of both sides (`SumOfEntry`), so for any journal whose entries balance and any
types of accounts the sheet is off by what is posted on types it does not know.
The monthly incomes add up to what is retained. `FiguresHold` says of a report
that the figures it has
read are those of now unless something was committed, `StatusDerived` that a
bill has the status of its amount unless it was set by hand or two updates
collided. Assumed: an entry has finitely many lines with amounts that are not
negative, bills are positive. Nothing is assumed of the types.

*Payroll* (`ManagementProofs`). `WageIsTaxed` is arithmetic: on each bracket the
rate minus the quick deduction is the sum of the slices below, for every wage and
every `Scale`. The sessions: `PaidApart` (those paid and those to come are
different people) and `UpToDate` (a payroll of records that nobody has changed
is on its way to what they say) give `PayrollIsSoundHolds`. Assumed: finitely many
employees, salaries and overtime not negative.

*KPI rollups* (`ManagementProofs`). `OnTask` says of a rollup under way which codes
of its task it has written, has found to be there or still has to come to;
points never go away, so a commit of another session keeps it true. `PassOK`
follows the worker through its tenants. Assumed: two tasks have nothing in
common, or one contains the other, as `daily_kpi_rollup` contains the rest.

*Work orders* (`FactoryProofs`). A session that has announced its order keeps
the quantity it announced until it commits: `FlushedIsKnown` says that one that
adds to the order leaves the sum it flushed, and one that reports nothing either
sees the quantity as it is or comes after another report; `AnnouncedIsOnStream`
says what has been sent. With them `ReachedIsAnnouncedHolds`. `WorkForward`: unless
its status was overwritten unread, an order moves one place along its chain.
`CompletedIsReportedHolds`: the completed quantity is the sum over any number of
reported tickets. Planned quantities are any integers, reports are not negative.

*Products, hazards, equipment* (`FactoryProofs`). `VersionsAreSoundHolds`: a session
that makes a version holds the number it has read, which is the last one unless
another has overtaken it. `HazardsAreToldHolds`: requests begin at times of their
own (`TimesAreApart`), and what a request has not missed was there before it began
(`NothingMissed`). `UpkeepIsSoundHolds`: `GeneratedIsLast` says that a plan's
`last_generated` is the day of its last job unless a late scan wrote it, and
downtime is a sum of spans against the size of their union (`SizeOfUnion`), equal
where no two faults share a slot. Assumed of spans only that they are numbers;
intervals are at least a day.

*Structures and costs* (`FactoryProofs`). `StructureIsSoundHolds` has two parts. *No
cycle*: in any set of products one has no component in the set (`Descends`) and
one is no component in it (`Ascends`), as long as no two sessions added
components at the same time. What a session found below its component is closed
under components and does not hold the product (`SearchedOK`), and an edge into
such a set from outside leaves both as they are (`EdgeIntoClosed`); that `Below`,
which goes as many levels down as there are products, is closed is counted with
`Vanishes`. A copied bill brings no new edge (`CopiedOK`). *The rollup is the price
of the explosion*: after as many levels as there are products a further one
changes no cost (`RollupIsDone`, from `Descends`) and needs nothing more
(`ExplosionEnds`, from `Ascends`). A level is worth what is bought of the next and
what is left to make (`LevelStep`), so all levels add up to the cost
(`LevelsAddUp`), and `SumExchange` turns the sum over levels into one over parts.
A sum over the lines of a bill is regrouped into one over components, because a
component may have several lines (`BillCostOfLines`).
Assumed: finitely many products, positive integer quantities, prices that are not
negative.

*Scheduling* (`FactoryProofs`). `ScheduleIsGreedyHolds`: when the first slot becomes
free, the orders that still run are in other slots, one each, so they are fewer
than the slots; at any moment before, each slot has an order, so they are not
(`FirstMoment`, the pigeonhole principle both ways). `SlotsAreLoaded` ties the free
times to the orders put so far, as long as none of these ends before it starts
(`Forward`); due dates and stations with slots need no such condition. That
there is a first slot at all among finitely many integers is `LeastInteger`.
Assumed: finitely many orders and stations, integers.

*Sales orders* (`CustomerProofs`). `Completed` and `Received`: an order is
completed only when it has been shipped and its payments cover its total, and
never counts more as paid than was paid, although sessions overlap, lose
payments from `paid_amount` and mix their columns. The strengthening `Backed`
says of every session in flight that its plan is covered by the payments made so
far together with its own. Since payments are only ever added, this survives
every commit of another session, and a commit adds the amount it promised;
columns of two sessions can only mix in the harmless direction, because
*shipped* is never taken back. `Handled` (a plan is what one handler makes of one
reading) gives `Balanced`, the exact balance and status as long as nobody
overlapped, and `SalesForward`.

*Quotes, customer care* (`CustomerProofs`). `QuotesBecomeOrders`: what a session has
read of a quote stays true until a commit of another marks the quote
(`QuoteSessionsOK`); `TotalIsItems`, `OrderedOnce`. `DeskIsSoundHolds`: a session has
read a status of the table of its document (`CaringOK`); what a view has counted
is still there when it lists (`ViewIsThere`), for any limit and any moments.

*Permission rules* (`AccessProofs`). `MemoryIsRules`: in a process that is not
astray the memory is the rules once its changes and reloads are over. A process
starts astray and leaves that state only by a reload that read the rules and
that nothing overlapped; it is astray again after a failed reload, a
rolled back change, a change it was not told of or a removal of other rows than
the line it names. `MemoryIsAhead` generalises the statement to the time in between: memory and
rules differ exactly by the changes under way; `CleanChanges` and `CleanLoads` say
that nothing overlapped those.

*Access* (`AccessProofs`). `RowsSoFar` determines the audit rows of a request from
how far it has come, none for one that raised, `IdsApart` keeps requests apart;
`RequestsAreAccountedHolds` and `RolesAreAsGivenHolds` follow.

*Sums* (`SumTheorems`). The models sum with the folds of the community modules. What
a fold computes on a set of any size is proved here without an induction rule:
of the subsets for which a law fails a smallest one is taken, and the law holds
for it because it holds without one of its elements (`LeastSubset`). `SumUnion`,
`SumRemove`, `SumOverImage`, `SumGrows` and `SizeOfUnion` are what the theorems about
receipts, tickets, entries, wages and downtimes rest on, `SumIsLinear`,
`SumSupport` and `SumExchange` what those about costs do. `Iterates` says that a
function defined by recursion over the naturals exists; before that is proved,
nothing is known of a function that is defined so. `Vanishes` bounds how long a
set can get smaller.

**Only model-checked**: liveness under fairness (`EverySettled`), and ENABLED, which
the prover cannot treat. Every other property of a passing run is a theorem.
The five findings are counterexamples, not theorems. No module declares a
RECURSIVE operator, so that all of them remain open to proof.

## 5. Not modelled

* *Quality inspection, SPC, energy.* Records that are only appended, one INSERT
  per request, and statistics over real numbers computed from them. `qc.failed`
  is published before its commit like the events of Equipment and Safety; its
  consumption is in EventConsumer.
* *Web shell, deployment, seeding and simulation scripts.* A user interface,
  table definitions, and programs that call the endpoints with made-up data.
* *Listings and single queries* of every component, which change nothing; of the
  dashboard the production, order and inventory figures, which are single counts.
* *Descriptive updates*: names and addresses of suppliers, names and flags of
  warehouses and locations. Nothing modelled reads them.
* *Purchase*: RFQ line prices and supplier products; `purchase_from_bom`, which
  only creates drafts. Requests and RFQs have state machines that go through the
  same two actions as orders and touch nothing else; the instance has neither.
* *Access*: creation of roles; the expiry of tokens, which only ends a session
  earlier. *Ledger*: the cash flow statement, a
  difference of the sums the balance sheet is made of. *Payroll*: contributions of the employer, which follow from the same
  base. *Equipment*: performance and quality of the OEE, ratios of real sums.

Abstractions to keep in mind: a tenant is modelled only where the code goes past
it or walks over all of them (KpiRollup, Migration). The maintenance scan
(`maintenance.py:27`) and the queries of `oee.py:136-159` do not filter by tenant
either: the scan takes every plan there is, which is what the model has, and
the OEE of one machine adds up the tickets and defects of all tenants in its
performance and quality, which are not modelled; documents and products are model values; quantities are integers
(the columns are decimals and only added and compared; that `Numeric(18,2)` rounds
a payment with a fraction of a cent is not modelled); `scrap_quantity` and
minutes follow `completed_quantity`; stocktake lines of one item are one line;
sales order items are their total; a V4 row that a transform cannot read is
`good = FALSE`; the order of statements inside one flush and the moment between
flush and commit of a single-row handler are one step. Postgres itself is
assumed to be correct: commits are atomic, unique constraints hold, a deadlock
of row locks (two confirmations that flush the rows of their lines in different
orders) ends one of the sessions.

**Hazards.** Each of the 40 hazards in `PROJECT.json` names the properties that
would catch it. What the code is exposed to beyond them is below.

Seen while modelling and not made a run: `available` can become negative because
moves look at `on_hand` only; the variance of a stocktake is the one of the
moment of the count, although `stocktake_service.py:5` computes it on
confirmation; two lines of one product in an order share one entry of
`po_line_map`; two receipts confirmed together can leave a complete order open
(history variable `misjudged`); `po.approved` can stay on the stream of an
approval that was rolled back; step numbers with gaps leave an instance
waiting for a step that is not there; an order shipped first and paid later
never becomes *completed*; `work_order.completed` is published again by every
later report, with the cumulative quantity that the KPI handler then adds up;
nothing calls `start_all_consumers`, `start_policy_watcher` or `receive_stock`
for confirmed receipts; the receivable of an order is created in a second commit
whose failure is swallowed; a ticket can be closed by the plain transition,
without a score; two sessions can make two orders of one quote (history variable
`repeated`), and the items of an order are read after its total; the history of
a hazard can be told in an order that never happened when requests overlap;
overlapping updates of a user leave the union of both sets of roles; the memory
of a process has a rule that was rolled back, and no other process has one that
was committed, until it reloads; an audit row of success can be that of a
request whose commit failed; a V4 row that is skipped has already drawn the key
others refer to, and the load then fails at the flush; a V4 location whose
parent comes later in the list becomes a root unnoticed; the reconciliation
counts the rows of all tenants; a schedule over workstations that all have
capacity 0 raises, because `min()` has nothing to choose from; overlapping faults
of a machine count twice in its downtime; the docstring of `rollup_cost` (`bom_service.py:88`) has it that the cost is None
as soon as a leaf has no price and no bill, while the code (`:107-110`) leaves such
a leaf out and returns the rest, so that a product with an unpriced part looks
cheaper than it is (`BillCost`, and `RollupIsExplosion` counts such lines for
nothing on both sides); `main.py:48` and `audit_log.py:1,15` have it that every write
leaves an audit row, while one that ends in an exception leaves none, even after
its commit (`Raise`); a sheet drops accounts of an unknown type and then does not
balance; `MAPPING.md` lists tables that the migration never loads and the
reconciliation does not miss; a failed reload leaves an enforcer that refuses
everybody until the next good one; the consumer takes every failure to create
its group for success; a second upload of a CAD file with the same name to the
same version puts its bytes over those of the first before the unique
constraint refuses the row, and the first row keeps a checksum that is no longer
that of the file; a negative estimate lets two orders share a slot.
