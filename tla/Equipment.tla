------------------------------- MODULE Equipment -------------------------------
(***************************************************************************)
(* Equipment with its faults, preventive maintenance and availability      *)
(* (api/equipment.py, services/maintenance.py, services/oee.py).           *)
(*                                                                         *)
(* A scan reads all active plans, then writes a log for every plan that is *)
(* due and sets its last_generated; nothing locks the plans, and nothing   *)
(* runs a scan but a request.  A fault sets the status of its machine and  *)
(* is announced before it is committed; it may be reported twice, and may  *)
(* end before it starts.  Downtime of a day is the sum of its faults, cut  *)
(* at the limits of the day.  Time is counted in slots of which a day has  *)
(* DaySlots.                                                               *)
(***************************************************************************)
EXTENDS Integers, FiniteSetsExt

CONSTANTS
    PlantReq,       \* database sessions open at once
    Machine,
    Plan,           \* maintenance plans
    PlanFor(_),     \* the machine of a plan
    IntervalDays(_),\* interval_days of a plan
    MaxDay,         \* bound: last day of the calendar
    FaultSpan,      \* when faults start and end, as <<first, last>> or <<first, Ongoing>>
    DaySlots        \* slots of a day

Ongoing == -1

ASSUME PlanAssumption == \A p \in Plan : PlanFor(p) \in Machine /\ IntervalDays(p) \in Nat \ {0}
ASSUME CalendarAssumption == MaxDay \in Nat /\ DaySlots \in Nat \ {0}
ASSUME SpanAssumption == FaultSpan \subseteq Nat \X (Nat \union {Ongoing})

VARIABLES
    day,        \* date.today()
    machine,    \* Equipment.status, "none" before it is created
    faults,     \* rows of fault_records, as [no, machine, span]
    alarms,     \* faults announced by equipment.fault, as <<machine, span>>
    plans,      \* rows of maintenance_plans
    generated,  \* last_generated of a plan, Never if NULL
    jobs,       \* rows of maintenance_logs, as [plan, day, scan, late]: the number of
                \* the scan tells logs of one day apart; as history, whether another
                \* scan had generated the plan since this one read it
    scans,      \* number of scans committed
    upkeep      \* sessions at work

equipmentTables == <<machine, faults, alarms, plans, generated, jobs, scans>>
equipmentVars   == <<day, equipmentTables, upkeep>>

Never == -1

EquipmentStatus == {"running", "idle", "maintenance", "fault", "offline"}

EquipmentInit ==
    /\ day = 0
    /\ machine = [m \in Machine |-> "none"]
    /\ faults = {}
    /\ alarms = {}
    /\ plans = {}
    /\ generated = [p \in Plan |-> Never]
    /\ jobs = {}
    /\ scans = 0
    /\ upkeep = {}

Midnight ==
    /\ day < MaxDay
    /\ day' = day + 1
    /\ UNCHANGED <<equipmentTables, upkeep>>

\* The client says what its status is.
CreateEquipment(m, status) ==
    /\ machine[m] = "none"
    /\ machine' = [machine EXCEPT ![m] = status]
    /\ UNCHANGED <<day, faults, alarms, plans, generated, jobs, scans, upkeep>>

CreatePlan(p) ==
    /\ p \notin plans
    /\ machine[PlanFor(p)] # "none"
    /\ plans' = plans \union {p}
    /\ UNCHANGED <<day, machine, faults, alarms, generated, jobs, scans, upkeep>>

-----------------------------------------------------------------------------
(* create_fault and generate_due_maintenance                                 *)

Off(r) == \A s \in upkeep : s.by # r

\* The fault is flushed and announced, then committed.
AnnounceFault(r, m, span) ==
    /\ Off(r)
    /\ machine[m] # "none"
    /\ alarms' = alarms \union {<<m, span>>}
    /\ upkeep' = upkeep \union {[by |-> r, does |-> "fault", fault |-> <<m, span>>]}
    /\ UNCHANGED <<day, machine, faults, plans, generated, jobs, scans>>

CommitFault(s) ==
    /\ s.does = "fault"
    /\ faults' = faults \union
           {[no |-> Cardinality(faults) + 1, machine |-> s.fault[1], span |-> s.fault[2]]}
    /\ machine' = [machine EXCEPT ![s.fault[1]] = "fault"]
    /\ upkeep' = upkeep \ {s}
    /\ UNCHANGED <<day, alarms, plans, generated, jobs, scans>>

\* Mutant: a plan is due one day early.
MutantIsDue(p) == generated[p] = Never \/ day - generated[p] >= IntervalDays(p) - 1

IsDue(p) == generated[p] = Never \/ day - generated[p] >= IntervalDays(p)

\* The plans are read and checked; the logs wait for the flush.
BeginScan(r) ==
    /\ Off(r)
    /\ upkeep' = upkeep \union
           {[by |-> r, does |-> "scan", today |-> day, due |-> {p \in plans : IsDue(p)},
             saw |-> generated]}
    /\ UNCHANGED <<day, equipmentTables>>

CommitScan(s) ==
    /\ s.does = "scan"
    /\ s.due # {}
    /\ jobs' = jobs \union
           {[plan |-> p, day |-> s.today, scan |-> scans + 1, late |-> generated[p] # s.saw[p]] :
               p \in s.due}
    /\ generated' = [p \in Plan |-> IF p \in s.due THEN s.today ELSE generated[p]]
    /\ scans' = scans + 1
    /\ upkeep' = upkeep \ {s}
    /\ UNCHANGED <<day, machine, faults, alarms, plans>>

\* A scan that found nothing ends without a write; any other may fail.
EquipmentRollback(s) ==
    /\ upkeep' = upkeep \ {s}
    /\ UNCHANGED <<day, equipmentTables>>

EquipmentNext ==
    \/ Midnight
    \/ \E m \in Machine, status \in EquipmentStatus : CreateEquipment(m, status)
    \/ \E p \in Plan : CreatePlan(p)
    \/ \E r \in PlantReq, m \in Machine, span \in FaultSpan : AnnounceFault(r, m, span)
    \/ \E s \in upkeep : CommitFault(s)
    \/ \E r \in PlantReq : BeginScan(r)
    \/ \E s \in upkeep : CommitScan(s)
    \/ \E s \in upkeep : EquipmentRollback(s)

EquipmentSpec == EquipmentInit /\ [][EquipmentNext]_equipmentVars

-----------------------------------------------------------------------------
(* calculate_oee: the downtime of a machine on a day                         *)

DayStart(d) == d * DaySlots
DayEnd(d)   == (d + 1) * DaySlots

\* Faults that touch the day; one that has not ended touches all that follow.
FaultsOn(m, d) ==
    {x \in faults : /\ x.machine = m /\ x.span[1] <= DayEnd(d)
                    /\ x.span[2] = Ongoing \/ x.span[2] >= DayStart(d)}

End(f, d) == IF f[2] = Ongoing THEN DayEnd(d) ELSE Min({f[2], DayEnd(d)})

Minutes(f, d) == Max({0, End(f, d) - Max({f[1], DayStart(d)})})

Downtime(m, d) == SumFunction([x \in FaultsOn(m, d) |-> Minutes(x.span, d)])

\* compute_oee, of a planned time of the given length: the share of the time
\* that is available, as a numerator over planned.
Availability(planned, down) ==
    IF planned <= 0 THEN 0 ELSE Max({0, Min({planned, planned - down})})

\* Reference: the slots of the day during which a fault was on, and those during
\* which some fault of a machine was.
SlotsOf(f, d) ==
    {t \in DayStart(d) .. DayEnd(d) - 1 : f[1] <= t /\ (f[2] = Ongoing \/ t < f[2])}

FaultsOf(m) == {x \in faults : x.machine = m}

DownSlots(m, d) == UNION {SlotsOf(x.span, d) : x \in FaultsOf(m)}

\* No two reports of a machine are about the same time of the day.
Disjoint(m, d) ==
    \A x, y \in FaultsOf(m) : x # y => SlotsOf(x.span, d) \intersect SlotsOf(y.span, d) = {}

-----------------------------------------------------------------------------
\* The rows of machines, plans and faults.
EquipmentTypeOK ==
    /\ day \in 0 .. MaxDay
    /\ machine \in [Machine -> {"none"} \union EquipmentStatus]
    /\ faults \subseteq [no : Nat, machine : Machine, span : FaultSpan]
    /\ plans \subseteq Plan
    /\ generated \in [Plan -> Never .. MaxDay]
    /\ \A j \in jobs : j.plan \in plans /\ j.day \in 0 .. MaxDay

\* Two jobs of a plan are at least its interval apart, counted from the first to
\* the second, unless between them a scan wrote a job although another had
\* generated the plan since it was read: scans that overlap cost a job, and the
\* spacing is kept again from that job on.
JobsAreSpaced ==
    \A i, j \in jobs :
        i.plan = j.plan /\ i.scan < j.scan =>
            \/ j.day - i.day >= IntervalDays(i.plan)
            \/ \E k \in jobs : k.plan = i.plan /\ k.late /\ i.scan < k.scan /\ k.scan <= j.scan

\* The downtime of a machine on a day is the time during which it was down, and
\* more than that only if faults of the machine overlap.
DowntimeIsTimeDown ==
    \A m \in Machine, d \in 0 .. MaxDay :
        LET down == Cardinality(DownSlots(m, d))
        IN  /\ Downtime(m, d) >= down
            /\ Disjoint(m, d) => Downtime(m, d) = down
            /\ down = DaySlots => Availability(DaySlots, Downtime(m, d)) = 0

\* A fault on record has been announced, and its machine is out of order.
FaultsAreTold ==
    \A x \in faults : <<x.machine, x.span>> \in alarms /\ machine[x.machine] = "fault"

\* Scans keep the intervals of the plans, and downtimes are those of the faults.
UpkeepIsSound ==
    /\ EquipmentTypeOK
    /\ JobsAreSpaced
    /\ DowntimeIsTimeDown
    /\ FaultsAreTold
=============================================================================
