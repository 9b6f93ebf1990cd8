------------------------------ MODULE Scheduling ------------------------------
(***************************************************************************)
(* The FIFO schedule of work orders (services/aps.py, api/aps.py).         *)
(*                                                                         *)
(* A run reads the work orders that are released or in progress and the    *)
(* workstations, gives every workstation as many slots as its capacity     *)
(* says and puts one order after the other, by due date, into the slot     *)
(* that is free first.  Nothing is written.  Time is counted in hours from *)
(* range_start, which is 0; range_end is checked and then ignored.  Hours  *)
(* and capacities are what clients say, and may be negative.               *)
(***************************************************************************)
EXTENDS Integers, FiniteSetsExt, SequencesExt

CONSTANTS
    Job,            \* work orders
    Station,        \* workstations, as numbers in the order of their code
    Due,            \* planned_end of orders in use
    Hours,          \* estimated hours in use
    Capacity        \* capacities in use

ASSUME SchedulingAssumption ==
    /\ IsFiniteSet(Job) /\ IsFiniteSet(Station)
    /\ Station \subseteq Nat /\ Due \subseteq Int /\ Hours \subseteq Int /\ Capacity \subseteq Int

VARIABLES
    due, hours,     \* of the orders
    capacity,       \* Workstation.capacity
    phase,          \* of the run: "idle", "running", "answered", "failed"
    waiting,        \* orders without a slot, by due date
    free,           \* the time from which each slot <<station, number>> is free
    schedule        \* the APSSlots so far

schedulingVars == <<due, hours, capacity, phase, waiting, free, schedule>>

SchedulingInit ==
    /\ due \in [Job -> Due]
    /\ hours \in [Job -> Hours]
    /\ capacity \in [Station -> Capacity]
    /\ phase = "idle"
    /\ waiting = <<>>
    /\ free = <<>>
    /\ schedule = <<>>

ByDue(queue) == \A i, j \in DOMAIN queue : i < j => due[queue[i]] <= due[queue[j]]

\* As many slots of a station as it has capacity, none if that is negative.
SlotPool == UNION {{s} \X (1 .. capacity[s]) : s \in Station}

\* run_aps: the orders that are eligible; 422 without a workstation.
RunAps(eligible) ==
    /\ phase = "idle"
    /\ Station # {}
    /\ \E queue \in SetToSeqs(eligible) : ByDue(queue) /\ waiting' = queue
    /\ free' = [x \in SlotPool |-> 0]
    /\ phase' = "running"
    /\ UNCHANGED <<due, hours, capacity, schedule>>

\* Slots are listed station by station, in the order of their code.
ListedBefore(x, y) == x[1] < y[1] \/ (x[1] = y[1] /\ x[2] <= y[2])

\* Mutant: the slot that is free last is taken.
MutantBestSlot == CHOOSE x \in DOMAIN free : \A y \in DOMAIN free : free[x] >= free[y]

\* min(range(len(slots)), key=...): the first of those that are free first.
BestSlot ==
    CHOOSE x \in DOMAIN free : \A y \in DOMAIN free :
        free[x] < free[y] \/ (free[x] = free[y] /\ ListedBefore(x, y))

\* One round of the loop of schedule_fifo.  A slot may have become free before
\* range_start, when an order took less than no time.
Assign ==
    /\ phase = "running"
    /\ waiting # <<>>
    /\ DOMAIN free # {}
    /\ LET best  == BestSlot
           start == Max({free[best], 0})
           until == start + hours[Head(waiting)]
       IN  /\ schedule' = Append(schedule, [job |-> Head(waiting), station |-> best[1],
                                            start |-> start, until |-> until])
           /\ free' = [free EXCEPT ![best] = until]
    /\ waiting' = Tail(waiting)
    /\ UNCHANGED <<due, hours, capacity, phase>>

Answer ==
    /\ phase = "running"
    /\ waiting = <<>>
    /\ phase' = "answered"
    /\ UNCHANGED <<due, hours, capacity, waiting, free, schedule>>

\* min() of an empty range raises: stations there are, but without a slot.
NoSlot ==
    /\ phase = "running"
    /\ waiting # <<>>
    /\ DOMAIN free = {}
    /\ phase' = "failed"
    /\ UNCHANGED <<due, hours, capacity, waiting, free, schedule>>

SchedulingNext ==
    \/ \E eligible \in SUBSET Job : RunAps(eligible)
    \/ Assign
    \/ Answer
    \/ NoSlot

SchedulingSpec == SchedulingInit /\ [][SchedulingNext]_schedulingVars

-----------------------------------------------------------------------------
\* How many of the first n orders keep a slot at a moment or later.
Busy(n, t) == Cardinality({k \in 1 .. n : schedule[k].until > t})

Slots == SumFunction([s \in Station |-> Max({0, capacity[s]})])

\* None of the first n orders ends before it starts.
Forward(n) == \A k \in 1 .. n : hours[schedule[k].job] >= 0

\* The k-th order starts at the first moment at which one of all the slots is
\* free of the orders put before it.
TakesFirst(k) ==
    schedule[k].start = Min({t \in {0} \union {schedule[j].until : j \in 1 .. k - 1} :
                                 Busy(k - 1, t) < Slots})

\* It is not put where all slots of a station are taken.
HasRoom(k) ==
    Cardinality({j \in 1 .. k : /\ schedule[j].station = schedule[k].station
                                /\ schedule[j].until > schedule[k].start})
        <= capacity[schedule[k].station]

\* Orders are put by due date into stations that have slots, and none before
\* range_start.  As long as the orders put before it end after they start, an
\* order starts when the first slot is free, overfills no station and does not
\* start before those; after a negative estimate it may do both.
ScheduleIsGreedy ==
    \A k \in DOMAIN schedule :
        /\ schedule[k].start >= 0
        /\ capacity[schedule[k].station] > 0
        /\ \A j \in DOMAIN schedule : due[schedule[j].job] < due[schedule[k].job] => j < k
        /\ Forward(k - 1) =>
              /\ TakesFirst(k)
              /\ HasRoom(k)
              /\ \A j \in 1 .. k - 1 : schedule[j].start <= schedule[k].start
=============================================================================
