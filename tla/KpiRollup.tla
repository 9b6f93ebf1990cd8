------------------------------ MODULE KpiRollup ------------------------------
(***************************************************************************)
(* KPI definitions and the rollups that write KPI data points (kpi.py,     *)
(* rollups.py, worker.py).                                                 *)
(*                                                                         *)
(* A task of the worker takes the list of tenants once and gives each a    *)
(* session of its own: what fails for one is rolled back and reported, and *)
(* the next tenant follows.  A rollup computes its figures one by one and  *)
(* upserts each: it looks for the point of the day, then inserts or        *)
(* updates it.  The endpoint that triggers a rollup may run at any time.   *)
(***************************************************************************)
EXTENDS Integers, Sequences, FiniteSets

CONSTANTS
    Tenant,         \* tenants
    Task,           \* rollups by name: the KPI codes they write, in their order
    Trigger,        \* requests that trigger a rollup by hand
    SeedKpi,        \* codes of SEED_KPIS
    MaxMoves        \* bound: how often the source tables of a tenant change

ASSUME MaxMovesAssumption == MaxMoves \in Nat
ASSUME TriggerAssumption == "worker" \notin Trigger

VARIABLES
    defined,    \* rows of kpi_definitions, as <<tenant, code>>
    source,     \* state of the source tables of a tenant, counted
    point,      \* kpi_data_points of the day, by tenant and code; -1 if none
    pass,       \* the pass of the worker: tenants still to come and results
    rolling,    \* sessions that roll up
    seeding     \* sessions that seed definitions

kpiVars == <<defined, source, point, pass, rolling, seeding>>

CodesOf(task) == {Task[task][i] : i \in DOMAIN Task[task]}

Codes == UNION {CodesOf(task) : task \in DOMAIN Task}

\* Rollups write codes of their own, or run other rollups as a whole.
ASSUME TaskAssumption ==
    /\ \A k \in DOMAIN Task : Task[k] \in Seq(CodesOf(k))
    /\ \A j, k \in DOMAIN Task :
          \/ CodesOf(j) \intersect CodesOf(k) = {}
          \/ CodesOf(j) \subseteq CodesOf(k)
          \/ CodesOf(k) \subseteq CodesOf(j)

NoPass == [task |-> "none", left |-> {}, listed |-> {}, done |-> {}, failed |-> {}]

KpiInit ==
    /\ defined = {}
    /\ source = [t \in Tenant |-> 0]
    /\ point = [t \in Tenant |-> [c \in Codes |-> -1]]
    /\ pass = NoPass
    /\ rolling = {}
    /\ seeding = {}

\* Bills, employees or attendance of a tenant change.
MoveSource(t) ==
    /\ source[t] < MaxMoves
    /\ source' = [source EXCEPT ![t] = @ + 1]
    /\ UNCHANGED <<defined, point, pass, rolling, seeding>>

-----------------------------------------------------------------------------
(* seed_kpi_definitions: the codes not yet defined are inserted together.    *)

Missing(t) == {c \in SeedKpi : <<t, c>> \notin defined}

BeginSeed(r, t) ==
    /\ \A s \in seeding : s.by # r
    /\ seeding' = seeding \union {[by |-> r, tenant |-> t, codes |-> Missing(t)]}
    /\ UNCHANGED <<defined, source, point, pass, rolling>>

\* uq_kpi_defs_tenant_code
CommitSeed(s) ==
    LET rows == {<<s.tenant, c>> : c \in s.codes}
    IN  /\ rows \intersect defined = {}
        /\ defined' = defined \union rows
        /\ seeding' = seeding \ {s}
        /\ UNCHANGED <<source, point, pass, rolling>>

RollbackSeed(s) ==
    /\ seeding' = seeding \ {s}
    /\ UNCHANGED <<defined, source, point, pass, rolling>>

-----------------------------------------------------------------------------
(* worker.py: a task goes through the tenants one after the other.           *)

Rolling(by, t, task) ==
    [by |-> by, tenant |-> t, codes |-> Task[task], saw |-> -1, figure |-> -1,
     written |-> [c \in {} |-> 0]]

\* _get_tenant_ids
StartPass(task) ==
    /\ pass.left = {}
    /\ \A s \in rolling : s.by # "worker"
    /\ pass' = [task |-> task, left |-> Tenant, listed |-> Tenant, done |-> {}, failed |-> {}]
    /\ UNCHANGED <<defined, source, point, rolling, seeding>>

\* _run_rollup_for_all_tenants
NextTenant(t) ==
    /\ t \in pass.left
    /\ \A s \in rolling : s.by # "worker"
    /\ pass' = [pass EXCEPT !.left = @ \ {t}]
    /\ rolling' = rolling \union {Rolling("worker", t, pass.task)}
    /\ UNCHANGED <<defined, source, point, seeding>>

\* trigger_rollup
TriggerRollup(r, t, task) ==
    /\ \A s \in rolling : s.by # r
    /\ rolling' = rolling \union {Rolling(r, t, task)}
    /\ UNCHANGED <<defined, source, point, pass, seeding>>

-----------------------------------------------------------------------------
(* A rollup function: its figure, then _upsert_kpi_data_point.               *)

\* Its own flushed rows, else what is committed.
Sees(s, c) == IF c \in DOMAIN s.written THEN s.written[c] ELSE point[s.tenant][c]

ComputeFigure(s) ==
    /\ s.codes # <<>>
    /\ s.figure = -1
    /\ rolling' = (rolling \ {s}) \union
           {[s EXCEPT !.figure = source[s.tenant], !.saw = Sees(s, Head(s.codes))]}
    /\ UNCHANGED <<defined, source, point, pass, seeding>>

Occupied(s, c) ==
    \E o \in rolling \ {s} : o.tenant = s.tenant /\ c \in DOMAIN o.written

\* Nothing is sent for a point that already has the value.
Unchanged(s) == s.saw = s.figure

\* An INSERT of a point that another session has inserted since fails.
Duplicate(s, c) == s.saw = -1 /\ Sees(s, c) # -1

FlushPoint(s) ==
    LET c == Head(s.codes)
    IN  /\ s.codes # <<>>
        /\ s.figure # -1
        /\ ~Unchanged(s) => ~Occupied(s, c) /\ ~Duplicate(s, c)
        /\ rolling' = (rolling \ {s}) \union
               {[s EXCEPT !.codes = Tail(@), !.figure = -1, !.saw = -1,
                    !.written = IF Unchanged(s) THEN @
                                ELSE [k \in DOMAIN @ \union {c} |-> IF k = c THEN s.figure ELSE @[k]]]}
        /\ UNCHANGED <<defined, source, point, pass, seeding>>

\* Mutant: a rollup may be committed before its last figure.
MutantComplete(s) == s.figure = -1

Complete(s) == s.codes = <<>>

Reported(s, failed) ==
    IF s.by # "worker" THEN pass
    ELSE IF failed THEN [pass EXCEPT !.failed = @ \union {s.tenant}]
    ELSE [pass EXCEPT !.done = @ \union {s.tenant}]

CommitRollup(s) ==
    /\ Complete(s)
    /\ point' = [point EXCEPT ![s.tenant] =
           [c \in Codes |-> IF c \in DOMAIN s.written THEN s.written[c] ELSE @[c]]]
    /\ pass' = Reported(s, FALSE)
    /\ rolling' = rolling \ {s}
    /\ UNCHANGED <<defined, source, seeding>>

\* A constraint fails or the database does; the exception is logged.
FailRollup(s) ==
    /\ pass' = Reported(s, TRUE)
    /\ rolling' = rolling \ {s}
    /\ UNCHANGED <<defined, source, point, seeding>>

KpiNext ==
    \/ \E t \in Tenant : MoveSource(t)
    \/ \E r \in Trigger, t \in Tenant : BeginSeed(r, t)
    \/ \E s \in seeding : CommitSeed(s)
    \/ \E s \in seeding : RollbackSeed(s)
    \/ \E task \in DOMAIN Task : StartPass(task)
    \/ \E t \in Tenant : NextTenant(t)
    \/ \E r \in Trigger, t \in Tenant, task \in DOMAIN Task : TriggerRollup(r, t, task)
    \/ \E s \in rolling : ComputeFigure(s)
    \/ \E s \in rolling : FlushPoint(s)
    \/ \E s \in rolling : CommitRollup(s)
    \/ \E s \in rolling : FailRollup(s)

KpiSpec == KpiInit /\ [][KpiNext]_kpiVars

-----------------------------------------------------------------------------
\* The definitions, the points of the day and the pass of the worker.
KpiTypeOK ==
    /\ defined \subseteq Tenant \X SeedKpi
    /\ point \in [Tenant -> [Codes -> -1 .. MaxMoves]]
    /\ pass.left \union pass.done \union pass.failed \subseteq Tenant

\* The points of a rollup appear together: whatever fails or overlaps, no
\* tenant has some of the figures of a rollup of the day and lacks the others.
\* (Of a task that runs other tasks, each of these appears as a whole.)
RollupAllOrNothing ==
    \A t \in Tenant, k \in DOMAIN Task :
        (\A j \in DOMAIN Task : CodesOf(j) \subseteq CodesOf(k) => j = k) =>
            {c \in CodesOf(k) : point[t][c] # -1} \in {{}, CodesOf(k)}

\* A pass that is over has tried every tenant of its list, and all of those it
\* does not report as failed have every figure: the failure of one tenant costs
\* no other its points.
PassReachesAll ==
    pass.left = {} /\ (\A s \in rolling : s.by # "worker") =>
        /\ pass.listed = pass.done \union pass.failed
        /\ \A t \in pass.done : \A c \in CodesOf(pass.task) : point[t][c] # -1

\* The figures of a day are there for all tenants and as a whole.
RollupsAreWhole ==
    /\ KpiTypeOK
    /\ RollupAllOrNothing
    /\ PassReachesAll
=============================================================================
