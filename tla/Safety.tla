-------------------------------- MODULE Safety --------------------------------
(***************************************************************************)
(* Safety hazards and their audit log (api/safety.py, models/safety.py).   *)
(*                                                                         *)
(* A request authenticates its user and then works on a hazard, all in one *)
(* transaction.  A new hazard is announced before it is committed.  Every  *)
(* transition appends a row to the audit log; the log is returned in the   *)
(* order of created_at, which the database sets to the start of the        *)
(* transaction, the SELECT of the user.                                    *)
(***************************************************************************)
EXTENDS Integers, FiniteSets

CONSTANTS
    SafetyReq,  \* requests open at once
    Danger,     \* hazards that may be reported
    MaxOpened   \* bound on the number of requests

ASSUME MaxOpenedAssumption == MaxOpened \in Nat

VARIABLES
    opened,     \* requests so far, the clock of created_at
    danger,     \* SafetyHazard.status, "none" before it is reported
    stamps,     \* which of rectified_at and closed_at are set
    trail,      \* rows of hazard_audit_logs
    reported,   \* hazards announced by hazard.reported
    patrol,     \* requests at work
    crossing    \* history: hazards moved by overlapping requests

safetyTables == <<danger, stamps, trail, reported>>
safetyVars   == <<opened, safetyTables, patrol, crossing>>

_ALLOWED_TRANSITIONS ==
    [reported |-> {"assigned"}, assigned |-> {"rectifying"}, rectifying |-> {"verified"},
     verified |-> {"closed"}, closed |-> {}]

HazardStatus == DOMAIN _ALLOWED_TRANSITIONS

AuditRow == [hazard : Danger, from : HazardStatus \union {"none"}, to : HazardStatus,
             at : 1 .. MaxOpened]

SafetyInit ==
    /\ opened = 0
    /\ danger = [h \in Danger |-> "none"]
    /\ stamps = [h \in Danger |-> {}]
    /\ trail = {}
    /\ reported = {}
    /\ patrol = {}
    /\ crossing = {}

PatrolStep(s, t) == patrol' = (patrol \ {s}) \union {t}

\* get_current_user reads the user, which starts the transaction.
Authenticate(r) ==
    /\ \A s \in patrol : s.by # r
    /\ opened < MaxOpened
    /\ opened' = opened + 1
    /\ patrol' = patrol \union {[by |-> r, at |-> opened + 1, step |-> "known", missed |-> {}]}
    /\ UNCHANGED <<safetyTables, crossing>>

Change(s, h, from, to) ==
    [by |-> s.by, at |-> s.at, step |-> "flushed", missed |-> s.missed,
     hazard |-> h, from |-> from, to |-> to]

\* create_hazard: the event goes out before the commit.
Report(s, h) ==
    /\ s.step = "known"
    /\ danger[h] = "none"
    /\ \A t \in patrol : t.step = "flushed" => t.hazard # h
    /\ reported' = reported \union {h}
    /\ PatrolStep(s, Change(s, h, "none", "reported"))
    /\ UNCHANGED <<opened, danger, stamps, trail, crossing>>

AllowedFrom(status) == IF status = "none" THEN {} ELSE _ALLOWED_TRANSITIONS[status]

\* transition_hazard, up to its flush.
BeginHazard(s, h, to) ==
    /\ s.step = "known"
    /\ to \in AllowedFrom(danger[h])
    /\ PatrolStep(s, Change(s, h, danger[h], to))
    /\ UNCHANGED <<opened, safetyTables, crossing>>

Stamp(to) == CASE to = "verified" -> {"rectified_at"}
               [] to = "closed"   -> {"closed_at"}
               [] OTHER           -> {}

\* Mutant: the log takes the status it was moved to for the one it came from.
MutantLogged(s) == [hazard |-> s.hazard, from |-> s.to, to |-> s.to, at |-> s.at]

Logged(s) == [hazard |-> s.hazard, from |-> s.from, to |-> s.to, at |-> s.at]

CommitHazard(s) ==
    /\ s.step = "flushed"
    /\ danger' = [danger EXCEPT ![s.hazard] = s.to]
    /\ stamps' = [stamps EXCEPT ![s.hazard] = @ \union Stamp(s.to)]
    /\ trail' = trail \union {Logged(s)}
    /\ crossing' = IF s.hazard \in s.missed THEN crossing \union {s.hazard} ELSE crossing
    /\ patrol' = {[t EXCEPT !.missed = @ \union {s.hazard}] : t \in patrol \ {s}}
    /\ UNCHANGED <<opened, reported>>

SafetyRollback(s) ==
    /\ patrol' = patrol \ {s}
    /\ UNCHANGED <<opened, safetyTables, crossing>>

SafetyNext ==
    \/ \E r \in SafetyReq : Authenticate(r)
    \/ \E s \in patrol, h \in Danger : Report(s, h)
    \/ \E s \in patrol, h \in Danger, to \in HazardStatus : BeginHazard(s, h, to)
    \/ \E s \in patrol : CommitHazard(s)
    \/ \E s \in patrol : SafetyRollback(s)

SafetySpec == SafetyInit /\ [][SafetyNext]_safetyVars

-----------------------------------------------------------------------------
\* get_audit_log
AuditLog(h) == {e \in trail : e.hazard = h}

\* Its rows before a given one, and the last row of some.
Before(e)     == {d \in AuditLog(e.hazard) : d.at < e.at}
IsLast(d, ds) == d \in ds /\ \A e \in ds : e.at <= d.at

\* What some rows of a hazard have brought it to.
LeadTo(ds, st) == IF ds = {} THEN st = "none" ELSE \E d \in ds : IsLast(d, ds) /\ d.to = st

\* The rows of hazards and of their log, and the requests at work on them.
SafetyTypeOK ==
    /\ opened \in 0 .. MaxOpened
    /\ danger \in [Danger -> HazardStatus \union {"none"}]
    /\ stamps \in [Danger -> SUBSET {"rectified_at", "closed_at"}]
    /\ trail \subseteq AuditRow
    /\ reported \subseteq Danger
    /\ \A s \in patrol : s.by \in SafetyReq /\ s.at \in 1 .. opened /\ s.missed \subseteq Danger
    /\ crossing \subseteq Danger

\* Read in the order of created_at, in which no two rows are equal, the audit
\* log tells how a hazard came to its status, each row starting where the one
\* before it ended, unless two requests that overlapped moved the hazard.
LogTellsHistory ==
    \A h \in Danger \ crossing :
        /\ \A d, e \in AuditLog(h) : d.at = e.at => d = e
        /\ \A e \in AuditLog(h) : LeadTo(Before(e), e.from)
        /\ LeadTo(AuditLog(h), danger[h])

\* A hazard that is closed has been rectified, whatever requests overlapped: a
\* status is read from a row that has passed through the one before it.
ClosedIsRectified ==
    \A h \in Danger : danger[h] = "closed" => stamps[h] = {"rectified_at", "closed_at"}

\* A hazard has come to its status on the way its log tells.
HazardsAreTold ==
    /\ SafetyTypeOK
    /\ LogTellsHistory
    /\ ClosedIsRectified
=============================================================================
