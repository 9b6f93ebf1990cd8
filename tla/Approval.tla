------------------------------- MODULE Approval -------------------------------
(***************************************************************************)
(* The linear approval workflow of the management lane                     *)
(* (services/approval.py, models/approval.py).                             *)
(*                                                                         *)
(* An instance has the steps its definition configures, each with one      *)
(* approver.  Approving the current step moves on to the next number or,   *)
(* at the last, approves the instance; rejecting a step rejects it; the    *)
(* initiator can withdraw it.  A request reads the instance, then its      *)
(* steps, and commits an UPDATE of the columns it changed; nothing tells   *)
(* it that the rows have changed meanwhile.                                *)
(***************************************************************************)
EXTENDS Integers, FiniteSets

CONSTANTS
    Req,       \* database sessions open at once
    User,      \* initiators and approvers
    Instance,  \* approval instances
    Config     \* configurations: functions from step numbers to approvers

\* ApprovalDefinitionCreate: at least one step, every step_no is ge=1.  Equal
\* numbers fail on uq_approval_steps_inst_no when an instance is submitted.
ASSUME ConfigAssumption ==
    \A c \in Config : /\ DOMAIN c \subseteq Nat \ {0}
                      /\ IsFiniteSet(DOMAIN c) /\ DOMAIN c # {}
                      /\ \A k \in DOMAIN c : c[k] \in User

VARIABLES
    status,     \* ApprovalInstance.status, "none" before it is submitted
    config,     \* the steps of an instance and their approvers
    initiator,  \* who has submitted it
    current,    \* ApprovalInstance.current_step
    step,       \* ApprovalStep.status of every step
    acting,     \* sessions inside act_on_approval
    approvals,  \* history: steps of which an approval has been committed
    stale       \* history: instances committed to over rows that had changed

vars == <<status, config, initiator, current, step, acting, approvals, stale>>

InstanceStatus == {"none", "pending", "approved", "rejected", "withdrawn"}
StepStatus     == {"waiting", "approved", "rejected"}
Finished       == {"approved", "rejected", "withdrawn"}

Steps(i) == DOMAIN config[i]
Total(i) == Cardinality(Steps(i))

NoSteps == [k \in {} |-> {}]

Free(r) == \A t \in acting : t.by # r

Init ==
    /\ status = [i \in Instance |-> "none"]
    /\ config = [i \in Instance |-> NoSteps]
    /\ initiator \in [Instance -> User]
    /\ current = [i \in Instance |-> 1]
    /\ step = [i \in Instance |-> NoSteps]
    /\ acting = {}
    /\ approvals = [i \in Instance |-> {}]
    /\ stale = {}

\* submit_approval: invisible to other sessions before its commit.
Submit(i, u, c) ==
    /\ status[i] = "none"
    /\ status' = [status EXCEPT ![i] = "pending"]
    /\ config' = [config EXCEPT ![i] = c]
    /\ initiator' = [initiator EXCEPT ![i] = u]
    /\ step' = [step EXCEPT ![i] = [k \in DOMAIN c |-> "waiting"]]
    /\ UNCHANGED <<current, acting, approvals, stale>>

-----------------------------------------------------------------------------
(* act_on_approval                                                           *)

MayAct(i, u, action) ==
    IF action = "withdraw"
    THEN u = initiator[i]
    ELSE current[i] \in Steps(i) /\ u = config[i][current[i]]

\* Mutant: the instance is not checked to be pending.
MutantOngoing(i) == status[i] # "none"

Ongoing(i) == status[i] = "pending"

Begin(r, i, u, action) ==
    /\ Free(r)
    /\ Ongoing(i)
    /\ MayAct(i, u, action)
    /\ acting' = acting \union
           {[by |-> r, inst |-> i, action |-> action, found |-> status[i],
             at |-> current[i], saw |-> "unread"]}
    /\ UNCHANGED <<status, config, initiator, current, step, approvals, stale>>

\* selectinload: the steps come with a second SELECT.
ReadSteps(t) ==
    /\ t.action # "withdraw"
    /\ t.saw = "unread"
    /\ acting' = (acting \ {t}) \union {[t EXCEPT !.saw = step[t.inst][t.at]]}
    /\ UNCHANGED <<status, config, initiator, current, step, approvals, stale>>

\* Mutant: the step before the last one completes the instance.
MutantLast(t) == t.at >= Total(t.inst) - 1

Last(t) == t.at >= Total(t.inst)

Verdict(t) == IF t.action = "approve" THEN "approved" ELSE "rejected"

\* Mutant: the verdict of the step is not stored.
MutantStamps(t) == FALSE

\* A status equal to the one read is not part of the UPDATE.
Stamps(t) == t.action # "withdraw" /\ t.saw # Verdict(t)

\* The instance is no longer as the session found it.
Changed(t) == status[t.inst] # t.found \/ current[t.inst] # t.at

Commit(t) ==
    LET i == t.inst
    IN  /\ t.action = "withdraw" \/ t.saw # "unread"
        /\ status' = [status EXCEPT ![i] =
               CASE t.action = "withdraw"             -> "withdrawn"
                 [] t.action = "reject"               -> "rejected"
                 [] t.action = "approve" /\ Last(t)  -> "approved"
                 [] t.action = "approve" /\ ~Last(t) -> @]
        /\ current' = [current EXCEPT ![i] =
               IF t.action = "approve" /\ ~Last(t) THEN t.at + 1 ELSE @]
        /\ step' = IF Stamps(t) THEN [step EXCEPT ![i][t.at] = Verdict(t)] ELSE step
        /\ approvals' = [approvals EXCEPT ![i] =
               IF t.action = "approve" THEN @ \union {t.at} ELSE @]
        /\ stale' = IF Changed(t) THEN stale \union {i} ELSE stale
        /\ acting' = acting \ {t}
        /\ UNCHANGED <<config, initiator>>

Rollback(t) ==
    /\ acting' = acting \ {t}
    /\ UNCHANGED <<status, config, initiator, current, step, approvals, stale>>

Next ==
    \/ \E i \in Instance, u \in User, c \in Config : Submit(i, u, c)
    \/ \E r \in Req, i \in Instance, u \in User,
          action \in {"approve", "reject", "withdraw"} : Begin(r, i, u, action)
    \/ \E t \in acting : ReadSteps(t)
    \/ \E t \in acting : Commit(t)
    \/ \E t \in acting : Rollback(t)

Spec == Init /\ [][Next]_vars

-----------------------------------------------------------------------------
Session == [by : Req, inst : Instance, action : {"approve", "reject", "withdraw"},
            found : InstanceStatus, at : Nat, saw : StepStatus \union {"unread"}]

\* The approval tables and the sessions working on them; a session acts on a
\* step that exists.
TypeOK ==
    /\ status \in [Instance -> InstanceStatus]
    /\ config \in [Instance -> Config \union {NoSteps}]
    /\ \A i \in Instance : status[i] # "none" => config[i] \in Config
    /\ initiator \in [Instance -> User]
    /\ current \in [Instance -> Nat \ {0}]
    /\ DOMAIN step = Instance
    /\ \A i \in Instance : step[i] \in [Steps(i) -> StepStatus]
    /\ acting \subseteq Session
    /\ \A t \in acting : /\ status[t.inst] # "none"
                         /\ t.action # "withdraw" => t.at \in Steps(t.inst)
    /\ approvals \in [Instance -> SUBSET Nat]
    /\ stale \subseteq Instance

\* No step is ever skipped: an instance that is approved has had an approval of
\* every one of its steps, however sessions overlapped on it and whatever the
\* numbers of its steps.
NoStepSkipped ==
    \A i \in Instance : status[i] = "approved" => Steps(i) \subseteq approvals[i]

\* The status of an instance follows from those of its steps unless sessions
\* overlapped on it: all passed up to the current one, which tells the verdict.
VerdictFromSteps ==
    \A i \in Instance \ stale :
        LET passed(n) == \A k \in Steps(i) : k < n => step[i][k] = "approved"
            open(n)   == \A k \in Steps(i) : k >= n => step[i][k] = "waiting"
        IN  CASE status[i] \in {"none", "pending", "withdrawn"} ->
                    passed(current[i]) /\ open(current[i])
              [] status[i] = "rejected" ->
                    /\ passed(current[i]) /\ open(current[i] + 1)
                    /\ step[i][current[i]] = "rejected"
              [] status[i] = "approved" -> passed(Total(i) + 1) /\ current[i] = Total(i)

\* An instance that is finished is changed by nobody who has not begun before
\* it was finished.
FinishedUnlessStale ==
    [][\A i \in Instance : status[i] \in Finished /\ status'[i] # status[i] =>
          i \in stale']_vars

\* A pending instance has a step to wait for, and so somebody to ask, as long as
\* the step numbers of its definition have no gap (nothing checks that).
PendingHasStep ==
    \A i \in Instance :
        (status[i] = "pending" /\ Steps(i) = 1..Total(i)) => current[i] \in Steps(i)

\* Inductive, and strong enough for NoStepSkipped: the steps below the current
\* one have been approved, and so they had been when a session read it; only
\* steps that exist are approved, so that passing as many as there are means
\* passing each.
PassedAreApproved ==
    /\ \A i \in Instance : 1..(current[i] - 1) \subseteq approvals[i]
    /\ \A t \in acting : 1..(t.at - 1) \subseteq approvals[t.inst]
    /\ \A i \in Instance : approvals[i] \subseteq Steps(i)
    /\ \A i \in Instance : status[i] = "none" => config[i] = NoSteps

\* What act_on_approval has checked.
FoundPending == \A t \in acting : t.found = "pending"

IInv == TypeOK /\ FoundPending /\ PassedAreApproved /\ NoStepSkipped

\* Inductive together with IInv: an instance starts at step 1 and moves on only
\* while the number of the step is below the number of steps.
CurrentInSteps ==
    /\ \A i \in Instance : status[i] = "none" => current[i] = 1
    /\ \A i \in Instance :
          (status[i] # "none" /\ Steps(i) = 1..Total(i)) => current[i] \in Steps(i)
=============================================================================
