-------------------------- MODULE ManagementProofs --------------------------
(***************************************************************************)
(* Theorems about modules Approval, Ledger, Payroll and KpiRollup for any  *)
(* number of sessions, users, instances, entries, bills, employees and     *)
(* tenants, any amounts and any wages.                                     *)
(*                                                                         *)
(* Approval: all numbers below the current step have been approved and     *)
(* only existing steps are, so that passing n numbers out of n steps means *)
(* that the steps are 1..n.                                                *)
(*                                                                         *)
(* KpiRollup: a rollup under way has dealt with all codes of its task that *)
(* are still to come or done, in a form that a commit of another one keeps *)
(* true.                                                                   *)
(*                                                                         *)
(* Ledger: an entry is posted with the next number of its month and with   *)
(* lines that balance; the statements are sums over the posted lines,      *)
(* which each entry that is added changes by the same amount on both       *)
(* sides.                                                                  *)
(*                                                                         *)
(* Payroll: wages computed and employees still to come divide the staff    *)
(* that was active, each with what the records say as long as nobody       *)
(* changes them.                                                           *)
(***************************************************************************)
EXTENDS Approval, Ledger, Payroll, KpiRollup, SumTheorems, SequenceTheorems

\* Counting argument: n numbers 1..n taken from a finite set of at most n are
\* the whole of it.
LEMMA AllTaken ==
    ASSUME NEW S, IsFiniteSet(S), NEW n \in Nat, 1..n \subseteq S, n >= Cardinality(S)
    PROVE  S = 1..n
  <1>1. IsFiniteSet(1..n) /\ Cardinality(1..n) = n
    BY FS_Interval
  <1>2. Cardinality(S) \in Nat
    BY FS_CardinalityType
  <1>3. Cardinality(1..n) <= Cardinality(S)
    BY FS_Subset
  <1>4. Cardinality(1..n) = Cardinality(S)
    BY <1>1, <1>2, <1>3
  <1> QED BY <1>4, FS_Subset

LEMMA InitHolds == Init => IInv
  <1> SUFFICES ASSUME Init PROVE IInv
    OBVIOUS
  <1>1. \A i \in Instance : Steps(i) = {} /\ step[i] = NoSteps
    BY DEF Init, Steps, NoSteps
  <1>2. NoSteps \in [{} -> StepStatus]
    BY DEF NoSteps
  <1>3. TypeOK
    BY <1>1, <1>2 DEF Init, TypeOK, InstanceStatus, Session
  <1>4. PassedAreApproved /\ FoundPending
    BY DEF Init, PassedAreApproved, FoundPending
  <1>5. NoStepSkipped
    BY DEF Init, NoStepSkipped
  <1> QED BY <1>3, <1>4, <1>5 DEF IInv

LEMMA SubmitKeeps ==
    ASSUME IInv, NEW i \in Instance, NEW u \in User, NEW c \in Config, Submit(i, u, c)
    PROVE  IInv'
  <1>1. /\ status' = [status EXCEPT ![i] = "pending"]
        /\ config' = [config EXCEPT ![i] = c]
        /\ initiator' = [initiator EXCEPT ![i] = u]
        /\ step' = [step EXCEPT ![i] = [k \in DOMAIN c |-> "waiting"]]
        /\ status[i] = "none"
        /\ current' = current /\ acting' = acting
        /\ approvals' = approvals /\ stale' = stale
    BY DEF Submit
  <1>2. TypeOK /\ PassedAreApproved /\ NoStepSkipped
    BY DEF IInv
  <1>3. Steps(i) = {} /\ approvals[i] = {}
    BY <1>1, <1>2 DEF PassedAreApproved, Steps, NoSteps
  <1>4. ASSUME NEW j \in Instance, j # i
        PROVE  /\ config'[j] = config[j] /\ step'[j] = step[j]
               /\ status'[j] = status[j] /\ Steps(j)' = Steps(j)
    BY <1>1, <1>2, <1>4 DEF TypeOK, Steps
  <1>5. config'[i] = c /\ Steps(i)' = DOMAIN c /\ status'[i] = "pending"
    BY <1>1, <1>2 DEF TypeOK, Steps
  <1>6. TypeOK'
    <2>1. /\ status' \in [Instance -> InstanceStatus]
          /\ config' \in [Instance -> Config \union {NoSteps}]
          /\ initiator' \in [Instance -> User]
          /\ DOMAIN step' = Instance
      BY <1>1, <1>2 DEF TypeOK, InstanceStatus
    <2>2. \A j \in Instance : status'[j] # "none" => config'[j] \in Config
      BY <1>2, <1>4, <1>5 DEF TypeOK
    <2>3. \A j \in Instance : step'[j] \in [Steps(j)' -> StepStatus]
      <3>1. step'[i] = [k \in DOMAIN c |-> "waiting"]
        BY <1>1, <1>2 DEF TypeOK
      <3>2. step'[i] \in [DOMAIN c -> StepStatus]
        BY <3>1 DEF StepStatus
      <3> QED BY <1>2, <1>4, <1>5, <3>2 DEF TypeOK
    <2>4. \A t \in acting : /\ status'[t.inst] # "none"
                            /\ t.action # "withdraw" => t.at \in Steps(t.inst)'
      BY <1>1, <1>2, <1>4 DEF TypeOK, Session
    <2> QED BY <1>1, <1>2, <2>1, <2>2, <2>3, <2>4 DEF TypeOK
  <1>7. PassedAreApproved'
    BY <1>1, <1>2, <1>3, <1>4, <1>5 DEF PassedAreApproved
  <1>8. NoStepSkipped'
    BY <1>1, <1>2, <1>4, <1>5 DEF NoStepSkipped
  <1>9. FoundPending'
    BY <1>1 DEF IInv, FoundPending
  <1> QED BY <1>6, <1>7, <1>8, <1>9 DEF IInv

LEMMA BeginKeeps ==
    ASSUME IInv, NEW r \in Req, NEW i \in Instance, NEW u \in User,
           NEW action \in {"approve", "reject", "withdraw"}, Begin(r, i, u, action)
    PROVE  IInv'
  <1> DEFINE t == [by |-> r, inst |-> i, action |-> action, found |-> status[i],
                   at |-> current[i], saw |-> "unread"]
  <1>1. /\ acting' = acting \union {t}
        /\ status[i] = "pending"
        /\ action # "withdraw" => current[i] \in Steps(i)
        /\ UNCHANGED <<status, config, initiator, current, step, approvals, stale>>
    BY DEF Begin, MayAct, Ongoing
  <1>2. t \in Session
    BY DEF IInv, TypeOK, Session
  <1>3. TypeOK'
    BY <1>1, <1>2 DEF IInv, TypeOK, Steps
  <1>4. PassedAreApproved'
    BY <1>1 DEF IInv, PassedAreApproved, Steps
  <1>5. NoStepSkipped'
    BY <1>1 DEF IInv, NoStepSkipped, Steps
  <1>6. FoundPending'
    BY <1>1 DEF IInv, FoundPending
  <1> QED BY <1>3, <1>4, <1>5, <1>6 DEF IInv

LEMMA ReadStepsKeeps ==
    ASSUME IInv, NEW t \in acting, ReadSteps(t)
    PROVE  IInv'
  <1> DEFINE read == [t EXCEPT !.saw = step[t.inst][t.at]]
  <1>1. /\ acting' = (acting \ {t}) \union {read}
        /\ t.action # "withdraw"
        /\ UNCHANGED <<status, config, initiator, current, step, approvals, stale>>
    BY DEF ReadSteps
  <1>2. t \in Session /\ t.at \in Steps(t.inst) /\ t.inst \in Instance
    BY <1>1 DEF IInv, TypeOK, Session
  <1>3. step[t.inst][t.at] \in StepStatus
    BY <1>2 DEF IInv, TypeOK
  <1>4. /\ read \in Session /\ read.inst = t.inst /\ read.at = t.at
        /\ read.action = t.action /\ read.found = t.found
    BY <1>2, <1>3 DEF Session
  <1>5. TypeOK'
    BY <1>1, <1>2, <1>4 DEF IInv, TypeOK, Steps
  <1>6. PassedAreApproved'
    BY <1>1, <1>4 DEF IInv, PassedAreApproved, Steps
  <1>7. NoStepSkipped'
    BY <1>1 DEF IInv, NoStepSkipped, Steps
  <1>8. FoundPending'
    BY <1>1, <1>2, <1>4 DEF IInv, FoundPending
  <1> QED BY <1>5, <1>6, <1>7, <1>8 DEF IInv

LEMMA CommitKeeps ==
    ASSUME IInv, NEW t \in acting, Commit(t)
    PROVE  IInv'
  <1> DEFINE i == t.inst
             next == IF t.action = "approve" /\ ~Last(t) THEN t.at + 1 ELSE current[i]
             passed == IF t.action = "approve" THEN approvals[i] \union {t.at}
                                               ELSE approvals[i]
  <1>1. /\ t \in Session /\ i \in Instance /\ t.at \in Nat
        /\ t.action \in {"approve", "reject", "withdraw"}
        /\ t.action # "withdraw" => t.at \in Steps(i)
        /\ status[i] # "none" /\ config[i] \in Config
    BY DEF IInv, TypeOK, Session
  <1>2. TypeOK /\ PassedAreApproved /\ NoStepSkipped
    BY DEF IInv
  <1>3. /\ current' = [current EXCEPT ![i] = next]
        /\ approvals' = [approvals EXCEPT ![i] = passed]
        /\ step' = IF Stamps(t) THEN [step EXCEPT ![i][t.at] = Verdict(t)] ELSE step
        /\ acting' = acting \ {t}
        /\ config' = config /\ initiator' = initiator
        /\ stale' \in {stale, stale \union {i}}
    BY <1>2 DEF Commit, TypeOK
  <1>4. /\ \A j \in Instance \ {i} : status'[j] = status[j]
        /\ status'[i] = CASE t.action = "withdraw"             -> "withdrawn"
                          [] t.action = "reject"               -> "rejected"
                          [] t.action = "approve" /\ Last(t)  -> "approved"
                          [] t.action = "approve" /\ ~Last(t) -> status[i]
        /\ DOMAIN status' = Instance
        /\ status' = [j \in Instance |-> status'[j]]
    BY <1>1, <1>2 DEF Commit, TypeOK
  <1>5. status'[i] \in InstanceStatus \ {"none"}
    BY <1>1, <1>2, <1>4 DEF TypeOK, InstanceStatus
  <1>6. \A j \in Instance : Steps(j)' = Steps(j)
    BY <1>3 DEF Steps
  <1>7. Steps(i) \subseteq Nat \ {0} /\ IsFiniteSet(Steps(i))
    BY <1>1, ConfigAssumption DEF Steps
  <1>8. TypeOK'
    <2>1. status' \in [Instance -> InstanceStatus]
      BY <1>2, <1>4, <1>5 DEF TypeOK
    <2>2. current' \in [Instance -> Nat \ {0}]
      BY <1>1, <1>2, <1>3 DEF TypeOK
    <2>3. approvals' \in [Instance -> SUBSET Nat]
      BY <1>1, <1>2, <1>3 DEF TypeOK
    <2>4. DOMAIN step' = Instance /\ \A j \in Instance : step'[j] \in [Steps(j) -> StepStatus]
      <3>1. CASE ~Stamps(t)
        BY <1>2, <1>3, <3>1 DEF TypeOK
      <3>2. CASE Stamps(t)
        <4>1. Verdict(t) \in StepStatus
          BY DEF Verdict, StepStatus
        <4>2. step' = [step EXCEPT ![i] = [step[i] EXCEPT ![t.at] = Verdict(t)]]
          BY <1>3, <3>2
        <4>3. [step[i] EXCEPT ![t.at] = Verdict(t)] \in [Steps(i) -> StepStatus]
          BY <1>1, <1>2, <4>1 DEF TypeOK
        <4> QED BY <1>1, <1>2, <4>2, <4>3 DEF TypeOK
      <3> QED BY <3>1, <3>2
    <2>5. \A j \in Instance : status'[j] # "none" => config'[j] \in Config
      BY <1>1, <1>2, <1>3, <1>4 DEF TypeOK
    <2>6. \A s \in acting' : status'[s.inst] # "none"
      BY <1>2, <1>3, <1>4, <1>5 DEF TypeOK, Session
    <2>7. \A s \in acting' : s.action # "withdraw" => s.at \in Steps(s.inst)'
      BY <1>3, <1>2 DEF TypeOK, Steps
    <2>8. acting' \subseteq Session /\ stale' \subseteq Instance
      BY <1>1, <1>2, <1>3 DEF TypeOK
    <2>9. /\ config' \in [Instance -> Config \union {NoSteps}]
          /\ initiator' \in [Instance -> User]
      BY <1>2, <1>3 DEF TypeOK
    <2>10. \A j \in Instance : step'[j] \in [Steps(j)' -> StepStatus]
      BY <1>6, <2>4
    <2> QED BY <2>1, <2>2, <2>3, <2>4, <2>5, <2>6, <2>7, <2>8, <2>9, <2>10 DEF TypeOK
  <1>9. passed \subseteq Steps(i) /\ approvals[i] \subseteq passed
    BY <1>1, <1>2 DEF PassedAreApproved
  <1>10. t.action = "approve" => 1..t.at \subseteq passed
    BY <1>1, <1>2 DEF PassedAreApproved
  <1>11. /\ approvals'[i] = passed /\ current'[i] = next
         /\ \A j \in Instance \ {i} : approvals'[j] = approvals[j] /\ current'[j] = current[j]
    BY <1>1, <1>2, <1>3 DEF TypeOK
  <1>12. PassedAreApproved'
    <2>1. 1..(next - 1) \subseteq passed
      BY <1>1, <1>2, <1>9, <1>10 DEF PassedAreApproved, TypeOK
    <2>2. \A j \in Instance : 1..(current'[j] - 1) \subseteq approvals'[j]
      BY <1>2, <1>11, <2>1 DEF PassedAreApproved
    <2>3. \A s \in acting' : 1..(s.at - 1) \subseteq approvals'[s.inst]
      BY <1>2, <1>3, <1>9, <1>11 DEF PassedAreApproved, TypeOK, Session
    <2>4. \A j \in Instance : approvals'[j] \subseteq Steps(j)'
      BY <1>2, <1>6, <1>9, <1>11 DEF PassedAreApproved
    <2>5. \A j \in Instance : status'[j] = "none" => config'[j] = NoSteps
      BY <1>2, <1>3, <1>4, <1>5 DEF PassedAreApproved
    <2> QED BY <2>2, <2>3, <2>4, <2>5 DEF PassedAreApproved
  <1>13. NoStepSkipped'
    <2> SUFFICES ASSUME NEW j \in Instance, status'[j] = "approved"
                 PROVE  Steps(j) \subseteq approvals'[j]
      BY <1>6 DEF NoStepSkipped
    <2>1. CASE j # i
      BY <1>2, <1>4, <1>11, <2>1 DEF NoStepSkipped
    <2>2. CASE j = i /\ status[i] = "approved"
      BY <1>2, <1>9, <1>11, <2>2 DEF NoStepSkipped
    <2>3. CASE j = i /\ status[i] # "approved"
      <3>1. t.action = "approve" /\ Last(t)
        BY <1>1, <1>4, <2>3
      <3>2. 1..t.at \subseteq Steps(i) /\ t.at >= Cardinality(Steps(i))
        BY <1>9, <1>10, <3>1 DEF Last, Total
      <3>3. Steps(i) = 1..t.at
        BY <1>1, <1>7, <3>2, AllTaken
      <3> QED BY <1>10, <1>11, <2>3, <3>1, <3>3
    <2> QED BY <2>1, <2>2, <2>3
  <1>14. FoundPending'
    BY <1>3 DEF IInv, FoundPending
  <1> QED BY <1>8, <1>12, <1>13, <1>14 DEF IInv

\* Every step of the workflow engine keeps the inductive invariant.
LEMMA NextKeeps == IInv /\ [Next]_vars => IInv'
  <1> SUFFICES ASSUME IInv, [Next]_vars PROVE IInv'
    OBVIOUS
  <1>1. ASSUME NEW t \in acting, Rollback(t) PROVE IInv'
    BY <1>1 DEF Rollback, IInv, TypeOK, FoundPending, PassedAreApproved, NoStepSkipped, Steps
  <1>2. CASE UNCHANGED vars
    BY <1>2 DEF vars, IInv, TypeOK, FoundPending, PassedAreApproved, NoStepSkipped, Steps
  <1> QED
    BY <1>1, <1>2, SubmitKeeps, BeginKeeps, ReadStepsKeeps, CommitKeeps DEF Next

\* The tables stay well typed, and a session only acts on a step that exists.
THEOREM ApprovalTypeCorrect == Spec => []TypeOK
  <1>1. IInv => TypeOK
    BY DEF IInv
  <1> QED BY <1>1, InitHolds, NextKeeps, PTL DEF Spec

\* An instance is approved only after each of its steps has been approved, for
\* any interleaving of the approvers and any configured step numbers.
THEOREM EveryStepApproved == Spec => []NoStepSkipped
  <1>1. IInv => NoStepSkipped
    BY DEF IInv
  <1> QED BY <1>1, InitHolds, NextKeeps, PTL DEF Spec

-----------------------------------------------------------------------------
LEMMA CurrentKept == IInv /\ CurrentInSteps /\ [Next]_vars => CurrentInSteps'
  <1> SUFFICES ASSUME IInv, CurrentInSteps, [Next]_vars PROVE CurrentInSteps'
    OBVIOUS
  <1>1. ASSUME NEW i \in Instance, NEW u \in User, NEW c \in Config, Submit(i, u, c)
        PROVE  CurrentInSteps'
    <2>1. /\ current' = current /\ current[i] = 1 /\ status'[i] = "pending"
          /\ config'[i] = c
          /\ \A j \in Instance : j # i => status'[j] = status[j] /\ config'[j] = config[j]
      BY <1>1 DEF Submit, IInv, TypeOK, CurrentInSteps
    <2>2. \A j \in Instance : j # i => Steps(j)' = Steps(j) /\ Total(j)' = Total(j)
      BY <2>1 DEF Steps, Total
    <2>3. Steps(i)' = DOMAIN c /\ DOMAIN c # {} /\ IsFiniteSet(DOMAIN c)
      BY <2>1, ConfigAssumption DEF Steps
    <2>4. Steps(i)' = 1..Total(i)' => 1 \in Steps(i)'
      <3>1. Total(i)' \in Nat
        BY <2>3, FS_CardinalityType DEF Total
      <3> QED BY <2>3, <3>1
    <2> QED BY <2>1, <2>2, <2>4 DEF CurrentInSteps
  <1>2. ASSUME NEW t \in acting, Commit(t) PROVE CurrentInSteps'
    <2> DEFINE i == t.inst
               next == IF t.action = "approve" /\ ~Last(t) THEN t.at + 1 ELSE current[i]
    <2>1. /\ i \in Instance /\ t.at \in Nat /\ status[i] # "none"
          /\ t.action # "withdraw" => t.at \in Steps(i)
          /\ config[i] \in Config
      BY DEF IInv, TypeOK, Session
    <2>2. /\ current'[i] = next
          /\ \A j \in Instance : j # i => current'[j] = current[j] /\ status'[j] = status[j]
          /\ config' = config
      BY <1>2, <2>1 DEF Commit, IInv, TypeOK
    <2>3. \A j \in Instance : Steps(j)' = Steps(j) /\ Total(j)' = Total(j)
      BY <2>2 DEF Steps, Total
    <2>4. status'[i] # "none"
      BY <1>2, <2>1 DEF Commit, IInv, TypeOK, Session
    <2>5. Total(i) \in Nat
      BY <2>1, ConfigAssumption, FS_CardinalityType DEF Total, Steps
    <2>6. Steps(i) = 1..Total(i) => next \in Steps(i)
      <3>1. CASE t.action = "approve" /\ ~Last(t)
        <4>1. t.at \in Steps(i) /\ ~(t.at >= Total(i)) /\ next = t.at + 1
          BY <2>1, <3>1 DEF Last
        <4> QED BY <2>1, <2>5, <4>1
      <3>2. CASE ~(t.action = "approve" /\ ~Last(t))
        BY <2>1, <3>2 DEF CurrentInSteps
      <3> QED BY <3>1, <3>2
    <2> QED BY <2>1, <2>2, <2>3, <2>4, <2>6 DEF CurrentInSteps
  <1>3. CASE UNCHANGED <<status, config, current>>
    BY <1>3 DEF CurrentInSteps, Steps, Total
  <1> QED BY <1>1, <1>2, <1>3 DEF Next, Begin, ReadSteps, Rollback, vars

\* With step numbers that have no gap, an instance never waits for a step, and
\* an approver, that is not there, however the sessions overlap.
THEOREM PendingAsksSomebody == Spec => []PendingHasStep
  <1>1. Init => CurrentInSteps
    BY DEF Init, CurrentInSteps
  <1>2. CurrentInSteps => PendingHasStep
    BY DEF CurrentInSteps, PendingHasStep
  <1> QED BY <1>1, <1>2, InitHolds, NextKeeps, CurrentKept, PTL DEF Spec

\* Nobody but a session that had begun before changes a finished instance.
THEOREM FinishedIsFinal == Spec => FinishedUnlessStale
  <1> DEFINE Final == \A i \in Instance :
                 status[i] \in Finished /\ status'[i] # status[i] => i \in stale'
  <1>1. IInv /\ [Next]_vars => [Final]_vars
    <2> SUFFICES ASSUME IInv, [Next]_vars, NEW i \in Instance,
                        status[i] \in Finished, status'[i] # status[i]
                 PROVE  i \in stale'
      OBVIOUS
    <2>1. ASSUME NEW t \in acting, Commit(t) PROVE i \in stale'
      <3>1. t.inst = i
        BY <2>1 DEF Commit, IInv, TypeOK
      <3>2. Changed(t)
        BY <3>1 DEF Changed, Finished, IInv, FoundPending
      <3> QED BY <2>1, <3>1, <3>2 DEF Commit
    <2>2. ASSUME NEW j \in Instance, NEW u \in User, NEW c \in Config, Submit(j, u, c)
          PROVE  i \in stale'
      BY <2>2 DEF Submit, Finished, IInv, TypeOK
    <2> QED BY <2>1, <2>2 DEF Next, Begin, ReadSteps, Rollback, vars
  <1> QED BY <1>1, InitHolds, NextKeeps, PTL DEF Spec, FinishedUnlessStale

-----------------------------------------------------------------------------
(* The verdict follows from the steps.  On an instance no two sessions       *)
(* overlapped on, a session that still finds it as it was has also read its  *)
(* step as it is, so that the verdict it stamps is written.                  *)

Passed(i, n) == \A k \in Steps(i) : k < n => step[i][k] = "approved"
Open(i, n)   == \A k \in Steps(i) : k >= n => step[i][k] = "waiting"

Follows(i) ==
    /\ status[i] \in {"none", "pending", "withdrawn"} => Passed(i, current[i]) /\ Open(i, current[i])
    /\ status[i] = "rejected" => /\ Passed(i, current[i]) /\ Open(i, current[i] + 1)
                                 /\ step[i][current[i]] = "rejected"
    /\ status[i] = "approved" => Passed(i, Total(i) + 1) /\ current[i] = Total(i)

SawAsItIs(t) ==
    t.inst \notin stale =>
        /\ t.at <= current[t.inst]
        /\ (status[t.inst] = "pending" /\ current[t.inst] = t.at /\ t.saw # "unread") =>
              t.saw = step[t.inst][t.at]

VInv ==
    /\ \A i \in Instance \ stale : Follows(i)
    /\ \A t \in acting : SawAsItIs(t)

LEMMA FollowsIsVerdict ==
    ASSUME TypeOK, \A i \in Instance \ stale : Follows(i)
    PROVE  VerdictFromSteps
  <1> SUFFICES ASSUME NEW i \in Instance \ stale
               PROVE  CASE status[i] \in {"none", "pending", "withdrawn"} ->
                               Passed(i, current[i]) /\ Open(i, current[i])
                        [] status[i] = "rejected" ->
                               /\ Passed(i, current[i]) /\ Open(i, current[i] + 1)
                               /\ step[i][current[i]] = "rejected"
                        [] status[i] = "approved" ->
                               Passed(i, Total(i) + 1) /\ current[i] = Total(i)
    BY DEF VerdictFromSteps, Passed, Open
  <1>1. Follows(i)
    OBVIOUS
  <1>2. status[i] \in InstanceStatus
    BY DEF TypeOK
  <1> QED BY <1>1, <1>2 DEF Follows, InstanceStatus

\* An instance of which no row has changed.
LEMMA SameInstance ==
    ASSUME NEW i, status'[i] = status[i], current'[i] = current[i],
           config'[i] = config[i], step'[i] = step[i]
    PROVE  /\ Follows(i) => Follows(i)'
           /\ \A t \in acting : (t.inst = i /\ stale \subseteq stale' /\ SawAsItIs(t)) => SawAsItIs(t)'
  <1>1. Steps(i)' = Steps(i) /\ Total(i)' = Total(i)
    BY DEF Steps, Total
  <1> QED BY <1>1 DEF Follows, Passed, Open, SawAsItIs

LEMMA SubmitFollows ==
    ASSUME IInv, CurrentInSteps, VInv, NEW i \in Instance, NEW u \in User, NEW c \in Config,
           Submit(i, u, c)
    PROVE  VInv'
  <1>1. /\ status[i] = "none" /\ status'[i] = "pending" /\ config'[i] = c
        /\ step'[i] = [k \in DOMAIN c |-> "waiting"]
        /\ \A j \in Instance \ {i} : /\ status'[j] = status[j] /\ config'[j] = config[j]
                                     /\ step'[j] = step[j]
        /\ current' = current /\ acting' = acting /\ stale' = stale
    BY DEF Submit, IInv, TypeOK
  <1>2. current[i] = 1 /\ Steps(i)' = DOMAIN c /\ DOMAIN c \subseteq Nat \ {0}
    BY <1>1, ConfigAssumption DEF CurrentInSteps, Steps
  <1>3. Follows(i)'
    BY <1>1, <1>2 DEF Follows, Passed, Open
  <1>4. \A t \in acting : t.inst \in Instance \ {i}
    BY <1>1 DEF IInv, TypeOK, Session
  <1> QED BY <1>1, <1>3, <1>4, SameInstance DEF VInv

LEMMA CommitFollows ==
    ASSUME IInv, VInv, NEW t \in acting, Commit(t)
    PROVE  VInv'
  <1>1. PICK i \in Instance : i = t.inst
    BY DEF IInv, TypeOK, Session
  <1>2. /\ t \in Session /\ t.at \in Nat /\ t.found = "pending"
        /\ t.action \in {"approve", "reject", "withdraw"}
        /\ t.action # "withdraw" => t.at \in Steps(i) /\ t.saw # "unread"
        /\ config[i] \in Config
    BY <1>1 DEF IInv, TypeOK, Session, FoundPending, Commit
  <1>3. /\ \A j \in Instance \ {i} : /\ status'[j] = status[j] /\ current'[j] = current[j]
                                     /\ config'[j] = config[j] /\ step'[j] = step[j]
        /\ config' = config /\ acting' = acting \ {t} /\ stale \subseteq stale'
        /\ i \notin stale' => ~Changed(t)
    BY <1>1 DEF Commit, IInv, TypeOK
  <1>4. \A u \in acting : u.inst \in Instance
    BY DEF IInv, TypeOK, Session
  <1>5. CASE i \in stale'
    <2>1. \A j \in Instance \ stale' : Follows(j)'
      BY <1>3, <1>5, SameInstance DEF VInv
    <2>2. \A u \in acting' : SawAsItIs(u)'
      <3> SUFFICES ASSUME NEW u \in acting PROVE SawAsItIs(u)'
        BY <1>3
      <3>1. CASE u.inst = i
        BY <1>5, <3>1 DEF SawAsItIs
      <3>2. CASE u.inst # i
        BY <1>3, <1>4, <3>2, SameInstance DEF VInv
      <3> QED BY <3>1, <3>2
    <2> QED BY <2>1, <2>2 DEF VInv
  <1>6. CASE i \notin stale'
    <2>1. /\ i \notin stale /\ status[i] = "pending" /\ current[i] = t.at
          /\ Passed(i, t.at) /\ Open(i, t.at)
      BY <1>1, <1>2, <1>3, <1>6 DEF Changed, VInv, Follows
    <2>2. Steps(i) \subseteq Nat \ {0} /\ IsFiniteSet(Steps(i)) /\ Steps(i)' = Steps(i)
      BY <1>2, <1>3, ConfigAssumption DEF Steps
    <2>3. ASSUME t.action # "withdraw"
          PROVE  /\ step'[i][t.at] = Verdict(t)
                 /\ \A k \in Steps(i) \ {t.at} : step'[i][k] = step[i][k]
      <3>1. t.saw = "waiting"
        BY <1>1, <1>2, <2>1, <2>2, <2>3 DEF VInv, SawAsItIs, Open
      <3>2. Stamps(t)
        BY <2>3, <3>1 DEF Stamps, Verdict
      <3>3. step[i] \in [Steps(i) -> StepStatus] /\ DOMAIN step = Instance
        BY DEF IInv, TypeOK
      <3>4. step' = [step EXCEPT ![i] = [step[i] EXCEPT ![t.at] = Verdict(t)]]
        BY <1>1, <3>2 DEF Commit
      <3> QED BY <1>2, <2>3, <3>3, <3>4
    <2>4. /\ current'[i] = IF t.action = "approve" /\ ~Last(t) THEN t.at + 1 ELSE t.at
          /\ t.action = "withdraw" => status'[i] = "withdrawn" /\ step'[i] = step[i]
          /\ t.action = "reject" => status'[i] = "rejected"
          /\ t.action = "approve" /\ Last(t) => status'[i] = "approved"
          /\ t.action = "approve" /\ ~Last(t) => status'[i] = "pending"
      BY <1>1, <2>1 DEF Commit, IInv, TypeOK, Stamps
    <2>5. Follows(i)'
      <3>1. CASE t.action = "withdraw"
        BY <2>1, <2>2, <2>4, <3>1 DEF Follows, Passed, Open
      <3>2. CASE t.action = "reject"
        BY <1>2, <2>1, <2>2, <2>3, <2>4, <3>2 DEF Follows, Passed, Open, Verdict
      <3>3. CASE t.action = "approve" /\ ~Last(t)
        BY <1>2, <2>1, <2>2, <2>3, <2>4, <3>3 DEF Follows, Passed, Open, Verdict
      <3>4. CASE t.action = "approve" /\ Last(t)
        <4>1. 1..t.at \subseteq Steps(i)
          BY <1>1, <1>2, <2>2, <3>4 DEF IInv, PassedAreApproved
        <4>2. t.at >= Cardinality(Steps(i))
          BY <1>1, <3>4 DEF Last, Total
        <4>3. Steps(i) = 1..t.at
          BY <1>2, <2>2, <4>1, <4>2, AllTaken
        <4>4. Total(i)' = t.at
          BY <1>2, <2>2, <4>3, FS_Interval DEF Total
        <4> QED BY <1>2, <2>1, <2>2, <2>3, <2>4, <3>4, <4>3, <4>4 DEF Follows, Passed, Verdict
      <3> QED BY <1>2, <3>1, <3>2, <3>3, <3>4
    <2>6. \A j \in Instance \ stale' : Follows(j)'
      BY <1>3, <2>5, SameInstance DEF VInv
    <2>7. \A u \in acting' : SawAsItIs(u)'
      <3> SUFFICES ASSUME NEW u \in acting PROVE SawAsItIs(u)'
        BY <1>3
      <3>1. CASE u.inst = i
        <4>1. u.at <= t.at /\ u.at \in Nat
          BY <2>1, <3>1 DEF VInv, SawAsItIs, IInv, TypeOK, Session
        <4>2. t.at <= current'[i] /\ (status'[i] = "pending" => current'[i] = t.at + 1)
          BY <1>2, <2>4
        <4>3. u.at <= current'[i] /\ (status'[i] = "pending" => current'[i] # u.at)
          BY <1>2, <2>4, <4>1, <4>2
        <4> QED BY <3>1, <4>3 DEF SawAsItIs
      <3>2. CASE u.inst # i
        BY <1>3, <1>4, <3>2, SameInstance DEF VInv
      <3> QED BY <3>1, <3>2
    <2> QED BY <2>6, <2>7 DEF VInv
  <1> QED BY <1>5, <1>6

LEMMA VerdictKept == IInv /\ CurrentInSteps /\ VInv /\ [Next]_vars => VInv'
  <1> SUFFICES ASSUME IInv, CurrentInSteps, VInv, [Next]_vars PROVE VInv'
    OBVIOUS
  <1>1. ASSUME UNCHANGED <<status, config, current, step, stale>>,
               \A t \in acting' : t \in acting \/ SawAsItIs(t)
        PROVE  VInv'
    <2>1. \A i \in Instance \ stale' : Follows(i)'
      BY <1>1, SameInstance DEF VInv
    <2>2. \A t \in acting' : SawAsItIs(t)'
      BY <1>1 DEF VInv, SawAsItIs
    <2> QED BY <2>1, <2>2 DEF VInv
  <1>2. ASSUME NEW r \in Req, NEW i \in Instance, NEW u \in User,
               NEW action \in {"approve", "reject", "withdraw"}, Begin(r, i, u, action)
        PROVE  VInv'
    <2> DEFINE t == [by |-> r, inst |-> i, action |-> action, found |-> status[i],
                     at |-> current[i], saw |-> "unread"]
    <2>1. SawAsItIs(t)
      BY DEF SawAsItIs, IInv, TypeOK
    <2>2. acting' = acting \union {t} /\ UNCHANGED <<status, config, current, step, stale>>
      BY <1>2 DEF Begin
    <2> QED BY <1>1, <2>1, <2>2
  <1>3. ASSUME NEW t \in acting, ReadSteps(t) PROVE VInv'
    <2>1. t \in Session /\ SawAsItIs(t)
      BY DEF IInv, TypeOK, VInv
    <2>2. SawAsItIs([t EXCEPT !.saw = step[t.inst][t.at]])
      BY <2>1 DEF SawAsItIs, Session
    <2>3. /\ acting' = (acting \ {t}) \union {[t EXCEPT !.saw = step[t.inst][t.at]]}
          /\ UNCHANGED <<status, config, current, step, stale>>
      BY <1>3 DEF ReadSteps
    <2> QED BY <1>1, <2>2, <2>3
  <1>4. ASSUME NEW t \in acting, Rollback(t) PROVE VInv'
    BY <1>1, <1>4 DEF Rollback
  <1>5. CASE UNCHANGED vars
    BY <1>1, <1>5 DEF vars
  <1> QED BY <1>2, <1>3, <1>4, <1>5, SubmitFollows, CommitFollows DEF Next

\* As long as no two sessions overlap on an instance its status follows from
\* its steps: act_on_approval stamps the step whose verdict it takes over.
THEOREM VerdictHolds == Spec => []VerdictFromSteps
  <1>1. Init => VInv
    BY DEF Init, VInv, Follows, Passed, Open, Steps, NoSteps
  <1>2. Init => CurrentInSteps
    BY DEF Init, CurrentInSteps
  <1>3. IInv /\ VInv => VerdictFromSteps
    BY FollowsIsVerdict DEF IInv, VInv
  <1> QED BY <1>1, <1>2, <1>3, InitHolds, NextKeeps, CurrentKept, VerdictKept, PTL DEF Spec

-----------------------------------------------------------------------------
(* KPI rollups and the worker: module KpiRollup. OnTask says of a session  *)
(* which codes of its task it has written, found or still has to write,    *)
(* and PassOK of the pass of the worker which tenants it has done.         *)

CodesIn(q) == {q[i] : i \in DOMAIN q}

Figure == 0 .. MaxMoves

RollingRow ==
    [by : Trigger \union {"worker"}, tenant : Tenant, codes : Seq(Codes), saw : -1 .. MaxMoves,
     figure : -1 .. MaxMoves, written : UNION {[D -> Figure] : D \in SUBSET Codes}]

PassRow == [task : DOMAIN Task \union {"none"}, left : SUBSET Tenant, listed : SUBSET Tenant,
            done : SUBSET Tenant, failed : SUBSET Tenant]

\* A point the session will leave behind: written by itself or there already.
Behind(s, c) == c \in DOMAIN s.written \/ point[s.tenant][c] # -1

\* A rollup under way has dealt with the codes of its task that are not to come.
OnTask(s, task) ==
    /\ DOMAIN s.written \subseteq CodesOf(task)
    /\ CodesIn(s.codes) \subseteq CodesOf(task)
    /\ \A c \in CodesOf(task) \ CodesIn(s.codes) : Behind(s, c)
    /\ s.by = "worker" => task = pass.task

RollingOK(s) ==
    /\ s \in RollingRow
    /\ \E task \in DOMAIN Task : OnTask(s, task)
    /\ s.saw # -1 => s.codes # <<>> /\ Behind(s, Head(s.codes))

SeedsOK ==
    /\ \A s \in seeding : s.tenant \in Tenant /\ s.codes \subseteq SeedKpi
    /\ source \in [Tenant -> Figure]

WorkerAlone == \A s, o \in rolling : s.by = "worker" /\ o.by = "worker" => s = o

AtWork == {s.tenant : s \in {o \in rolling : o.by = "worker"}}

PassOK ==
    /\ pass \in PassRow
    /\ pass.task \in DOMAIN Task \/ (pass.left = {} /\ pass.done = {})
    /\ pass.listed = pass.left \union pass.done \union pass.failed \union AtWork
    /\ \A t \in pass.done : \A c \in CodesOf(pass.task) : point[t][c] # -1

KpiIInv ==
    /\ KpiTypeOK
    /\ SeedsOK
    /\ \A s \in rolling : RollingOK(s)
    /\ WorkerAlone
    /\ PassOK
    /\ RollupAllOrNothing

-----------------------------------------------------------------------------
LEMMA KpiInitHolds == KpiInit => KpiIInv
  <1> SUFFICES ASSUME KpiInit PROVE KpiIInv
    OBVIOUS
  <1> USE DEF KpiInit
  <1>1. KpiTypeOK /\ SeedsOK
    BY MaxMovesAssumption DEF KpiTypeOK, SeedsOK, NoPass, Figure
  <1>2. WorkerAlone
    BY DEF WorkerAlone
  <1>3. PassOK
    BY DEF PassOK, PassRow, NoPass, AtWork
  <1>4. RollupAllOrNothing
    <2> SUFFICES ASSUME NEW t \in Tenant, NEW k \in DOMAIN Task
                 PROVE  {c \in CodesOf(k) : point[t][c] # -1} = {}
      BY DEF RollupAllOrNothing
    <2>1. CodesOf(k) \subseteq Codes
      BY DEF Codes
    <2> QED BY <2>1
  <1> QED BY <1>1, <1>2, <1>3, <1>4 DEF KpiIInv

\* Points appear and never go away.
PointsStay == \A t \in Tenant, c \in Codes : point[t][c] # -1 => point'[t][c] # -1

LEMMA RollingStays ==
    ASSUME NEW s, RollingOK(s), PointsStay, s.by = "worker" => pass'.task = pass.task
    PROVE  RollingOK(s)'
  <1>1. PICK task \in DOMAIN Task : OnTask(s, task)
    BY DEF RollingOK
  <1>2. s \in RollingRow /\ s.tenant \in Tenant
    BY DEF RollingOK, RollingRow
  <1>3. \A c \in Codes : Behind(s, c) => Behind(s, c)'
    BY <1>2 DEF Behind, PointsStay
  <1>4. CodesOf(task) \subseteq Codes
    BY DEF Codes
  <1>5. OnTask(s, task)'
    BY <1>1, <1>3, <1>4 DEF OnTask
  <1>6. s.codes # <<>> => Head(s.codes) \in Codes
    BY <1>2 DEF RollingRow
  <1>7. s.saw # -1 => s.codes # <<>> /\ Behind(s, Head(s.codes))'
    BY <1>3, <1>6 DEF RollingOK
  <1> QED BY <1>2, <1>5, <1>7 DEF RollingOK

LEMMA SamePoints == ASSUME point' = point PROVE PointsStay
  BY DEF PointsStay

LEMMA RestOfKpi ==
    ASSUME KpiIInv, UNCHANGED <<rolling, pass, point>>
    PROVE  /\ \A s \in rolling' : RollingOK(s)'
           /\ WorkerAlone' /\ PassOK' /\ RollupAllOrNothing'
  <1>1. ASSUME NEW s \in rolling PROVE RollingOK(s)'
    BY RollingStays, SamePoints DEF KpiIInv
  <1>2. WorkerAlone' /\ PassOK' /\ RollupAllOrNothing'
    BY DEF KpiIInv, WorkerAlone, PassOK, AtWork, RollupAllOrNothing
  <1> QED BY <1>1, <1>2

LEMMA MoveSourceKeeps ==
    ASSUME KpiIInv, NEW t \in Tenant, MoveSource(t)
    PROVE  KpiIInv'
  <1>1. KpiTypeOK' /\ SeedsOK'
    BY MaxMovesAssumption DEF KpiIInv, KpiTypeOK, SeedsOK, MoveSource, Figure
  <1> QED BY <1>1, RestOfKpi DEF KpiIInv, MoveSource

LEMMA BeginSeedKeeps ==
    ASSUME KpiIInv, NEW r \in Trigger, NEW t \in Tenant, BeginSeed(r, t)
    PROVE  KpiIInv'
  <1>1. Missing(t) \subseteq SeedKpi
    BY DEF Missing
  <1>2. KpiTypeOK' /\ SeedsOK'
    BY <1>1 DEF KpiIInv, KpiTypeOK, SeedsOK, BeginSeed
  <1> QED BY <1>2, RestOfKpi DEF KpiIInv, BeginSeed

LEMMA CommitSeedKeeps ==
    ASSUME KpiIInv, NEW s \in seeding, CommitSeed(s)
    PROVE  KpiIInv'
  <1>1. KpiTypeOK' /\ SeedsOK'
    BY DEF KpiIInv, KpiTypeOK, SeedsOK, CommitSeed
  <1> QED BY <1>1, RestOfKpi DEF KpiIInv, CommitSeed

LEMMA RollbackSeedKeeps ==
    ASSUME KpiIInv, NEW s \in seeding, RollbackSeed(s)
    PROVE  KpiIInv'
  <1>1. KpiTypeOK' /\ SeedsOK'
    BY DEF KpiIInv, KpiTypeOK, SeedsOK, RollbackSeed
  <1> QED BY <1>1, RestOfKpi DEF KpiIInv, RollbackSeed

LEMMA StartPassKeeps ==
    ASSUME KpiIInv, NEW task \in DOMAIN Task, StartPass(task)
    PROVE  KpiIInv'
  <1>1. /\ \A s \in rolling : s.by # "worker"
        /\ pass' = [task |-> task, left |-> Tenant, listed |-> Tenant, done |-> {}, failed |-> {}]
        /\ UNCHANGED <<defined, source, point, rolling, seeding>>
    BY DEF StartPass
  <1>2. KpiTypeOK' /\ SeedsOK'
    BY <1>1 DEF KpiIInv, KpiTypeOK, SeedsOK
  <1>3. ASSUME NEW s \in rolling PROVE RollingOK(s)'
    BY <1>1, RollingStays, SamePoints DEF KpiIInv
  <1>4. WorkerAlone' /\ RollupAllOrNothing'
    BY <1>1 DEF KpiIInv, WorkerAlone, RollupAllOrNothing
  <1>5. PassOK'
    BY <1>1 DEF PassOK, PassRow, AtWork
  <1> QED BY <1>1, <1>2, <1>3, <1>4, <1>5 DEF KpiIInv

LEMMA NewRolling ==
    ASSUME NEW by \in Trigger \union {"worker"}, NEW t \in Tenant, NEW task \in DOMAIN Task,
           by = "worker" => task = pass.task
    PROVE  RollingOK(Rolling(by, t, task)) /\ Rolling(by, t, task).by = by
           /\ Rolling(by, t, task).tenant = t
  <1> PICK s : s = Rolling(by, t, task)
    OBVIOUS
  <1>1. /\ s.by = by /\ s.tenant = t /\ s.codes = Task[task] /\ s.saw = -1
        /\ s.written = [c \in {} |-> 0]
    BY DEF Rolling
  <1>2. CodesOf(task) \subseteq Codes /\ Task[task] \in Seq(Codes)
    BY TaskAssumption DEF Codes
  <1>3. [c \in {} |-> 0] \in UNION {[D -> Figure] : D \in SUBSET Codes}
    <2>1. [c \in {} |-> 0] \in [{} -> Figure] /\ {} \in SUBSET Codes
      OBVIOUS
    <2> QED BY <2>1
  <1>4. s \in RollingRow
    BY <1>2, <1>3, MaxMovesAssumption DEF Rolling, RollingRow
  <1>5. OnTask(s, task)
    BY <1>1 DEF OnTask, CodesIn, CodesOf
  <1> QED BY <1>1, <1>4, <1>5 DEF RollingOK

LEMMA NextTenantKeeps ==
    ASSUME KpiIInv, NEW t \in Tenant, NextTenant(t)
    PROVE  KpiIInv'
  <1> PICK s : s = Rolling("worker", t, pass.task)
    OBVIOUS
  <1>1. /\ t \in pass.left /\ \A o \in rolling : o.by # "worker"
        /\ pass' = [pass EXCEPT !.left = @ \ {t}]
        /\ rolling' = rolling \union {s}
        /\ UNCHANGED <<defined, source, point, seeding>>
    BY DEF NextTenant
  <1>2. RollingOK(s) /\ s.by = "worker" /\ s.tenant = t
    BY <1>1, NewRolling DEF KpiIInv, PassOK
  <1>3. /\ pass' \in PassRow /\ pass'.task = pass.task /\ pass'.left = pass.left \ {t}
        /\ pass'.listed = pass.listed /\ pass'.done = pass.done /\ pass'.failed = pass.failed
    BY <1>1 DEF KpiIInv, PassOK, PassRow
  <1>4. KpiTypeOK' /\ SeedsOK'
    BY <1>1, <1>3 DEF KpiIInv, KpiTypeOK, SeedsOK
  <1>5. ASSUME NEW o \in rolling' PROVE RollingOK(o)'
    BY <1>1, <1>2, <1>3, RollingStays, SamePoints DEF KpiIInv
  <1>6. WorkerAlone' /\ RollupAllOrNothing'
    BY <1>1 DEF KpiIInv, WorkerAlone, RollupAllOrNothing
  <1>7. AtWork = {} /\ AtWork' = {t}
    BY <1>1, <1>2 DEF AtWork
  <1>8. PassOK'
    BY <1>1, <1>3, <1>7 DEF KpiIInv, PassOK
  <1> QED BY <1>4, <1>5, <1>6, <1>8 DEF KpiIInv

LEMMA TriggerRollupKeeps ==
    ASSUME KpiIInv, NEW r \in Trigger, NEW t \in Tenant, NEW task \in DOMAIN Task,
           TriggerRollup(r, t, task)
    PROVE  KpiIInv'
  <1> PICK s : s = Rolling(r, t, task)
    OBVIOUS
  <1>1. rolling' = rolling \union {s} /\ UNCHANGED <<defined, source, point, pass, seeding>>
    BY DEF TriggerRollup
  <1>2. RollingOK(s) /\ s.by = r /\ r # "worker"
    BY NewRolling, TriggerAssumption
  <1>3. KpiTypeOK' /\ SeedsOK'
    BY <1>1 DEF KpiIInv, KpiTypeOK, SeedsOK
  <1>4. ASSUME NEW o \in rolling' PROVE RollingOK(o)'
    BY <1>1, <1>2, RollingStays, SamePoints DEF KpiIInv
  <1>5. WorkerAlone' /\ RollupAllOrNothing'
    BY <1>1, <1>2 DEF KpiIInv, WorkerAlone, RollupAllOrNothing
  <1>6. AtWork' = AtWork
    BY <1>1, <1>2 DEF AtWork
  <1>7. PassOK'
    BY <1>1, <1>6 DEF KpiIInv, PassOK
  <1> QED BY <1>3, <1>4, <1>5, <1>7 DEF KpiIInv

\* A rollup goes on and is then t.
LEMMA RollingGoesOn ==
    ASSUME KpiIInv, NEW s \in rolling, NEW t, RollingOK(t), t.by = s.by, t.tenant = s.tenant,
           rolling' = (rolling \ {s}) \union {t},
           UNCHANGED <<defined, source, point, pass, seeding>>
    PROVE  KpiIInv'
  <1>1. KpiTypeOK' /\ SeedsOK'
    BY DEF KpiIInv, KpiTypeOK, SeedsOK
  <1>2. ASSUME NEW o \in rolling' PROVE RollingOK(o)'
    BY RollingStays, SamePoints DEF KpiIInv
  <1>3. WorkerAlone' /\ RollupAllOrNothing'
    BY DEF KpiIInv, WorkerAlone, RollupAllOrNothing
  <1>4. AtWork' = AtWork
    BY DEF AtWork
  <1>5. PassOK'
    BY <1>4 DEF KpiIInv, PassOK
  <1> QED BY <1>1, <1>2, <1>3, <1>5 DEF KpiIInv

LEMMA SeesFigure ==
    ASSUME KpiIInv, NEW s \in rolling, NEW c \in Codes
    PROVE  Sees(s, c) \in -1 .. MaxMoves /\ (Sees(s, c) # -1 => Behind(s, c))
  <1>1. s \in RollingRow
    BY DEF KpiIInv, RollingOK
  <1>2. c \in DOMAIN s.written => s.written[c] \in 0 .. MaxMoves
    BY <1>1 DEF RollingRow, Figure
  <1>3. point[s.tenant][c] \in -1 .. MaxMoves
    BY <1>1 DEF KpiIInv, KpiTypeOK, RollingRow
  <1> QED BY <1>2, <1>3, MaxMovesAssumption DEF Sees, Behind

LEMMA ComputeFigureKeeps ==
    ASSUME KpiIInv, NEW s \in rolling, ComputeFigure(s)
    PROVE  KpiIInv'
  <1> PICK t : t = [s EXCEPT !.figure = source[s.tenant], !.saw = Sees(s, Head(s.codes))]
    OBVIOUS
  <1>1. /\ s.codes # <<>> /\ rolling' = (rolling \ {s}) \union {t}
        /\ UNCHANGED <<defined, source, point, pass, seeding>>
    BY DEF ComputeFigure
  <1>2. s \in RollingRow
    BY DEF KpiIInv, RollingOK
  <1>3. Head(s.codes) \in Codes
    BY <1>1, <1>2 DEF RollingRow
  <1>4. /\ Sees(s, Head(s.codes)) \in -1 .. MaxMoves
        /\ Sees(s, Head(s.codes)) # -1 => Behind(s, Head(s.codes))
    BY <1>3, SeesFigure
  <1>5. source[s.tenant] \in -1 .. MaxMoves
    BY <1>2, MaxMovesAssumption DEF KpiIInv, SeedsOK, RollingRow, Figure
  <1>6. /\ t \in RollingRow /\ t.by = s.by /\ t.tenant = s.tenant /\ t.codes = s.codes
        /\ t.written = s.written /\ t.saw = Sees(s, Head(s.codes))
    BY <1>2, <1>4, <1>5 DEF RollingRow
  <1>7. \A c : Behind(t, c) <=> Behind(s, c)
    BY <1>6 DEF Behind
  <1>8. \A task : OnTask(s, task) => OnTask(t, task)
    BY <1>6, <1>7 DEF OnTask
  <1>9. RollingOK(t)
    BY <1>1, <1>4, <1>6, <1>7, <1>8 DEF KpiIInv, RollingOK
  <1> QED BY <1>1, <1>6, <1>9, RollingGoesOn

LEMMA HeadAndTail ==
    ASSUME NEW S, NEW q \in Seq(S), q # <<>>
    PROVE  /\ Head(q) \in S /\ Tail(q) \in Seq(S)
           /\ CodesIn(q) = {Head(q)} \union CodesIn(Tail(q))
  <1>1. Head(q) = q[1] /\ Len(q) >= 1 /\ Head(q) \in S /\ Tail(q) \in Seq(S)
    OBVIOUS
  <1>2. DOMAIN q = 1 .. Len(q) /\ DOMAIN Tail(q) = 1 .. Len(q) - 1
    OBVIOUS
  <1>3. \A i \in 1 .. Len(q) - 1 : Tail(q)[i] = q[i + 1]
    OBVIOUS
  <1>4. CodesIn(q) \subseteq {Head(q)} \union CodesIn(Tail(q))
    <2> SUFFICES ASSUME NEW i \in 1 .. Len(q), i # 1 PROVE q[i] \in CodesIn(Tail(q))
      BY <1>1, <1>2 DEF CodesIn
    <2>1. i - 1 \in 1 .. Len(q) - 1 /\ Tail(q)[i - 1] = q[i]
      BY <1>3
    <2> QED BY <1>2, <2>1 DEF CodesIn
  <1>5. {Head(q)} \union CodesIn(Tail(q)) \subseteq CodesIn(q)
    <2>1. \A i \in 1 .. Len(q) - 1 : Tail(q)[i] \in CodesIn(q)
      BY <1>2, <1>3 DEF CodesIn
    <2>2. Head(q) \in CodesIn(q)
      BY <1>1, <1>2 DEF CodesIn
    <2> QED BY <1>2, <2>1, <2>2 DEF CodesIn
  <1> QED BY <1>1, <1>4, <1>5

LEMMA FlushPointKeeps ==
    ASSUME KpiIInv, NEW s \in rolling, FlushPoint(s)
    PROVE  KpiIInv'
  <1> DEFINE c == Head(s.codes)
             w == IF Unchanged(s) THEN s.written
                  ELSE [k \in DOMAIN s.written \union {c} |->
                            IF k = c THEN s.figure ELSE s.written[k]]
  <1> PICK t : t = [s EXCEPT !.codes = Tail(s.codes), !.figure = -1, !.saw = -1, !.written = w]
    OBVIOUS
  <1>1. /\ s.codes # <<>> /\ s.figure # -1 /\ rolling' = (rolling \ {s}) \union {t}
        /\ UNCHANGED <<defined, source, point, pass, seeding>>
    BY DEF FlushPoint
  <1>2. s \in RollingRow /\ s.codes \in Seq(Codes) /\ s.figure \in Figure
    <2>1. s \in RollingRow
      BY DEF KpiIInv, RollingOK
    <2>2. s.figure \in -1 .. MaxMoves /\ s.codes \in Seq(Codes)
      BY <2>1 DEF RollingRow
    <2>3. \A n \in -1 .. MaxMoves : n # -1 => n \in 0 .. MaxMoves
      BY MaxMovesAssumption
    <2> QED BY <1>1, <2>1, <2>2, <2>3 DEF Figure
  <1>3. /\ c \in Codes /\ Tail(s.codes) \in Seq(Codes)
        /\ CodesIn(s.codes) = {c} \union CodesIn(Tail(s.codes))
    BY <1>1, <1>2, HeadAndTail
  <1>4. PICK D \in SUBSET Codes : s.written \in [D -> Figure]
    BY <1>2 DEF RollingRow
  <1>5. w \in [D -> Figure] \/ w \in [D \union {c} -> Figure]
    BY <1>2, <1>4
  <1>6. w \in UNION {[E -> Figure] : E \in SUBSET Codes}
    <2>1. D \in SUBSET Codes /\ D \union {c} \in SUBSET Codes
      BY <1>3
    <2>2. \E E \in SUBSET Codes : w \in [E -> Figure]
      BY <1>5, <2>1
    <2> QED BY <2>2
  <1>7. DOMAIN s.written \subseteq DOMAIN w /\ DOMAIN w \subseteq DOMAIN s.written \union {c}
    OBVIOUS
  <1>8. c \in DOMAIN w \/ (Unchanged(s) /\ w = s.written)
    OBVIOUS
  <1> HIDE DEF w
  <1>9. /\ t \in RollingRow /\ t.by = s.by /\ t.tenant = s.tenant /\ t.codes = Tail(s.codes)
        /\ t.written = w /\ t.saw = -1
    <2>1. -1 \in -1 .. MaxMoves
      BY MaxMovesAssumption
    <2> HIDE DEF c
    <2> QED BY <1>2, <1>3, <1>6, <2>1 DEF RollingRow
  <1>10. Behind(t, c)
    <2>1. CASE c \in DOMAIN w
      BY <1>9, <2>1 DEF Behind
    <2>2. CASE Unchanged(s) /\ w = s.written
      <3>1. s.saw # -1
        BY <1>1, <2>2 DEF Unchanged
      <3>2. Behind(s, c)
        BY <3>1 DEF KpiIInv, RollingOK
      <3> QED BY <1>9, <2>2, <3>2 DEF Behind
    <2> QED BY <1>8, <2>1, <2>2
  <1>11. \A k : Behind(s, k) => Behind(t, k)
    BY <1>7, <1>9 DEF Behind
  <1>12. PICK task \in DOMAIN Task : OnTask(s, task)
    BY DEF KpiIInv, RollingOK
  <1> HIDE DEF c
  <1>13. OnTask(t, task)
    BY <1>3, <1>7, <1>9, <1>10, <1>11, <1>12 DEF OnTask
  <1>14. RollingOK(t)
    BY <1>9, <1>13 DEF RollingOK
  <1> QED BY <1>1, <1>9, <1>14, RollingGoesOn

\* The session ends; its tenant is reported as done or as failed.
LEMMA Reporting ==
    ASSUME KpiIInv, NEW s \in rolling, NEW failed \in BOOLEAN,
           rolling' = rolling \ {s}, pass' = Reported(s, failed), PointsStay,
           ~failed /\ s.by = "worker" => \A c \in CodesOf(pass.task) : point'[s.tenant][c] # -1,
           CodesOf(pass.task) \subseteq Codes \/ pass.done = {}
    PROVE  /\ pass'.left \union pass'.done \union pass'.failed \subseteq Tenant
           /\ \A o \in rolling' : RollingOK(o)'
           /\ WorkerAlone' /\ PassOK'
  <1>1. s \in RollingRow /\ s.tenant \in Tenant /\ pass \in PassRow
    BY DEF KpiIInv, RollingOK, RollingRow, PassOK
  <1>2. /\ pass'.task = pass.task /\ pass'.left = pass.left /\ pass'.listed = pass.listed
        /\ pass' \in PassRow
        /\ pass'.done = IF s.by = "worker" /\ ~failed THEN pass.done \union {s.tenant} ELSE pass.done
        /\ pass'.failed = IF s.by = "worker" /\ failed THEN pass.failed \union {s.tenant}
                          ELSE pass.failed
    <2>1. CASE s.by # "worker"
      BY <1>1, <2>1 DEF Reported
    <2>2. CASE s.by = "worker" /\ failed
      BY <1>1, <2>2 DEF Reported, PassRow
    <2>3. CASE s.by = "worker" /\ ~failed
      BY <1>1, <2>3 DEF Reported, PassRow
    <2> QED BY <2>1, <2>2, <2>3
  <1>3. ASSUME NEW o \in rolling' PROVE RollingOK(o)'
    BY <1>2, RollingStays DEF KpiIInv
  <1>4. WorkerAlone'
    BY DEF KpiIInv, WorkerAlone
  <1>7. s.by = "worker" => pass.task \in DOMAIN Task
    BY DEF KpiIInv, RollingOK, OnTask
  <1>5. CASE s.by = "worker"
    <2>1. AtWork = {s.tenant} /\ AtWork' = {}
      BY <1>5 DEF AtWork, KpiIInv, WorkerAlone
    <2>2. pass'.listed = pass'.left \union pass'.done \union pass'.failed \union AtWork'
      BY <1>2, <1>5, <2>1 DEF KpiIInv, PassOK
    <2>3. \A t \in pass'.done : \A c \in CodesOf(pass'.task) : point'[t][c] # -1
      BY <1>1, <1>2 DEF KpiIInv, PassOK, PassRow, PointsStay
    <2> QED BY <1>2, <1>3, <1>4, <1>5, <1>7, <2>2, <2>3 DEF KpiIInv, PassOK, PassRow
  <1>6. CASE s.by # "worker"
    <2>1. AtWork' = AtWork
      BY <1>6 DEF AtWork
    <2>2. pass' = pass
      BY <1>6 DEF Reported
    <2>3. \A t \in pass'.done : \A c \in CodesOf(pass'.task) : point'[t][c] # -1
      BY <1>1, <2>2 DEF KpiIInv, PassOK, PassRow, PointsStay
    <2> QED BY <1>2, <1>3, <1>4, <2>1, <2>2, <2>3 DEF KpiIInv, PassOK, PassRow
  <1> QED BY <1>5, <1>6

LEMMA CodesOfPass == ASSUME KpiIInv PROVE CodesOf(pass.task) \subseteq Codes \/ pass.done = {}
  BY DEF KpiIInv, PassOK, Codes

LEMMA FailRollupKeeps ==
    ASSUME KpiIInv, NEW s \in rolling, FailRollup(s)
    PROVE  KpiIInv'
  <1>1. /\ pass' = Reported(s, TRUE) /\ rolling' = rolling \ {s}
        /\ UNCHANGED <<defined, source, point, seeding>>
    BY DEF FailRollup
  <1>2. /\ pass'.left \union pass'.done \union pass'.failed \subseteq Tenant
        /\ \A o \in rolling' : RollingOK(o)'
        /\ WorkerAlone' /\ PassOK'
    BY <1>1, Reporting, CodesOfPass, SamePoints
  <1>3. KpiTypeOK' /\ SeedsOK' /\ RollupAllOrNothing'
    BY <1>1, <1>2 DEF KpiIInv, KpiTypeOK, SeedsOK, RollupAllOrNothing
  <1> QED BY <1>2, <1>3 DEF KpiIInv

LEMMA CommitRollupKeeps ==
    ASSUME KpiIInv, NEW s \in rolling, CommitRollup(s)
    PROVE  KpiIInv'
  <1>1. /\ s.codes = <<>>
        /\ point' = [point EXCEPT ![s.tenant] =
               [c \in Codes |-> IF c \in DOMAIN s.written THEN s.written[c] ELSE @[c]]]
        /\ pass' = Reported(s, FALSE) /\ rolling' = rolling \ {s}
        /\ UNCHANGED <<defined, source, seeding>>
    BY DEF CommitRollup, Complete
  <1>2. s \in RollingRow /\ s.tenant \in Tenant
    BY DEF KpiIInv, RollingOK, RollingRow
  <1>3. \A c \in DOMAIN s.written : s.written[c] \in Figure
    BY <1>2 DEF RollingRow
  <1>4. \A c \in Codes : point'[s.tenant][c] =
                            IF c \in DOMAIN s.written THEN s.written[c] ELSE point[s.tenant][c]
    BY <1>1, <1>2 DEF KpiIInv, KpiTypeOK
  <1>5. \A t \in Tenant : t # s.tenant => point'[t] = point[t]
    BY <1>1, <1>2 DEF KpiIInv, KpiTypeOK
  <1>6. point' \in [Tenant -> [Codes -> -1 .. MaxMoves]]
    <2>1. [c \in Codes |-> IF c \in DOMAIN s.written THEN s.written[c] ELSE point[s.tenant][c]]
              \in [Codes -> -1 .. MaxMoves]
      BY <1>2, <1>3, MaxMovesAssumption DEF KpiIInv, KpiTypeOK, Figure
    <2> QED BY <1>1, <1>2, <2>1 DEF KpiIInv, KpiTypeOK
  <1>7. \A c \in DOMAIN s.written : s.written[c] # -1
    BY <1>3, MaxMovesAssumption DEF Figure
  <1>8. PointsStay
    BY <1>4, <1>5, <1>7 DEF PointsStay
  <1>9. PICK task \in DOMAIN Task : OnTask(s, task)
    BY DEF KpiIInv, RollingOK
  <1>10. CodesOf(task) \subseteq Codes /\ DOMAIN s.written \subseteq CodesOf(task)
    BY <1>9 DEF Codes, OnTask
  <1>11. \A c \in CodesOf(task) : point'[s.tenant][c] # -1
    <2>1. CodesIn(s.codes) = {}
      BY <1>1 DEF CodesIn
    <2>2. \A c \in CodesOf(task) : Behind(s, c)
      BY <1>9, <2>1 DEF OnTask
    <2> QED BY <1>4, <1>7, <1>10, <2>2 DEF Behind
  <1>12. s.by = "worker" => task = pass.task
    BY <1>9 DEF OnTask
  <1>13. /\ pass'.left \union pass'.done \union pass'.failed \subseteq Tenant
         /\ \A o \in rolling' : RollingOK(o)'
         /\ WorkerAlone' /\ PassOK'
    BY <1>1, <1>8, <1>11, <1>12, Reporting, CodesOfPass
  <1>14. KpiTypeOK' /\ SeedsOK'
    BY <1>1, <1>6, <1>13 DEF KpiIInv, KpiTypeOK, SeedsOK
  <1>15. ASSUME NEW t \in Tenant, NEW k \in DOMAIN Task,
                \A j \in DOMAIN Task : CodesOf(j) \subseteq CodesOf(k) => j = k
         PROVE  {c \in CodesOf(k) : point'[t][c] # -1} \in {{}, CodesOf(k)}
    <2>1. {c \in CodesOf(k) : point[t][c] # -1} \in {{}, CodesOf(k)}
      BY <1>15 DEF KpiIInv, RollupAllOrNothing
    <2>2. CASE t # s.tenant
      BY <1>5, <2>1, <2>2
    <2>3. CASE t = s.tenant /\ CodesOf(k) \subseteq CodesOf(task)
      BY <1>11, <2>3
    <2>4. CASE t = s.tenant /\ CodesOf(k) \intersect CodesOf(task) = {}
      <3>1. CodesOf(k) \subseteq Codes
        BY DEF Codes
      <3>2. \A c \in CodesOf(k) : point'[t][c] = point[t][c]
        BY <1>4, <1>10, <2>4, <3>1
      <3> QED BY <2>1, <3>2
    <2>5. CASE CodesOf(task) \subseteq CodesOf(k)
      <3>1. task = k
        BY <1>15, <2>5
      <3> QED BY <2>2, <2>3, <3>1
    <2> QED BY <2>2, <2>3, <2>4, <2>5, TaskAssumption
  <1>16. RollupAllOrNothing'
    BY <1>15 DEF RollupAllOrNothing
  <1> QED BY <1>13, <1>14, <1>16 DEF KpiIInv

LEMMA KpiNextKeeps == ASSUME KpiIInv, KpiNext PROVE KpiIInv'
  <1>1. ASSUME NEW t \in Tenant, MoveSource(t) PROVE KpiIInv'
    BY <1>1, MoveSourceKeeps
  <1>2. ASSUME NEW r \in Trigger, NEW t \in Tenant, BeginSeed(r, t) PROVE KpiIInv'
    BY <1>2, BeginSeedKeeps
  <1>3. ASSUME NEW s \in seeding, CommitSeed(s) PROVE KpiIInv'
    BY <1>3, CommitSeedKeeps
  <1>4. ASSUME NEW s \in seeding, RollbackSeed(s) PROVE KpiIInv'
    BY <1>4, RollbackSeedKeeps
  <1>5. ASSUME NEW task \in DOMAIN Task, StartPass(task) PROVE KpiIInv'
    BY <1>5, StartPassKeeps
  <1>6. ASSUME NEW t \in Tenant, NextTenant(t) PROVE KpiIInv'
    BY <1>6, NextTenantKeeps
  <1>7. ASSUME NEW r \in Trigger, NEW t \in Tenant, NEW task \in DOMAIN Task,
               TriggerRollup(r, t, task)
        PROVE  KpiIInv'
    BY <1>7, TriggerRollupKeeps
  <1>8. ASSUME NEW s \in rolling, ComputeFigure(s) PROVE KpiIInv'
    BY <1>8, ComputeFigureKeeps
  <1>9. ASSUME NEW s \in rolling, FlushPoint(s) PROVE KpiIInv'
    BY <1>9, FlushPointKeeps
  <1>10. ASSUME NEW s \in rolling, CommitRollup(s) PROVE KpiIInv'
    BY <1>10, CommitRollupKeeps
  <1>11. ASSUME NEW s \in rolling, FailRollup(s) PROVE KpiIInv'
    BY <1>11, FailRollupKeeps
  <1> QED BY <1>1, <1>2, <1>3, <1>4, <1>5, <1>6, <1>7, <1>8, <1>9, <1>10, <1>11 DEF KpiNext

LEMMA KpiStutterKeeps == ASSUME KpiIInv, UNCHANGED kpiVars PROVE KpiIInv'
  <1>1. KpiTypeOK' /\ SeedsOK'
    BY DEF KpiIInv, KpiTypeOK, SeedsOK, kpiVars
  <1> QED BY <1>1, RestOfKpi DEF KpiIInv, kpiVars

LEMMA KpiInductive == KpiSpec => []KpiIInv
  BY KpiInitHolds, KpiNextKeeps, KpiStutterKeeps, PTL DEF KpiSpec

\* The points of a rollup appear together, and a pass of the worker that is
\* over has tried every tenant and given all those it reports as done each of
\* their figures, whatever fails and however triggered rollups overlap it.
THEOREM RollupsAreWholeHolds == KpiSpec => []RollupsAreWhole
  <1>1. ASSUME KpiIInv PROVE PassReachesAll
    <2> SUFFICES ASSUME pass.left = {}, \A s \in rolling : s.by # "worker"
                 PROVE  /\ pass.listed = pass.done \union pass.failed
                        /\ \A t \in pass.done : \A c \in CodesOf(pass.task) : point[t][c] # -1
      BY DEF PassReachesAll
    <2>1. AtWork = {}
      BY DEF AtWork
    <2> QED BY <1>1, <2>1 DEF KpiIInv, PassOK
  <1>2. KpiIInv => RollupsAreWhole
    BY <1>1 DEF KpiIInv, RollupsAreWhole
  <1> QED BY <1>2, KpiInductive, PTL

-----------------------------------------------------------------------------
(* The books: module Ledger. First the sums over the lines of posted       *)
(* entries, and what one more entry adds to them; then the statements,     *)
(* which follow from the entries being balanced; then the invariant of the *)
(* sessions.                                                               *)

\* The lines of some entries, each with its entry.
Tab(E) == UNION {{<<e, l>> : l \in Lines(e.voucher)} : e \in E}

\* What the invariants say of the posted entries.
Booked(E) == IsFiniteSet(E) /\ \A e \in E : e.voucher \in Voucher /\ Balanced(Lines(e.voucher))

LEMMA TabOfPart ==
    ASSUME NEW E, NEW e \in E
    PROVE  /\ Tab(E) = Tab(E \ {e}) \union {<<e, l>> : l \in Lines(e.voucher)}
           /\ Tab(E \ {e}) \intersect {<<e, l>> : l \in Lines(e.voucher)} = {}
  BY DEF Tab

LEMMA LinesOfEntry ==
    ASSUME NEW e, IsFiniteSet(Lines(e.voucher))
    PROVE  IsFiniteSet({<<e, l>> : l \in Lines(e.voucher)})
  <1> DEFINE h == [l \in Lines(e.voucher) |-> <<e, l>>]
             T == {<<e, l>> : l \in Lines(e.voucher)}
  <1>1. h \in Surjection(Lines(e.voucher), T)
    BY DEF Surjection
  <1> HIDE DEF h, T
  <1>2. IsFiniteSet(T)
    BY <1>1, FS_Surjection
  <1> QED BY <1>2 DEF T

LEMMA TabIsFinite ==
    ASSUME NEW E, IsFiniteSet(E), \A e \in E : IsFiniteSet(Lines(e.voucher))
    PROVE  IsFiniteSet(Tab(E))
  <1> DEFINE h == [e \in E |-> {<<e, l>> : l \in Lines(e.voucher)}]
             T == {{<<e, l>> : l \in Lines(e.voucher)} : e \in E}
  <1>1. h \in Surjection(E, T)
    BY DEF Surjection
  <1>2. \A x \in T : IsFiniteSet(x)
    BY LinesOfEntry
  <1>3. IsFiniteSet(T)
    <2> HIDE DEF h, T
    <2> QED BY <1>1, FS_Surjection
  <1>4. IsFiniteSet(UNION T)
    <2> HIDE DEF T
    <2> QED BY <1>2, <1>3, FS_UNION
  <1> QED BY <1>4 DEF Tab

LEMMA SumOfEntry ==
    ASSUME NEW e, IsFiniteSet(Lines(e.voucher)), NEW f,
           \A l \in Lines(e.voucher) : f[<<e, l>>] \in Int
    PROVE  SumFunctionOnSet(f, {<<e, l>> : l \in Lines(e.voucher)})
             = SumFunction([l \in Lines(e.voucher) |-> f[<<e, l>>]])
  <1> DEFINE L == Lines(e.voucher)
             h == [l \in L |-> <<e, l>>]
  <1>1. (\A x, y \in L : h[x] = h[y] => x = y) /\ \A x \in L : f[h[x]] \in Int
    OBVIOUS
  <1>2. SumFunctionOnSet(f, {h[x] : x \in L}) = SumFunction([x \in L |-> f[h[x]]])
    <2>1. IsFiniteSet(L)
      OBVIOUS
    <2> HIDE DEF L, h
    <2> QED BY <1>1, <2>1, SumOverImage
  <1>3. {h[x] : x \in L} = {<<e, l>> : l \in L}
    OBVIOUS
  <1>4. [x \in L |-> f[h[x]]] = [l \in L |-> f[<<e, l>>]]
    OBVIOUS
  <1> HIDE DEF h
  <1> QED BY <1>2, <1>3, <1>4

\* The entries but one, and the lines of that one.
LEMMA SumOfTab ==
    ASSUME NEW E, IsFiniteSet(E), NEW e \in E, \A x \in E : IsFiniteSet(Lines(x.voucher)),
           NEW f, \A p \in Tab(E) : f[p] \in Int
    PROVE  SumFunctionOnSet(f, Tab(E)) = SumFunctionOnSet(f, Tab(E \ {e}))
                                           + SumFunction([l \in Lines(e.voucher) |-> f[<<e, l>>]])
  <1> DEFINE T == {<<e, l>> : l \in Lines(e.voucher)}
             R == Tab(E \ {e})
  <1>1. Tab(E) = R \union T /\ R \intersect T = {}
    BY TabOfPart
  <1>2. IsFiniteSet(R) /\ IsFiniteSet(T)
    <2>1. IsFiniteSet(E \ {e})
      BY FS_RemoveElement
    <2> QED BY <2>1, TabIsFinite, LinesOfEntry
  <1>3. \A p \in R \union T : f[p] \in Int
    BY <1>1
  <1>4. SumFunctionOnSet(f, T) = SumFunction([l \in Lines(e.voucher) |-> f[<<e, l>>]])
    <2>1. IsFiniteSet(Lines(e.voucher)) /\ \A l \in Lines(e.voucher) : f[<<e, l>>] \in Int
      BY <1>3
    <2> QED BY <2>1, SumOfEntry
  <1> HIDE DEF R, T
  <1>5. SumFunctionOnSet(f, R \union T) = SumFunctionOnSet(f, R) + SumFunctionOnSet(f, T)
    BY <1>1, <1>2, <1>3, SumUnion
  <1> QED BY <1>1, <1>4, <1>5 DEF R

\* Double entry: what balances line by line balances in every set of entries.
LEMMA TableBalances ==
    ASSUME NEW E, Booked(E)
    PROVE  SumFunction([p \in Tab(E) |-> p[2].debit]) = SumFunction([p \in Tab(E) |-> p[2].credit])
  <1> DEFINE fd == [p \in Tab(E) |-> p[2].debit]
             fc == [p \in Tab(E) |-> p[2].credit]
             D(s) == SumFunctionOnSet(fd, Tab(s))
             C(s) == SumFunctionOnSet(fc, Tab(s))
             B == {s \in SUBSET E : D(s) # C(s)}
  <1>1. SumFunction(fd) = D(E) /\ SumFunction(fc) = C(E)
    BY DEF SumFunction
  <1>2. \A e \in E : /\ IsFiniteSet(Lines(e.voucher))
                     /\ \A l \in Lines(e.voucher) : /\ <<e, l>> \in Tab(E)
                                                    /\ fd[<<e, l>>] = l.debit /\ l.debit \in Int
                                                    /\ fc[<<e, l>>] = l.credit /\ l.credit \in Int
    BY LinesAssumption DEF Booked, Tab
  <1>3. ASSUME NEW s \in SUBSET E, NEW e \in s
        PROVE  /\ D(s) = D(s \ {e}) + Debits(Lines(e.voucher))
               /\ C(s) = C(s \ {e}) + Credits(Lines(e.voucher))
    <2>1. IsFiniteSet(s) /\ \A x \in s : IsFiniteSet(Lines(x.voucher))
      BY <1>2, FS_Subset DEF Booked
    <2>2. \A p \in Tab(s) : fd[p] \in Int /\ fc[p] \in Int
      <3> SUFFICES ASSUME NEW p \in Tab(s) PROVE fd[p] \in Int /\ fc[p] \in Int
        OBVIOUS
      <3>1. PICK x \in E : \E l \in Lines(x.voucher) : p = <<x, l>>
        BY DEF Tab
      <3> HIDE DEF fd, fc
      <3> QED BY <1>2, <3>1
    <2>3. /\ [l \in Lines(e.voucher) |-> fd[<<e, l>>]] = [l \in Lines(e.voucher) |-> l.debit]
          /\ [l \in Lines(e.voucher) |-> fc[<<e, l>>]] = [l \in Lines(e.voucher) |-> l.credit]
      BY <1>2
    <2> HIDE DEF fd, fc
    <2>4. D(s) = D(s \ {e}) + SumFunction([l \in Lines(e.voucher) |-> fd[<<e, l>>]])
      BY <2>1, <2>2, SumOfTab
    <2>5. C(s) = C(s \ {e}) + SumFunction([l \in Lines(e.voucher) |-> fc[<<e, l>>]])
      BY <2>1, <2>2, SumOfTab
    <2> QED BY <2>3, <2>4, <2>5 DEF Debits, Credits
  <1>4. D({}) = C({})
    <2>1. Tab({}) = {}
      BY DEF Tab
    <2> QED BY <2>1, SumEmpty
  <1> HIDE DEF D, C
  <1> SUFFICES ASSUME B # {} PROVE FALSE
    BY <1>1
  <1>5. PICK t \in B : \A u \in B : Cardinality(t) <= Cardinality(u)
    <2>1. IsFiniteSet(E) /\ B \subseteq SUBSET E
      BY DEF Booked
    <2> HIDE DEF B
    <2> QED BY <2>1, LeastSubset
  <1>6. t \in SUBSET E /\ D(t) # C(t)
    OBVIOUS
  <1>7. PICK e \in t : TRUE
    BY <1>4, <1>6
  <1>8. D(t \ {e}) = C(t \ {e})
    <2>1. t \ {e} \notin B
      <3>1. IsFiniteSet(t)
        BY <1>6, FS_Subset DEF Booked
      <3> HIDE DEF B
      <3> QED BY <1>5, <3>1, FewerElements
    <2> QED BY <1>6, <2>1
  <1>9. Debits(Lines(e.voucher)) = Credits(Lines(e.voucher))
    BY <1>6 DEF Booked, Balanced
  <1> QED BY <1>3, <1>6, <1>8, <1>9

-----------------------------------------------------------------------------
(* The sums on some accounts of some months.                                 *)

PostedIn(months) == {x \in journal : x.posted /\ Month(x.voucher) \in months}

LedgerBooked ==
    /\ IsFiniteSet(journal)
    /\ \A e \in journal : e.voucher \in Voucher /\ Balanced(Lines(e.voucher))

LEMMA PostedTab ==
    ASSUME NEW months, NEW accts
    PROVE  PostedOn(months, accts) = {p \in Tab(PostedIn(months)) : p[2].account \in accts}
  BY DEF PostedOn, Tab, PostedIn

LEMMA PostedIsFinite ==
    ASSUME LedgerBooked, NEW months, NEW accts
    PROVE  /\ Booked(PostedIn(months))
           /\ IsFiniteSet(PostedOn(months, accts))
           /\ \A p \in PostedOn(months, accts) :
                 p[2].account \in Account /\ p[2].debit \in Int /\ p[2].credit \in Int
  <1>1. Booked(PostedIn(months))
    BY FS_Subset DEF LedgerBooked, Booked, PostedIn
  <1>2. IsFiniteSet(Tab(PostedIn(months)))
    BY <1>1, TabIsFinite, LinesAssumption DEF Booked
  <1>3. IsFiniteSet(PostedOn(months, accts))
    BY <1>2, PostedTab, FS_Subset
  <1>4. ASSUME NEW p \in PostedOn(months, accts)
        PROVE  p[2].account \in Account /\ p[2].debit \in Int /\ p[2].credit \in Int
    <2>1. PICK x \in journal : \E l \in Lines(x.voucher) : p = <<x, l>> /\ l.account \in accts
      BY DEF PostedOn
    <2> QED BY <2>1, LinesAssumption DEF LedgerBooked
  <1> QED BY <1>1, <1>3, <1>4

\* Two parts of the posted lines, apart from each other.
LEMMA PostedParts ==
    ASSUME LedgerBooked, NEW m1, NEW a1, NEW m2, NEW a2, NEW m, NEW a,
           PostedOn(m, a) = PostedOn(m1, a1) \union PostedOn(m2, a2),
           PostedOn(m1, a1) \intersect PostedOn(m2, a2) = {}
    PROVE  /\ DebitsOn(m, a) = DebitsOn(m1, a1) + DebitsOn(m2, a2)
           /\ CreditsOn(m, a) = CreditsOn(m1, a1) + CreditsOn(m2, a2)
  <1>1. /\ IsFiniteSet(PostedOn(m1, a1)) /\ IsFiniteSet(PostedOn(m2, a2))
        /\ \A p \in PostedOn(m, a) : p[2].debit \in Int /\ p[2].credit \in Int
    BY PostedIsFinite
  <1> DEFINE P == PostedOn(m, a)
             P1 == PostedOn(m1, a1)
             P2 == PostedOn(m2, a2)
             fd == [p \in P |-> p[2].debit]
             fc == [p \in P |-> p[2].credit]
             gd(s) == [p \in s |-> p[2].debit]
             gc(s) == [p \in s |-> p[2].credit]
  <1>2. \A s \in {P1, P2} : /\ s \subseteq P /\ IsFiniteSet(s)
                            /\ \A p \in s : fd[p] = gd(s)[p] /\ fd[p] \in Int
                            /\ \A p \in s : fc[p] = gc(s)[p] /\ fc[p] \in Int
    BY <1>1
  <1>3. \A p \in P1 \union P2 : fd[p] \in Int /\ fc[p] \in Int
    BY <1>1
  <1>4. /\ DebitsOn(m, a) = SumFunctionOnSet(fd, P1 \union P2)
        /\ CreditsOn(m, a) = SumFunctionOnSet(fc, P1 \union P2)
    BY DEF DebitsOn, CreditsOn, SumFunction
  <1>5. \A s \in {P1, P2} : SumFunction(gd(s)) = SumFunctionOnSet(gd(s), s)
                         /\ SumFunction(gc(s)) = SumFunctionOnSet(gc(s), s)
    BY DEF SumFunction
  <1>6. /\ DebitsOn(m1, a1) = SumFunction(gd(P1)) /\ CreditsOn(m1, a1) = SumFunction(gc(P1))
        /\ DebitsOn(m2, a2) = SumFunction(gd(P2)) /\ CreditsOn(m2, a2) = SumFunction(gc(P2))
    BY DEF DebitsOn, CreditsOn
  <1>7. P1 \intersect P2 = {}
    OBVIOUS
  <1> HIDE DEF P1, P2, fd, fc, gd, gc
  <1>8. \A s \in {P1, P2} : SumFunctionOnSet(fd, s) = SumFunctionOnSet(gd(s), s)
    BY <1>2, SumSameValues
  <1>9. \A s \in {P1, P2} : SumFunctionOnSet(fc, s) = SumFunctionOnSet(gc(s), s)
    BY <1>2, SumSameValues
  <1>10. IsFiniteSet(P1) /\ IsFiniteSet(P2)
    BY <1>2
  <1>11. SumFunctionOnSet(fd, P1 \union P2) = SumFunctionOnSet(fd, P1) + SumFunctionOnSet(fd, P2)
    BY <1>3, <1>7, <1>10, SumUnion
  <1>12. SumFunctionOnSet(fc, P1 \union P2) = SumFunctionOnSet(fc, P1) + SumFunctionOnSet(fc, P2)
    BY <1>3, <1>7, <1>10, SumUnion
  <1> QED BY <1>4, <1>5, <1>6, <1>8, <1>9, <1>11, <1>12
-----------------------------------------------------------------------------

LEMMA SumsAreIntegers ==
    ASSUME LedgerBooked, NEW months, NEW accts
    PROVE  DebitsOn(months, accts) \in Int /\ CreditsOn(months, accts) \in Int
  <1> DEFINE P == PostedOn(months, accts)
             fd == [p \in P |-> p[2].debit]
             fc == [p \in P |-> p[2].credit]
  <1>1. IsFiniteSet(P) /\ \A p \in P : fd[p] \in Int /\ fc[p] \in Int
    BY PostedIsFinite
  <1>2. DebitsOn(months, accts) = SumFunctionOnSet(fd, P)
    BY DEF DebitsOn, SumFunction
  <1>3. CreditsOn(months, accts) = SumFunctionOnSet(fc, P)
    BY DEF CreditsOn, SumFunction
  <1> HIDE DEF P, fd, fc
  <1> QED BY <1>1, <1>2, <1>3, SumIsInteger

LEMMA AccountsApart ==
    ASSUME LedgerBooked, NEW m, NEW X, NEW Y, X \intersect Y = {}
    PROVE  /\ DebitsOn(m, X \union Y) = DebitsOn(m, X) + DebitsOn(m, Y)
           /\ CreditsOn(m, X \union Y) = CreditsOn(m, X) + CreditsOn(m, Y)
  <1>1. /\ PostedOn(m, X \union Y) = PostedOn(m, X) \union PostedOn(m, Y)
        /\ PostedOn(m, X) \intersect PostedOn(m, Y) = {}
    BY PostedTab
  <1> QED BY <1>1, PostedParts

LEMMA MonthsApart ==
    ASSUME LedgerBooked, NEW M, NEW N, NEW X, M \intersect N = {}
    PROVE  /\ DebitsOn(M \union N, X) = DebitsOn(M, X) + DebitsOn(N, X)
           /\ CreditsOn(M \union N, X) = CreditsOn(M, X) + CreditsOn(N, X)
  <1>1. /\ PostedOn(M \union N, X) = PostedOn(M, X) \union PostedOn(N, X)
        /\ PostedOn(M, X) \intersect PostedOn(N, X) = {}
    BY PostedTab DEF PostedIn, Tab
  <1> QED BY <1>1, PostedParts

\* All that is posted balances.
LEMMA AllAccounts ==
    ASSUME LedgerBooked, NEW m
    PROVE  DebitsOn(m, Account) = CreditsOn(m, Account)
  <1>1. PostedOn(m, Account) = Tab(PostedIn(m))
    BY PostedTab, LinesAssumption DEF Tab, PostedIn, LedgerBooked
  <1>2. Booked(PostedIn(m))
    BY PostedIsFinite
  <1> QED BY <1>1, <1>2, TableBalances DEF DebitsOn, CreditsOn

\* Assets are what is owed and what is owned, expenses and revenues included,
\* but for what is posted on accounts of another type.
LEMMA TypesBalance ==
    ASSUME LedgerBooked, NEW m
    PROVE  Balance("asset", m) - (Balance("liability", m) + Balance("equity", m)
                                    + Balance("revenue", m) - Balance("expense", m))
             = CreditsOn(m, Dropped) - DebitsOn(m, Dropped)
  <1> DEFINE A1 == OfType("asset") \union OfType("liability")
             A2 == A1 \union OfType("equity")
             A3 == A2 \union OfType("revenue")
             A4 == A3 \union OfType("expense")
             A5 == A4 \union Dropped
  <1>1. A5 = Account
    BY DEF OfType, Dropped, AccountTypes
  <1>2. /\ OfType("asset") \intersect OfType("liability") = {}
        /\ A1 \intersect OfType("equity") = {}
        /\ A2 \intersect OfType("revenue") = {}
        /\ A3 \intersect OfType("expense") = {}
        /\ A4 \intersect Dropped = {}
    BY DEF OfType, Dropped, AccountTypes
  <1>3. /\ DebitsOn(m, A1) = DebitsOn(m, OfType("asset")) + DebitsOn(m, OfType("liability"))
        /\ CreditsOn(m, A1) = CreditsOn(m, OfType("asset")) + CreditsOn(m, OfType("liability"))
    BY <1>2, AccountsApart
  <1> HIDE DEF A1
  <1>4. /\ DebitsOn(m, A2) = DebitsOn(m, A1) + DebitsOn(m, OfType("equity"))
        /\ CreditsOn(m, A2) = CreditsOn(m, A1) + CreditsOn(m, OfType("equity"))
    BY <1>2, AccountsApart
  <1> HIDE DEF A2
  <1>5. /\ DebitsOn(m, A3) = DebitsOn(m, A2) + DebitsOn(m, OfType("revenue"))
        /\ CreditsOn(m, A3) = CreditsOn(m, A2) + CreditsOn(m, OfType("revenue"))
    BY <1>2, AccountsApart
  <1> HIDE DEF A3
  <1>6. /\ DebitsOn(m, A4) = DebitsOn(m, A3) + DebitsOn(m, OfType("expense"))
        /\ CreditsOn(m, A4) = CreditsOn(m, A3) + CreditsOn(m, OfType("expense"))
    BY <1>2, AccountsApart
  <1> HIDE DEF A4
  <1>7. /\ DebitsOn(m, A5) = DebitsOn(m, A4) + DebitsOn(m, Dropped)
        /\ CreditsOn(m, A5) = CreditsOn(m, A4) + CreditsOn(m, Dropped)
    BY <1>2, AccountsApart
  <1> HIDE DEF A5
  <1>8. DebitsOn(m, A5) = CreditsOn(m, A5)
    BY <1>1, AllAccounts
  <1>9. /\ \A t : DebitsOn(m, OfType(t)) \in Int /\ CreditsOn(m, OfType(t)) \in Int
        /\ DebitsOn(m, Dropped) \in Int /\ CreditsOn(m, Dropped) \in Int
    BY SumsAreIntegers
  <1> QED BY <1>3, <1>4, <1>5, <1>6, <1>7, <1>8, <1>9 DEF Balance

LEMMA BalancesAreIntegers ==
    ASSUME LedgerBooked, NEW t, NEW m
    PROVE  Balance(t, m) \in Int
  <1>1. DebitsOn(m, OfType(t)) \in Int /\ CreditsOn(m, OfType(t)) \in Int
    BY SumsAreIntegers
  <1> QED BY <1>1 DEF Balance

\* One more month.
LEMMA MonthAfter ==
    ASSUME LedgerBooked, NEW t, NEW n \in Nat
    PROVE  Balance(t, 0 .. n + 1) = Balance(t, 0 .. n) + Balance(t, {n + 1})
  <1>1. 0 .. n + 1 = (0 .. n) \union {n + 1} /\ (0 .. n) \intersect {n + 1} = {}
    OBVIOUS
  <1>2. /\ DebitsOn(0 .. n + 1, OfType(t)) = DebitsOn(0 .. n, OfType(t)) + DebitsOn({n + 1}, OfType(t))
        /\ CreditsOn(0 .. n + 1, OfType(t)) = CreditsOn(0 .. n, OfType(t)) + CreditsOn({n + 1}, OfType(t))
    BY <1>1, MonthsApart
  <1>3. /\ DebitsOn(0 .. n, OfType(t)) \in Int /\ DebitsOn({n + 1}, OfType(t)) \in Int
        /\ CreditsOn(0 .. n, OfType(t)) \in Int /\ CreditsOn({n + 1}, OfType(t)) \in Int
    BY SumsAreIntegers
  <1>4. DebitsOn(0 .. n + 1, OfType(t)) \in Int /\ CreditsOn(0 .. n + 1, OfType(t)) \in Int
    BY SumsAreIntegers
  <1> DEFINE d == DebitsOn(0 .. n + 1, OfType(t))
             c == CreditsOn(0 .. n + 1, OfType(t))
             d1 == DebitsOn(0 .. n, OfType(t))
             c1 == CreditsOn(0 .. n, OfType(t))
             d2 == DebitsOn({n + 1}, OfType(t))
             c2 == CreditsOn({n + 1}, OfType(t))
  <1>5. /\ Balance(t, 0 .. n + 1) = IF t \in {"asset", "expense"} THEN d - c ELSE c - d
        /\ Balance(t, 0 .. n) = IF t \in {"asset", "expense"} THEN d1 - c1 ELSE c1 - d1
        /\ Balance(t, {n + 1}) = IF t \in {"asset", "expense"} THEN d2 - c2 ELSE c2 - d2
    BY DEF Balance
  <1> HIDE DEF d, c, d1, c1, d2, c2
  <1> QED BY <1>2, <1>3, <1>5 DEF d, c, d1, c1, d2, c2

LEMMA RetainedIsIncome ==
    ASSUME LedgerBooked, NEW m \in Nat
    PROVE  Balance("revenue", 0 .. m) - Balance("expense", 0 .. m)
             = SumFunction([k \in 0 .. m |-> IncomeStatement(k)])
  <1> DEFINE R(n) == Balance("revenue", 0 .. n) - Balance("expense", 0 .. n)
             g == [k \in Nat |-> IncomeStatement(k)]
             B == {n \in Nat : R(n) # SumFunctionOnSet(g, 0 .. n)}
  <1>1. \A k \in Nat : g[k] \in Int /\ R(k) \in Int
    BY BalancesAreIntegers DEF IncomeStatement
  <1>2. R(0) = g[0]
    <2>1. 0 .. 0 = {0}
      OBVIOUS
    <2> QED BY <2>1 DEF IncomeStatement
  <1>3. \A n \in Nat : R(n + 1) = g[n + 1] + R(n)
    <2> SUFFICES ASSUME NEW n \in Nat PROVE R(n + 1) = g[n + 1] + R(n)
      OBVIOUS
    <2>1. /\ Balance("revenue", 0 .. n + 1) = Balance("revenue", 0 .. n) + Balance("revenue", {n + 1})
          /\ Balance("expense", 0 .. n + 1) = Balance("expense", 0 .. n) + Balance("expense", {n + 1})
      BY MonthAfter
    <2>2. /\ Balance("revenue", 0 .. n) \in Int /\ Balance("revenue", {n + 1}) \in Int
          /\ Balance("expense", 0 .. n) \in Int /\ Balance("expense", {n + 1}) \in Int
      BY BalancesAreIntegers
    <2> QED BY <2>1, <2>2 DEF IncomeStatement
  <1>4. \A n \in Nat : SumFunctionOnSet(g, 0 .. n + 1) = g[n + 1] + SumFunctionOnSet(g, 0 .. n)
    <2> SUFFICES ASSUME NEW n \in Nat
                 PROVE  SumFunctionOnSet(g, 0 .. n + 1) = g[n + 1] + SumFunctionOnSet(g, 0 .. n)
      OBVIOUS
    <2>1. 0 .. n + 1 = (0 .. n) \union {n + 1} /\ n + 1 \notin 0 .. n
      OBVIOUS
    <2>2. IsFiniteSet(0 .. n)
      BY FS_Interval
    <2>3. \A y \in (0 .. n) \union {n + 1} : g[y] \in Int
      BY <1>1
    <2>4. PICK k, T : k = n + 1 /\ T = 0 .. n
      OBVIOUS
    <2>5. IsFiniteSet(T) /\ k \notin T /\ \A y \in T \union {k} : g[y] \in Int
      BY <2>1, <2>2, <2>3, <2>4
    <2>6. SumFunctionOnSet(g, T \union {k}) = g[k] + SumFunctionOnSet(g, T)
      <3> HIDE DEF g
      <3> QED BY <2>5, SumInsert
    <2> HIDE DEF g
    <2> QED BY <2>1, <2>4, <2>6
  <1>5. SumFunctionOnSet(g, 0 .. 0) = g[0]
    <2>1. 0 .. 0 = {} \union {0}
      OBVIOUS
    <2>2. IsFiniteSet({}) /\ 0 \notin {} /\ \A y \in {} \union {0} : g[y] \in Int
      BY <1>1, FS_EmptySet
    <2>3. g[0] \in Int
      BY <1>1
    <2> HIDE DEF g
    <2>4. SumFunctionOnSet(g, {} \union {0}) = g[0] + SumFunctionOnSet(g, {})
      BY <2>2, SumInsert
    <2> QED BY <2>1, <2>3, <2>4, SumEmpty
  <1>6. m \notin B
    <2> HIDE DEF R, g
    <2> SUFFICES ASSUME B # {} PROVE FALSE
      OBVIOUS
    <2>1. PICK n \in B : \A k \in B : n <= k
      <3>1. B \subseteq Nat
        OBVIOUS
      <3> HIDE DEF B
      <3> QED BY <3>1, LeastNatural
    <2>2. n # 0
      BY <1>2, <1>5
    <2>3. n - 1 \in Nat /\ (n - 1) + 1 = n
      BY <2>2
    <2>4. n - 1 \notin B
      BY <2>1, <2>3
    <2>5. R(n - 1) = SumFunctionOnSet(g, 0 .. n - 1)
      BY <2>3, <2>4
    <2> QED BY <1>3, <1>4, <2>3, <2>5
  <1>7. R(m) = SumFunctionOnSet(g, 0 .. m)
    BY <1>6
  <1>8. SumFunctionOnSet(g, 0 .. m) = SumFunction([k \in 0 .. m |-> IncomeStatement(k)])
    <2> DEFINE f == [k \in 0 .. m |-> IncomeStatement(k)]
    <2>1. SumFunction(f) = SumFunctionOnSet(f, 0 .. m)
      BY DEF SumFunction
    <2>2. IsFiniteSet(0 .. m) /\ \A k \in 0 .. m : g[k] = f[k]
      BY FS_Interval
    <2> HIDE DEF f, g
    <2>3. SumFunctionOnSet(g, 0 .. m) = SumFunctionOnSet(f, 0 .. m)
      BY <2>2, SumSameValues
    <2> QED BY <2>1, <2>3 DEF f
  <1> QED BY <1>7, <1>8

LEMMA StatementsFollow == ASSUME LedgerBooked PROVE StatementsAgree
  <1> SUFFICES ASSUME NEW v \in Voucher
               PROVE  /\ BalanceSheet(Month(v)).assets
                           - (BalanceSheet(Month(v)).liabilities + BalanceSheet(Month(v)).equity)
                           = CreditsOn(0 .. Month(v), Dropped) - DebitsOn(0 .. Month(v), Dropped)
                      /\ BalanceSheet(Month(v)).retained
                           = SumFunction([k \in 0 .. Month(v) |-> IncomeStatement(k)])
    BY DEF StatementsAgree
  <1> DEFINE u == 0 .. Month(v)
             s == BalanceSheet(Month(v))
  <1>1. Month(v) \in Nat
    BY MonthAssumption
  <1>2. /\ s.assets = Balance("asset", u) /\ s.liabilities = Balance("liability", u)
        /\ s.retained = Balance("revenue", u) - Balance("expense", u)
        /\ s.equity = Balance("equity", u) + (Balance("revenue", u) - Balance("expense", u))
    BY DEF BalanceSheet
  <1>3. s.retained = SumFunction([k \in 0 .. Month(v) |-> IncomeStatement(k)])
    BY <1>1, <1>2, RetainedIsIncome
  <1>4. Balance("asset", u) - (Balance("liability", u) + Balance("equity", u)
                                 + Balance("revenue", u) - Balance("expense", u))
          = CreditsOn(u, Dropped) - DebitsOn(u, Dropped)
    BY TypesBalance
  <1>5. \A t : Balance(t, u) \in Int
    BY BalancesAreIntegers
  <1>6. s.assets - (s.liabilities + s.equity) = CreditsOn(u, Dropped) - DebitsOn(u, Dropped)
    <2> HIDE DEF s, u
    <2> QED BY <1>2, <1>4, <1>5
  <1> QED BY <1>3, <1>6
-----------------------------------------------------------------------------

EntrySession == [by : FinReq, voucher : Voucher, no : Nat]

BillSession ==
    [by : FinReq, bill : Bill, saw : BillRow, hand : BOOLEAN, new : BillRow]

\* The number a session has counted is not beyond the next one.
NumberInReach(s) ==
    s \in EntrySession =>
        /\ s.no \in 1 .. Cardinality(EntriesOf(Month(s.voucher))) + 1
        /\ Balanced(Lines(s.voucher))

\* A session updates a bill that is there, and derives its status from the amount.
DerivesStatus(s) ==
    s \in BillSession => /\ bills[s.bill] # NoBill
                         /\ ~s.hand => s.new.status = Derived(s.bill, s.new.paid)

BookingOK ==
    \A s \in booking : s \in EntrySession \union BillSession /\ NumberInReach(s) /\ DerivesStatus(s)

JournalOK ==
    /\ LedgerBooked
    /\ \A e, f \in journal : e.voucher = f.voucher => e = f

BillsOK ==
    /\ bills \in [Bill -> BillRow \union {NoBill}]
    /\ IsFiniteSet({b \in Bill : bills[b] # NoBill})

StatusDerived ==
    \A b \in Bill \ (forced \union collided) :
        bills[b] # NoBill => bills[b].status = Derived(b, bills[b].paid)

\* The figures a dashboard has read are those of now, unless a bill was committed.
FiguresHold ==
    /\ report \in [read : 0 .. 5, figures : [1 .. 5 -> Int], moved : BOOLEAN]
    /\ ~report.moved =>
          \A i \in 1 .. report.read : report.figures[i] = DashboardFigure(DashboardQueries[i])

LedgerIInv ==
    /\ LedgerTypeOK
    /\ BookingOK
    /\ JournalOK
    /\ NumbersAreDense
    /\ BillsOK
    /\ StatusDerived
    /\ FiguresHold

-----------------------------------------------------------------------------
LEMMA LedgerInitHolds == LedgerInit => LedgerIInv
  <1> SUFFICES ASSUME LedgerInit PROVE LedgerIInv
    OBVIOUS
  <1> USE DEF LedgerInit
  <1>1. LedgerTypeOK
    BY DEF LedgerTypeOK
  <1>2. BookingOK
    BY DEF BookingOK
  <1>3. JournalOK
    BY FS_EmptySet DEF JournalOK, LedgerBooked
  <1>4. NumbersAreDense
    <2>1. \A m : EntriesOf(m) = {}
      BY DEF EntriesOf
    <2>2. {e.no : e \in {}} = 1 .. 0
      OBVIOUS
    <2> QED BY <2>1, <2>2, FS_EmptySet DEF NumbersAreDense
  <1>5. BillsOK
    <2>1. {b \in Bill : bills[b] # NoBill} = {}
      OBVIOUS
    <2> QED BY <2>1, FS_EmptySet DEF BillsOK
  <1>6. StatusDerived
    BY DEF StatusDerived
  <1>7. FiguresHold
    BY DEF FiguresHold, NoReport, DashboardQueries
  <1> QED BY <1>1, <1>2, <1>3, <1>4, <1>5, <1>6, <1>7 DEF LedgerIInv

\* What moves no bill leaves the figures as they are.
LEMMA FiguresStay ==
    ASSUME FiguresHold, UNCHANGED <<report, bills>>
    PROVE  FiguresHold'
  <1>1. /\ \A side : PaidOn(side)' = PaidOn(side)
        /\ MonthToDate' = MonthToDate /\ ReceivableBalance' = ReceivableBalance
        /\ PayableDue' = PayableDue
    BY DEF PaidOn, MonthToDate, ReceivableBalance, PayableDue, Counted, BillsOf
  <1>2. \A q : DashboardFigure(q)' = DashboardFigure(q)
    BY <1>1 DEF DashboardFigure
  <1> QED BY <1>2 DEF FiguresHold

LEMMA FiguresMove ==
    ASSUME FiguresHold, Moved
    PROVE  FiguresHold'
  BY DEF FiguresHold, Moved

LEMMA SameJournal ==
    ASSUME LedgerIInv, UNCHANGED journal
    PROVE  /\ JournalOK' /\ NumbersAreDense'
           /\ \A s \in booking : NumberInReach(s)'
  <1>1. \A m : EntriesOf(m)' = EntriesOf(m)
    BY DEF EntriesOf
  <1>2. JournalOK' /\ NumbersAreDense'
    BY <1>1 DEF LedgerIInv, JournalOK, LedgerBooked, NumbersAreDense
  <1>3. \A s \in booking : NumberInReach(s)'
    BY <1>1 DEF LedgerIInv, BookingOK, NumberInReach
  <1> QED BY <1>2, <1>3

LEMMA SameBills ==
    ASSUME LedgerIInv, UNCHANGED <<bills, forced, collided>>
    PROVE  BillsOK' /\ StatusDerived' /\ \A s \in booking : DerivesStatus(s)'
  BY DEF LedgerIInv, BillsOK, StatusDerived, BookingOK, DerivesStatus

LEMMA CreateAccountKeeps ==
    ASSUME LedgerIInv, NEW a \in Account, CreateAccount(a)
    PROVE  LedgerIInv'
  <1> USE DEF CreateAccount
  <1>1. LedgerTypeOK' /\ BookingOK'
    BY SameJournal, SameBills DEF LedgerIInv, LedgerTypeOK, BookingOK
  <1>2. FiguresHold'
    BY FiguresStay DEF LedgerIInv
  <1> QED BY <1>1, <1>2, SameJournal, SameBills DEF LedgerIInv

LEMMA EntriesFinite ==
    ASSUME LedgerIInv, NEW m
    PROVE  IsFiniteSet(EntriesOf(m)) /\ Cardinality(EntriesOf(m)) \in Nat
  BY FS_Subset, FS_CardinalityType DEF LedgerIInv, JournalOK, LedgerBooked, EntriesOf

\* One more session, and nothing else.
LEMMA SessionKeeps ==
    ASSUME LedgerIInv, NEW s, booking' = booking \union {s},
           UNCHANGED <<ledgerTables, report, forced, collided>>,
           s \in EntrySession \union BillSession, NumberInReach(s), DerivesStatus(s)
    PROVE  LedgerIInv'
  <1> USE DEF ledgerTables
  <1>1. LedgerTypeOK'
    BY DEF LedgerIInv, LedgerTypeOK, EntrySession, BillSession
  <1>2. BookingOK'
    <2>1. NumberInReach(s)' /\ DerivesStatus(s)'
      BY DEF NumberInReach, DerivesStatus, EntriesOf
    <2> QED BY <2>1, SameJournal, SameBills DEF LedgerIInv, BookingOK
  <1>3. FiguresHold'
    BY FiguresStay DEF LedgerIInv
  <1> QED BY <1>1, <1>2, <1>3, SameJournal, SameBills DEF LedgerIInv

LEMMA BeginEntryKeeps ==
    ASSUME LedgerIInv, NEW r \in FinReq, NEW v \in Voucher, BeginEntry(r, v)
    PROVE  LedgerIInv'
  <1>1. PICK s : s = [by |-> r, voucher |-> v, no |-> NextNo(Month(v))]
    OBVIOUS
  <1>2. Cardinality(EntriesOf(Month(v))) \in Nat
    BY EntriesFinite
  <1>3. s \in EntrySession
    BY <1>1, <1>2 DEF EntrySession, NextNo
  <1>4. NumberInReach(s)
    BY <1>1, <1>2 DEF NumberInReach, NextNo, BeginEntry
  <1>5. DerivesStatus(s)
    BY <1>3 DEF DerivesStatus, EntrySession, BillSession
  <1> QED BY <1>1, <1>3, <1>4, <1>5, SessionKeeps DEF BeginEntry

LEMMA LedgerRollbackKeeps ==
    ASSUME LedgerIInv, NEW s \in booking, LedgerRollback(s)
    PROVE  LedgerIInv'
  <1> USE DEF LedgerRollback, ledgerTables
  <1>1. LedgerTypeOK' /\ BookingOK'
    BY SameJournal, SameBills DEF LedgerIInv, LedgerTypeOK, BookingOK
  <1>2. FiguresHold'
    BY FiguresStay DEF LedgerIInv
  <1> QED BY <1>1, <1>2, SameJournal, SameBills DEF LedgerIInv

LEMMA CommitEntryKeeps ==
    ASSUME LedgerIInv, NEW s \in booking, CommitEntry(s)
    PROVE  LedgerIInv'
  <1>1. PICK e : e = [voucher |-> s.voucher, no |-> s.no, posted |-> FALSE]
    OBVIOUS
  <1>2. s \in EntrySession /\ NumberInReach(s)
    BY DEF LedgerIInv, BookingOK, CommitEntry, EntrySession, BillSession
  <1>3. e \in Entry /\ journal' = journal \union {e} /\ \A f \in journal : f.voucher # e.voucher
    BY <1>1, <1>2 DEF EntrySession, Entry, CommitEntry
  <1>4. JournalOK'
    <2>1. IsFiniteSet(journal')
      BY <1>3, FS_AddElement DEF LedgerIInv, JournalOK, LedgerBooked
    <2>2. e.voucher \in Voucher /\ Balanced(Lines(e.voucher))
      BY <1>1, <1>2 DEF NumberInReach, EntrySession
    <2> QED BY <1>3, <2>1, <2>2 DEF LedgerIInv, JournalOK, LedgerBooked
  <1>5. PICK mm : mm = Month(s.voucher)
    OBVIOUS
  <1>6. /\ \A m : m # mm => EntriesOf(m)' = EntriesOf(m)
        /\ EntriesOf(mm)' = EntriesOf(mm) \union {e} /\ e \notin EntriesOf(mm)
    BY <1>1, <1>3, <1>5 DEF EntriesOf
  <1>7. PICK n \in Nat : n = Cardinality(EntriesOf(mm))
    BY EntriesFinite
  <1>8. Cardinality(EntriesOf(mm)') = n + 1
    <2>1. IsFiniteSet(EntriesOf(mm))
      BY EntriesFinite
    <2>2. Cardinality(EntriesOf(mm) \union {e}) = Cardinality(EntriesOf(mm)) + 1
      BY <1>6, <2>1, FS_AddElement
    <2> QED BY <1>6, <1>7, <2>2
  <1>9. {f.no : f \in EntriesOf(mm)} = 1 .. n
    BY <1>2, <1>5, <1>7 DEF LedgerIInv, NumbersAreDense, EntrySession
  <1>10. e.no = n + 1
    <2>1. s.no \in 1 .. n + 1
      BY <1>2, <1>5, <1>7 DEF NumberInReach
    <2>2. s.no \notin {f.no : f \in EntriesOf(mm)}
      BY <1>5 DEF CommitEntry, FreeNo
    <2> QED BY <1>1, <1>9, <2>1, <2>2
  <1>11. NumbersAreDense'
    <2> SUFFICES ASSUME NEW v \in Voucher
                 PROVE  {f.no : f \in EntriesOf(Month(v))'} = 1 .. Cardinality(EntriesOf(Month(v))')
      BY DEF NumbersAreDense
    <2>1. CASE Month(v) # mm
      BY <1>6, <2>1 DEF LedgerIInv, NumbersAreDense
    <2>2. CASE Month(v) = mm
      <3>1. {f.no : f \in EntriesOf(mm) \union {e}} = {f.no : f \in EntriesOf(mm)} \union {e.no}
        OBVIOUS
      <3>2. (1 .. n) \union {n + 1} = 1 .. n + 1
        OBVIOUS
      <3> QED BY <1>6, <1>8, <1>9, <1>10, <2>2, <3>1, <3>2
    <2> QED BY <2>1, <2>2
  <1>12. BookingOK'
    <2> SUFFICES ASSUME NEW t \in booking
                 PROVE  t \in EntrySession \union BillSession /\ NumberInReach(t)' /\ DerivesStatus(t)'
      BY DEF BookingOK, CommitEntry
    <2>1. t \in EntrySession \union BillSession /\ NumberInReach(t) /\ DerivesStatus(t)
      BY DEF LedgerIInv, BookingOK
    <2>2. NumberInReach(t)'
      <3> SUFFICES ASSUME t \in EntrySession
                   PROVE  /\ t.no \in 1 .. Cardinality(EntriesOf(Month(t.voucher))') + 1
                          /\ Balanced(Lines(t.voucher))
        BY DEF NumberInReach
      <3>1. CASE Month(t.voucher) # mm
        BY <1>6, <2>1, <3>1 DEF NumberInReach
      <3>2. CASE Month(t.voucher) = mm
        BY <1>7, <1>8, <2>1, <3>2 DEF NumberInReach
      <3> QED BY <3>1, <3>2
    <2>3. DerivesStatus(t)'
      BY <2>1 DEF DerivesStatus, CommitEntry
    <2> QED BY <2>1, <2>2, <2>3
  <1>13. LedgerTypeOK'
    BY <1>3 DEF LedgerIInv, LedgerTypeOK, CommitEntry
  <1>14. FiguresHold'
    BY FiguresStay DEF LedgerIInv, CommitEntry
  <1>15. BillsOK' /\ StatusDerived'
    BY SameBills DEF CommitEntry
  <1> QED BY <1>4, <1>11, <1>12, <1>13, <1>14, <1>15 DEF LedgerIInv

LEMMA PostEntryKeeps ==
    ASSUME LedgerIInv, NEW e \in journal, PostEntry(e)
    PROVE  LedgerIInv'
  <1>1. PICK f : f = [e EXCEPT !.posted = TRUE]
    OBVIOUS
  <1>2. /\ e \in Entry /\ f \in Entry /\ f # e
        /\ f.voucher = e.voucher /\ f.no = e.no /\ f.posted
        /\ journal' = (journal \ {e}) \union {f}
    BY <1>1 DEF LedgerIInv, LedgerTypeOK, Entry, PostEntry
  <1>3. f \notin journal
    BY <1>2 DEF LedgerIInv, JournalOK
  <1>4. JournalOK'
    <2>1. IsFiniteSet(journal')
      <3>1. IsFiniteSet(journal \ {e})
        BY FS_RemoveElement DEF LedgerIInv, JournalOK, LedgerBooked
      <3> QED BY <1>2, <3>1, FS_AddElement
    <2> QED BY <1>2, <2>1 DEF LedgerIInv, JournalOK, LedgerBooked
  <1>5. \A m : /\ Cardinality(EntriesOf(m)') = Cardinality(EntriesOf(m))
               /\ {x.no : x \in EntriesOf(m)'} = {x.no : x \in EntriesOf(m)}
    <2> SUFFICES ASSUME NEW m
                 PROVE  /\ Cardinality(EntriesOf(m)') = Cardinality(EntriesOf(m))
                        /\ {x.no : x \in EntriesOf(m)'} = {x.no : x \in EntriesOf(m)}
      OBVIOUS
    <2>1. CASE Month(e.voucher) # m
      <3>1. EntriesOf(m)' = EntriesOf(m)
        BY <1>2, <2>1 DEF EntriesOf
      <3> QED BY <3>1
    <2>2. CASE Month(e.voucher) = m
      <3>1. EntriesOf(m)' = (EntriesOf(m) \ {e}) \union {f} /\ e \in EntriesOf(m) /\ f \notin EntriesOf(m) \ {e}
        BY <1>2, <1>3, <2>2 DEF EntriesOf
      <3>2. IsFiniteSet(EntriesOf(m)) /\ Cardinality(EntriesOf(m)) \in Nat
        BY EntriesFinite
      <3>3. IsFiniteSet(EntriesOf(m) \ {e}) /\ Cardinality(EntriesOf(m) \ {e}) = Cardinality(EntriesOf(m)) - 1
        BY <3>1, <3>2, FS_RemoveElement
      <3>4. Cardinality((EntriesOf(m) \ {e}) \union {f}) = Cardinality(EntriesOf(m) \ {e}) + 1
        BY <3>1, <3>3, FS_AddElement
      <3>5. {x.no : x \in (EntriesOf(m) \ {e}) \union {f}} = {x.no : x \in EntriesOf(m)}
        BY <1>2, <3>1
      <3> QED BY <3>1, <3>2, <3>3, <3>4, <3>5
    <2> QED BY <2>1, <2>2
  <1>6. NumbersAreDense'
    BY <1>5 DEF LedgerIInv, NumbersAreDense
  <1>7. BookingOK'
    BY <1>5 DEF LedgerIInv, BookingOK, NumberInReach, DerivesStatus, PostEntry
  <1>8. LedgerTypeOK'
    BY <1>2 DEF LedgerIInv, LedgerTypeOK, PostEntry
  <1>9. FiguresHold'
    BY FiguresStay DEF LedgerIInv, PostEntry
  <1>10. BillsOK' /\ StatusDerived'
    BY SameBills DEF PostEntry
  <1> QED BY <1>4, <1>6, <1>7, <1>8, <1>9, <1>10 DEF LedgerIInv
-----------------------------------------------------------------------------

\* One bill is written, and no entry.
LEMMA BillKeeps ==
    ASSUME LedgerIInv, NEW b \in Bill, NEW row \in BillRow, bills' = [bills EXCEPT ![b] = row],
           UNCHANGED <<accounts, journal>>, Moved, booking' \subseteq booking,
           forced \subseteq forced', collided \subseteq collided',
           forced' \subseteq Bill, collided' \subseteq Bill,
           b \in forced' \union collided' \/ row.status = Derived(b, row.paid)
    PROVE  LedgerIInv'
  <1>1. BillsOK'
    <2>1. bills' \in [Bill -> BillRow \union {NoBill}]
      BY DEF LedgerIInv, BillsOK
    <2>2. {x \in Bill : bills'[x] # NoBill} \subseteq {x \in Bill : bills[x] # NoBill} \union {b}
      BY DEF LedgerIInv, BillsOK
    <2>3. IsFiniteSet({x \in Bill : bills[x] # NoBill} \union {b})
      BY FS_AddElement DEF LedgerIInv, BillsOK
    <2> QED BY <2>1, <2>2, <2>3, FS_Subset DEF BillsOK
  <1>2. StatusDerived'
    BY DEF LedgerIInv, BillsOK, StatusDerived, Derived
  <1>3. LedgerTypeOK'
    BY <1>1 DEF LedgerIInv, LedgerTypeOK, BillsOK
  <1>4. BookingOK'
    <2>1. row # NoBill
      BY BillAssumption DEF BillRow, NoBill
    <2>2. \A s \in booking : DerivesStatus(s)'
      BY <2>1 DEF LedgerIInv, BookingOK, DerivesStatus, BillsOK, BillSession
    <2> QED BY <2>2, SameJournal DEF LedgerIInv, BookingOK
  <1>5. FiguresHold'
    BY FiguresMove DEF LedgerIInv
  <1> QED BY <1>1, <1>2, <1>3, <1>4, <1>5, SameJournal DEF LedgerIInv

LEMMA DerivedIsStatus ==
    ASSUME NEW b, NEW n
    PROVE  Derived(b, n) \in {"paid", "partial", "unpaid"}
  BY DEF Derived

LEMMA CreateBillKeeps ==
    ASSUME LedgerIInv, NEW b \in Bill, NEW n \in Amount, CreateBill(b, n)
    PROVE  LedgerIInv'
  <1>1. PICK row : row = [paid |-> n, status |-> Derived(b, n)]
    OBVIOUS
  <1>2. row \in BillRow /\ row.status = Derived(b, row.paid)
    BY <1>1, DerivedIsStatus DEF BillRow, BillStatus
  <1>3. forced \subseteq Bill /\ collided \subseteq Bill
    BY DEF LedgerIInv, LedgerTypeOK
  <1> QED BY <1>1, <1>2, <1>3, BillKeeps DEF CreateBill

LEMMA BeginAmountKeeps ==
    ASSUME LedgerIInv, NEW r \in FinReq, NEW b \in Bill, NEW n \in Amount, BeginAmount(r, b, n)
    PROVE  LedgerIInv'
  <1>1. PICK s : s = [by |-> r, bill |-> b, saw |-> bills[b], hand |-> FALSE,
                      new |-> [paid |-> n, status |-> Derived(b, n)]]
    OBVIOUS
  <1>2. s.new \in BillRow /\ s.saw \in BillRow /\ s.new.status = Derived(s.bill, s.new.paid)
    BY <1>1, DerivedIsStatus DEF BillRow, BillStatus, LedgerIInv, BillsOK, BeginAmount
  <1>3. s \in BillSession /\ s \notin EntrySession
    BY <1>1, <1>2 DEF BillSession, EntrySession
  <1>4. NumberInReach(s) /\ DerivesStatus(s)
    BY <1>1, <1>2, <1>3 DEF NumberInReach, DerivesStatus, BeginAmount
  <1> QED BY <1>1, <1>3, <1>4, SessionKeeps DEF BeginAmount

LEMMA BeginStatusKeeps ==
    ASSUME LedgerIInv, NEW r \in FinReq, NEW b \in Bill, NEW st \in BillStatus, BeginStatus(r, b, st)
    PROVE  LedgerIInv'
  <1>1. PICK s : s = [by |-> r, bill |-> b, saw |-> bills[b], hand |-> TRUE,
                      new |-> [bills[b] EXCEPT !.status = st]]
    OBVIOUS
  <1>2. s.new \in BillRow /\ s.saw \in BillRow /\ s.hand
    BY <1>1 DEF BillRow, LedgerIInv, BillsOK, BeginStatus
  <1>3. s \in BillSession /\ s \notin EntrySession
    BY <1>1, <1>2 DEF BillSession, EntrySession
  <1>4. NumberInReach(s) /\ DerivesStatus(s)
    BY <1>1, <1>2, <1>3 DEF NumberInReach, DerivesStatus, BeginStatus
  <1> QED BY <1>1, <1>3, <1>4, SessionKeeps DEF BeginStatus

LEMMA CommitBillKeeps ==
    ASSUME LedgerIInv, NEW s \in booking, CommitBill(s)
    PROVE  LedgerIInv'
  <1>1. s \in BillSession /\ DerivesStatus(s)
    BY DEF LedgerIInv, BookingOK, CommitBill, EntrySession, BillSession
  <1>2. PICK row : row = Updated(s)
    OBVIOUS
  <1>3. DOMAIN s.new = {"paid", "status"}
    BY <1>1 DEF BillSession, BillRow
  <1>4. bills[s.bill] \in BillRow \union {NoBill}
    BY <1>1 DEF LedgerIInv, BillsOK, BillSession
  <1>5. s.bill \in Bill
    BY <1>1 DEF BillSession
  <1>6. row = [paid |-> IF s.new.paid # s.saw.paid THEN s.new.paid ELSE bills[s.bill].paid,
               status |-> IF s.new.status # s.saw.status THEN s.new.status ELSE bills[s.bill].status]
    BY <1>2, <1>3 DEF Updated
  <1>7. \/ bills[s.bill] = s.saw /\ row = s.new
        \/ bills[s.bill] # s.saw
    BY <1>1, <1>6 DEF BillSession, BillRow
  <1>8. bills[s.bill] # NoBill
    BY <1>1 DEF DerivesStatus
  <1>9. row \in BillRow
    BY <1>1, <1>4, <1>6, <1>8 DEF BillSession, BillRow
  <1>10. s.bill \in forced' \union collided' \/ row.status = Derived(s.bill, row.paid)
    BY <1>1, <1>7 DEF CommitBill, DerivesStatus, BillSession
  <1>11. /\ forced \subseteq forced' /\ collided \subseteq collided'
         /\ forced' \subseteq Bill /\ collided' \subseteq Bill
    BY <1>5 DEF LedgerIInv, LedgerTypeOK, CommitBill
  <1> QED BY <1>2, <1>5, <1>9, <1>10, <1>11, BillKeeps DEF CommitBill

LEMMA StartReportKeeps ==
    ASSUME LedgerIInv, StartReport
    PROVE  LedgerIInv'
  <1> USE DEF StartReport, ledgerTables
  <1>1. LedgerTypeOK' /\ BookingOK'
    BY SameJournal, SameBills DEF LedgerIInv, LedgerTypeOK, BookingOK
  <1>2. FiguresHold'
    BY DEF FiguresHold, NoReport, DashboardQueries
  <1> QED BY <1>1, <1>2, SameJournal, SameBills DEF LedgerIInv

LEMMA BillsAreFinite ==
    ASSUME LedgerIInv, NEW side
    PROVE  /\ IsFiniteSet(BillsOf(side)) /\ IsFiniteSet(Counted(side))
           /\ Counted(side) \subseteq BillsOf(side)
           /\ \A b \in BillsOf(side) : bills[b].paid \in Int /\ Invoiced(b) \in Int
  <1>1. IsFiniteSet(BillsOf(side))
    BY FS_Subset DEF LedgerIInv, BillsOK, BillsOf
  <1>2. Counted(side) \subseteq BillsOf(side)
    BY DEF Counted
  <1>3. ASSUME NEW b \in BillsOf(side) PROVE bills[b].paid \in Int /\ Invoiced(b) \in Int
    <2>1. bills[b] \in BillRow /\ b \in Bill
      BY DEF LedgerIInv, BillsOK, BillsOf
    <2>2. \A x \in Amount : x \in Int
      BY BillAssumption
    <2>3. Invoiced(b) \in Int
      BY <2>1, BillAssumption
    <2>4. bills[b].paid \in Amount
      BY <2>1 DEF BillRow
    <2>5. bills[b].paid \in Int
      BY <2>2, <2>4
    <2> QED BY <2>3, <2>5
  <1> QED BY <1>1, <1>2, <1>3, FS_Subset

LEMMA FiguresAreIntegers ==
    ASSUME LedgerIInv
    PROVE  /\ PaidOn("ar") \in Int /\ PaidOn("ap") \in Int /\ MonthToDate \in Int
           /\ ReceivableBalance \in Int /\ PayableDue \in Int
  <1>1. ASSUME NEW side PROVE PaidOn(side) \in Int
    <2> DEFINE S == BillsOf(side)
               f == [b \in S |-> bills[b].paid]
    <2>1. IsFiniteSet(S) /\ \A b \in S : f[b] \in Int
      BY BillsAreFinite
    <2>2. PaidOn(side) = SumFunctionOnSet(f, S)
      BY DEF PaidOn, SumFunction
    <2> HIDE DEF S, f
    <2> QED BY <2>1, <2>2, SumIsInteger
  <1>2. MonthToDate \in Int
    <2> DEFINE S == BillsOf("ar")
               f == [b \in S |-> Invoiced(b)]
    <2>1. IsFiniteSet(S) /\ \A b \in S : f[b] \in Int
      BY BillsAreFinite
    <2>2. MonthToDate = SumFunctionOnSet(f, S)
      BY DEF MonthToDate, SumFunction
    <2> HIDE DEF S, f
    <2> QED BY <2>1, <2>2, SumIsInteger
  <1>3. ASSUME NEW side PROVE SumFunction([b \in Counted(side) |-> Invoiced(b) - bills[b].paid]) \in Int
    <2> DEFINE S == Counted(side)
               f == [b \in S |-> Invoiced(b) - bills[b].paid]
    <2>1. IsFiniteSet(S) /\ \A b \in S : f[b] \in Int
      BY BillsAreFinite
    <2>2. SumFunction(f) = SumFunctionOnSet(f, S)
      BY DEF SumFunction
    <2>3. SumFunctionOnSet(f, S) \in Int
      <3> HIDE DEF S, f
      <3> QED BY <2>1, SumIsInteger
    <2> QED BY <2>2, <2>3
  <1> QED BY <1>1, <1>2, <1>3 DEF ReceivableBalance, PayableDue

LEMMA ReadFigureKeeps ==
    ASSUME LedgerIInv, ReadFigure
    PROVE  LedgerIInv'
  <1>1. LedgerTypeOK' /\ BookingOK'
    BY SameJournal, SameBills DEF LedgerIInv, LedgerTypeOK, BookingOK, ReadFigure, ledgerTables
  <1>2. FiguresHold'
    <2>1. PICK n : n = report.read + 1
      OBVIOUS
    <2>2. PICK x : x = DashboardFigure(DashboardQueries[n])
      OBVIOUS
    <2>3. n \in 1 .. 5 /\ bills' = bills /\ report' = [report EXCEPT !.read = n, !.figures[n] = x]
      BY <2>1, <2>2 DEF ReadFigure, DashboardQueries, ledgerTables
    <2>4. x \in Int
      <3>1. DashboardQueries[n] \in {"invoiced", "balance", "received", "paid", "due"}
        BY <2>3 DEF DashboardQueries
      <3> QED BY <2>2, <3>1, FiguresAreIntegers DEF DashboardFigure
    <2>5. \A q : DashboardFigure(q)' = DashboardFigure(q)
      <3>1. /\ \A side : PaidOn(side)' = PaidOn(side)
            /\ MonthToDate' = MonthToDate /\ ReceivableBalance' = ReceivableBalance
            /\ PayableDue' = PayableDue
        BY <2>3 DEF PaidOn, MonthToDate, ReceivableBalance, PayableDue, Counted, BillsOf
      <3> QED BY <3>1 DEF DashboardFigure
    <2>6. FiguresHold
      BY DEF LedgerIInv
    <2>7. report \in [read : 0 .. 5, figures : [1 .. 5 -> Int], moved : BOOLEAN]
      BY <2>6 DEF FiguresHold
    <2>8. PICK rep : rep = report
      OBVIOUS
    <2>9. PICK fig : fig = [rep.figures EXCEPT ![n] = x]
      OBVIOUS
    <2>10. report' = [rep EXCEPT !.read = n, !.figures = fig]
      BY <2>3, <2>8, <2>9
    <2>11. rep.figures \in [1 .. 5 -> Int] /\ rep.moved \in BOOLEAN /\ n = rep.read + 1
      BY <2>1, <2>7, <2>8
    <2>12. fig \in [1 .. 5 -> Int] /\ fig[n] = x
           /\ \A i \in 1 .. rep.read : fig[i] = rep.figures[i]
      BY <2>3, <2>4, <2>7, <2>8, <2>9, <2>11
    <2>13. report' = [read |-> n, figures |-> fig, moved |-> rep.moved]
      BY <2>7, <2>8, <2>10
    <2>14. report' \in [read : 0 .. 5, figures : [1 .. 5 -> Int], moved : BOOLEAN]
      <3>1. n \in 0 .. 5
        BY <2>3
      <3>2. PICK mv : mv = rep.moved
        OBVIOUS
      <3>3. mv \in BOOLEAN /\ report' = [read |-> n, figures |-> fig, moved |-> mv]
        BY <2>11, <2>13, <3>2
      <3> QED BY <2>12, <3>1, <3>3
    <2>15. /\ report'.read = n /\ report'.moved = report.moved /\ report'.figures[n] = x
           /\ \A i \in 1 .. report.read : report'.figures[i] = report.figures[i]
      BY <2>8, <2>12, <2>13
    <2>16. \A i \in 1 .. n : i = n \/ i \in 1 .. report.read
      BY <2>1, <2>7
    <2> QED BY <2>2, <2>5, <2>6, <2>14, <2>15, <2>16 DEF FiguresHold
  <1>3. JournalOK' /\ NumbersAreDense'
    BY SameJournal DEF ReadFigure, ledgerTables
  <1>4. BillsOK' /\ StatusDerived'
    BY SameBills DEF ReadFigure, ledgerTables
  <1> QED BY <1>1, <1>2, <1>3, <1>4 DEF LedgerIInv

LEMMA LedgerNextKeeps == ASSUME LedgerIInv, [LedgerNext]_ledgerVars PROVE LedgerIInv'
  <1>1. ASSUME NEW a \in Account, CreateAccount(a) PROVE LedgerIInv'
    BY <1>1, CreateAccountKeeps
  <1>2. ASSUME NEW r \in FinReq, NEW v \in Voucher, BeginEntry(r, v) PROVE LedgerIInv'
    BY <1>2, BeginEntryKeeps
  <1>3. ASSUME NEW s \in booking, CommitEntry(s) PROVE LedgerIInv'
    BY <1>3, CommitEntryKeeps
  <1>4. ASSUME NEW e \in journal, PostEntry(e) PROVE LedgerIInv'
    BY <1>4, PostEntryKeeps
  <1>5. ASSUME NEW b \in Bill, NEW n \in Amount, CreateBill(b, n) PROVE LedgerIInv'
    BY <1>5, CreateBillKeeps
  <1>6. ASSUME NEW r \in FinReq, NEW b \in Bill, NEW n \in Amount, BeginAmount(r, b, n)
        PROVE  LedgerIInv'
    BY <1>6, BeginAmountKeeps
  <1>7. ASSUME NEW r \in FinReq, NEW b \in Bill, NEW st \in BillStatus, BeginStatus(r, b, st)
        PROVE  LedgerIInv'
    BY <1>7, BeginStatusKeeps
  <1>8. ASSUME NEW s \in booking, CommitBill(s) PROVE LedgerIInv'
    BY <1>8, CommitBillKeeps
  <1>9. ASSUME NEW s \in booking, LedgerRollback(s) PROVE LedgerIInv'
    BY <1>9, LedgerRollbackKeeps
  <1>10. ASSUME StartReport PROVE LedgerIInv'
    BY <1>10, StartReportKeeps
  <1>11. ASSUME ReadFigure PROVE LedgerIInv'
    BY <1>11, ReadFigureKeeps
  <1>12. ASSUME UNCHANGED ledgerVars PROVE LedgerIInv'
    <2> USE <1>12 DEF ledgerVars, ledgerTables
    <2>1. LedgerTypeOK' /\ BookingOK'
      BY SameJournal, SameBills DEF LedgerIInv, LedgerTypeOK, BookingOK
    <2>2. FiguresHold'
      BY FiguresStay DEF LedgerIInv
    <2> QED BY <2>1, <2>2, SameJournal, SameBills DEF LedgerIInv
  <1> QED BY <1>1, <1>2, <1>3, <1>4, <1>5, <1>6, <1>7, <1>8, <1>9, <1>10, <1>11, <1>12 DEF LedgerNext

LEMMA LedgerInductive == LedgerSpec => []LedgerIInv
  <1> QED BY LedgerInitHolds, LedgerNextKeeps, PTL DEF LedgerSpec

\* The entries of a month are numbered without a gap or a number twice: a
\* number that another session has posted meanwhile is refused by the unique
\* constraint (gl.py numbers an entry by counting those of its month).
THEOREM NumbersAreDenseHolds == LedgerSpec => []NumbersAreDense
  <1>1. LedgerIInv => NumbersAreDense
    BY DEF LedgerIInv
  <1> QED BY <1>1, LedgerInductive, PTL

LEMMA OpenIsCounted == ASSUME LedgerIInv PROVE CountedIsOwed
  <1> SUFFICES ASSUME NEW side \in {"ap", "ar"}, NEW b \in BillsOf(side) \ (forced \union collided)
               PROVE  b \in Counted(side) <=> bills[b].paid < Invoiced(b)
    BY DEF CountedIsOwed
  <1>1. b \in Bill /\ bills[b] \in BillRow
    BY DEF LedgerIInv, BillsOK, BillsOf
  <1>2. bills[b].status = Derived(b, bills[b].paid)
    BY DEF LedgerIInv, StatusDerived, BillsOf
  <1>3. bills[b].paid \in Nat /\ Invoiced(b) \in Nat
    BY <1>1, BillAssumption DEF BillRow
  <1>4. b \in Counted(side) <=> bills[b].status \in {"unpaid", "partial"}
    <2>1. bills[b].status # "overdue"
      BY <1>2, DerivedIsStatus
    <2> QED BY <2>1 DEF Counted, OpenStatuses
  <1> QED BY <1>2, <1>3, <1>4 DEF Derived

\* Bill by bill: what was invoiced is open and counted, or received.
LEMMA SumsAddUp ==
    ASSUME NEW S, IsFiniteSet(S), NEW C \in SUBSET S, NEW inv, NEW paid, NEW due,
           \A b \in S : inv[b] \in Int /\ paid[b] \in Int,
           \A b \in C : due[b] = inv[b] - paid[b],
           \A b \in S \ C : inv[b] <= paid[b]
    PROVE  SumFunctionOnSet(inv, S) <= SumFunctionOnSet(due, C) + SumFunctionOnSet(paid, S)
  <1> DEFINE I(s) == SumFunctionOnSet(inv, s)
             P(s) == SumFunctionOnSet(paid, s)
             D(s) == SumFunctionOnSet(due, s \intersect C)
             B == {s \in SUBSET S : ~(I(s) <= D(s) + P(s))}
  <1>1. \A s \in SUBSET S : I(s) \in Int /\ P(s) \in Int /\ D(s) \in Int
    <2> SUFFICES ASSUME NEW s \in SUBSET S PROVE I(s) \in Int /\ P(s) \in Int /\ D(s) \in Int
      OBVIOUS
    <2>1. IsFiniteSet(s) /\ IsFiniteSet(s \intersect C)
      BY FS_Subset
    <2>2. \A b \in s \intersect C : due[b] \in Int
      OBVIOUS
    <2> QED BY <2>1, <2>2, SumIsInteger
  <1>2. ASSUME NEW s \in SUBSET S, NEW e \in s
        PROVE  /\ I(s) = inv[e] + I(s \ {e}) /\ P(s) = paid[e] + P(s \ {e})
               /\ D(s) = D(s \ {e}) + (IF e \in C THEN inv[e] - paid[e] ELSE 0)
    <2>1. IsFiniteSet(s) /\ IsFiniteSet(s \intersect C)
      BY FS_Subset
    <2>2. I(s) = inv[e] + I(s \ {e})
      BY <2>1, SumRemove
    <2>3. P(s) = paid[e] + P(s \ {e})
      BY <2>1, SumRemove
    <2>4. CASE e \in C
      <3>1. (s \intersect C) \ {e} = (s \ {e}) \intersect C /\ e \in s \intersect C
        BY <2>4
      <3>2. \A b \in s \intersect C : due[b] \in Int
        OBVIOUS
      <3>3. D(s) = due[e] + SumFunctionOnSet(due, (s \intersect C) \ {e})
        BY <2>1, <3>1, <3>2, SumRemove
      <3>91. s \ {e} \in SUBSET S
        OBVIOUS
      <3>92. D(s \ {e}) \in Int
        BY <1>1, <3>91
      <3>4. D(s \ {e}) \in Int /\ due[e] \in Int /\ due[e] = inv[e] - paid[e]
        BY <2>4, <3>92
      <3>5. D(s) = due[e] + D(s \ {e})
        BY <3>1, <3>3
      <3> HIDE DEF D
      <3> QED BY <2>2, <2>3, <2>4, <3>4, <3>5
    <2>5. CASE e \notin C
      <3>1. s \intersect C = (s \ {e}) \intersect C
        BY <2>5
      <3>2. D(s) = D(s \ {e}) /\ D(s) \in Int
        BY <1>1, <3>1
      <3> HIDE DEF D
      <3> QED BY <2>2, <2>3, <2>5, <3>2
    <2> QED BY <2>4, <2>5
  <1>3. I({}) = 0 /\ P({}) = 0 /\ D({}) = 0
    <2>1. {} \intersect C = {}
      OBVIOUS
    <2> QED BY <2>1, SumEmpty
  <1> HIDE DEF I, P, D
  <1>4. B = {}
    <2> SUFFICES ASSUME B # {} PROVE FALSE
      OBVIOUS
    <2>1. PICK t \in B : \A u \in B : Cardinality(t) <= Cardinality(u)
      <3>1. B \subseteq SUBSET S
        OBVIOUS
      <3> HIDE DEF B
      <3> QED BY <3>1, LeastSubset
    <2>2. t \in SUBSET S /\ ~(I(t) <= D(t) + P(t))
      OBVIOUS
    <2>91. t # {}
      <3> SUFFICES ASSUME t = {} PROVE FALSE
        OBVIOUS
      <3>1. I({}) <= D({}) + P({})
        BY <1>3
      <3> QED BY <2>2, <3>1
    <2>3. PICK e \in t : TRUE
      BY <2>91
    <2>4. t \ {e} \notin B
      <3>1. IsFiniteSet(t)
        BY <2>2, FS_Subset
      <3> HIDE DEF B
      <3> QED BY <2>1, <3>1, FewerElements
    <2>5. I(t \ {e}) <= D(t \ {e}) + P(t \ {e})
      BY <2>2, <2>4
    <2>6. /\ I(t \ {e}) \in Int /\ P(t \ {e}) \in Int /\ D(t \ {e}) \in Int
          /\ inv[e] \in Int /\ paid[e] \in Int /\ (e \notin C => inv[e] <= paid[e])
      BY <1>1, <2>2
    <2>7. /\ I(t) = inv[e] + I(t \ {e}) /\ P(t) = paid[e] + P(t \ {e})
          /\ D(t) = D(t \ {e}) + (IF e \in C THEN inv[e] - paid[e] ELSE 0)
      BY <1>2, <2>2
    <2> QED BY <2>2, <2>5, <2>6, <2>7
  <1>5. I(S) <= D(S) + P(S)
    BY <1>4
  <1>6. S \intersect C = C
    OBVIOUS
  <1> QED BY <1>5, <1>6 DEF I, P, D

LEMMA DashboardAgrees == ASSUME LedgerIInv PROVE DashboardAddsUp
  <1> SUFFICES ASSUME report.read = Len(DashboardQueries), ~report.moved,
                      BillsOf("ar") \intersect (forced \union collided) = {}
               PROVE  report.figures[1] <= report.figures[2] + report.figures[3]
    BY DEF DashboardAddsUp
  <1>1. \A i \in 1 .. 5 : report.figures[i] = DashboardFigure(DashboardQueries[i])
    BY DEF LedgerIInv, FiguresHold, DashboardQueries
  <1>2. /\ report.figures[1] = MonthToDate /\ report.figures[2] = ReceivableBalance
        /\ report.figures[3] = PaidOn("ar")
    BY <1>1 DEF DashboardQueries, DashboardFigure
  <1> DEFINE S == BillsOf("ar")
             C == Counted("ar")
             inv  == [b \in S |-> Invoiced(b)]
             paid == [b \in S |-> bills[b].paid]
             due  == [b \in C |-> Invoiced(b) - bills[b].paid]
  <1>3. /\ IsFiniteSet(S) /\ C \in SUBSET S
        /\ \A b \in S : inv[b] \in Int /\ paid[b] \in Int
        /\ \A b \in C : due[b] = inv[b] - paid[b]
    BY BillsAreFinite
  <1>4. \A b \in S \ C : inv[b] <= paid[b]
    <2> SUFFICES ASSUME NEW b \in S \ C PROVE Invoiced(b) <= bills[b].paid
      OBVIOUS
    <2>1. ~(bills[b].paid < Invoiced(b))
      BY OpenIsCounted DEF CountedIsOwed
    <2>2. bills[b].paid \in Int /\ Invoiced(b) \in Int
      BY BillsAreFinite
    <2> QED BY <2>1, <2>2
  <1>5. /\ MonthToDate = SumFunctionOnSet(inv, S) /\ ReceivableBalance = SumFunctionOnSet(due, C)
        /\ PaidOn("ar") = SumFunctionOnSet(paid, S)
    BY DEF MonthToDate, ReceivableBalance, PaidOn, SumFunction
  <1> HIDE DEF S, C, inv, paid, due
  <1>6. SumFunctionOnSet(inv, S) <= SumFunctionOnSet(due, C) + SumFunctionOnSet(paid, S)
    BY <1>3, <1>4, SumsAddUp
  <1> QED BY <1>2, <1>5, <1>6

\* At the end of every month the balance sheet is off by what is posted on
\* accounts of no known type and by nothing else, and the retained earnings are
\* the sum of the monthly incomes; what the dashboard counts as open is open,
\* and what was invoiced is received or counted as open.
THEOREM BillsAndBooksAgreeHolds == LedgerSpec => []BillsAndBooksAgree
  <1>1. LedgerIInv => BillsAndBooksAgree
    <2> SUFFICES ASSUME LedgerIInv PROVE BillsAndBooksAgree
      OBVIOUS
    <2>1. StatementsAgree
      BY StatementsFollow DEF LedgerIInv, JournalOK
    <2> QED BY <2>1, OpenIsCounted, DashboardAgrees DEF BillsAndBooksAgree, LedgerIInv
  <1> QED BY <1>1, LedgerInductive, PTL

-----------------------------------------------------------------------------
(* Attendance and wages: module Payroll. First the arithmetic of a wage:   *)
(* the brackets with their quick deductions are the progressive tax. Then  *)
(* the sessions: nobody is on a payroll twice (PaidApart), and a payroll   *)
(* of records that nobody has changed is on its way to what they say       *)
(* (UpToDate).                                                             *)

WageRow == [employee : Employee, gross : Int, taxable : Nat, tax : Int, net : Int]

PayrollRow == [by : HrReq, kind : {"payroll"}, period : WorkMonth,
               items : SUBSET WageRow, left : SUBSET (Employee \X Salary)]

IsTaxed(w) == w.taxable <= Yuan(9999999) => w.tax = Rounded(Progressive(w.taxable), 100)

\* Nobody is on a payroll twice, and somebody is.
PaidApart(items, left) ==
    /\ \A v, w \in items : v.employee = w.employee => v = w
    /\ \A x, y \in left : x[1] = y[1] => x = y
    /\ \A w \in items, x \in left : w.employee # x[1]
    /\ items # {} \/ left # {}

PayingOK ==
    \A s \in paying :
        /\ s.kind = "payroll" => /\ s \in PayrollRow
                                 /\ PaidApart(s.items, s.left)
                                 /\ \A w \in s.items : IsTaxed(w)
        /\ s.kind = "import"  => /\ s.batch \in Batch /\ s.known \subseteq Known
                                 /\ s.rows \subseteq {x \in Rows(s.batch) : x[1] \in s.known}
                                 /\ \A x \in Rows(s.batch) : x[1] \in s.known =>
                                       x \in s.rows \/ <<x[1], x[2]>> \in DOMAIN attendance

PayrollsOK ==
    \A p \in payrolls : /\ p.period \in WorkMonth /\ p.items \subseteq WageRow
                        /\ \A w \in p.items : IsTaxed(w)

\* A payroll of records nobody has changed since is on its way to what they say.
UpToDate ==
    \A s \in paying : s.kind = "payroll" /\ s.period \notin outdated =>
        /\ \A w \in s.items : \E e \in Active : w = Wage(e, staff[e].salary, s.period)
        /\ \A x \in s.left : x[1] \in Active /\ x[2] = staff[x[1]].salary
        /\ \A e \in Active : \/ <<e, staff[e].salary>> \in s.left
                             \/ Wage(e, staff[e].salary, s.period) \in s.items

RecordsOK == IsFiniteSet(DOMAIN attendance)

HrIInv ==
    /\ HrTypeOK
    /\ RecordsOK
    /\ PayingOK
    /\ PayrollsOK
    /\ UpToDate
    /\ PaidFromRecords
    /\ ImportIsWhole

-----------------------------------------------------------------------------
(* What a wage is.                                                           *)

LEMMA RoundedIsInteger ==
    ASSUME NEW n \in Int, NEW d \in Nat \ {0}
    PROVE  Rounded(n, d) \in Int
  <1>1. n \div d \in Int
    OBVIOUS
  <1> QED BY <1>1 DEF Rounded

LEMMA YuanIsInteger == \A n \in Int : Yuan(n) \in Int
  BY ScaleAssumption DEF Yuan

LEMMA ContributionsAreInteger ==
    ASSUME NEW n \in Int
    PROVE  Contributions(n) \in Int
  <1>1. PICK social \in Int : social = Clamp(n, Yuan(4900), Yuan(26533))
    BY YuanIsInteger DEF Clamp
  <1>2. PICK housing \in Int : housing = Clamp(n, Yuan(2100), Yuan(26533))
    BY YuanIsInteger DEF Clamp
  <1>3. /\ Rounded(social * 80, 1000) \in Int /\ Rounded(social * 20, 1000) \in Int
        /\ Rounded(social * 3, 1000) \in Int /\ Rounded(housing * 80, 1000) \in Int
    BY RoundedIsInteger
  <1> QED BY <1>1, <1>2, <1>3 DEF Contributions

\* The quick deductions add up: a bracket gives what its slices give.
LEMMA BracketIsSlices ==
    ASSUME NEW t \in Int
    PROVE  /\ Bracket(t) \in Int
           /\ t <= 0 => Bracket(t) = Progressive(0)
           /\ t >= 0 /\ t <= Yuan(9999999) => Bracket(t) = Progressive(t)
  <1>1. Scale \in Nat \ {0}
    BY ScaleAssumption
  <1> USE DEF Yuan
  <1>2. Bracket(t) \in Int
    BY <1>1 DEF Bracket
  <1>3. Progressive(0) = 0
    BY <1>1 DEF Progressive, Slice
  <1>4. t <= 0 => Bracket(t) = Progressive(0)
    BY <1>3 DEF Bracket
  <1>5. ASSUME t >= 0, t <= Yuan(9999999) PROVE Bracket(t) = Progressive(t)
    <2>1. CASE t <= Yuan(3000)
      BY <1>1, <1>5, <2>1 DEF Bracket, Progressive, Slice
    <2>2. CASE t > Yuan(3000) /\ t <= Yuan(12000)
      BY <1>1, <1>5, <2>2 DEF Bracket, Progressive, Slice
    <2>3. CASE t > Yuan(12000) /\ t <= Yuan(25000)
      BY <1>1, <1>5, <2>3 DEF Bracket, Progressive, Slice
    <2>4. CASE t > Yuan(25000) /\ t <= Yuan(35000)
      BY <1>1, <1>5, <2>4 DEF Bracket, Progressive, Slice
    <2>5. CASE t > Yuan(35000) /\ t <= Yuan(55000)
      BY <1>1, <1>5, <2>5 DEF Bracket, Progressive, Slice
    <2>6. CASE t > Yuan(55000) /\ t <= Yuan(80000)
      BY <1>1, <1>5, <2>6 DEF Bracket, Progressive, Slice
    <2>7. CASE t > Yuan(80000)
      BY <1>1, <1>5, <2>7 DEF Bracket, Progressive, Slice
    <2> QED BY <1>1, <2>1, <2>2, <2>3, <2>4, <2>5, <2>6, <2>7
  <1> QED BY <1>2, <1>4, <1>5

LEMMA WageOfIsTaxed ==
    ASSUME NEW e \in Employee, NEW n \in Int, NEW overtime \in Int, NEW absent \in Int
    PROVE  /\ WageOf(e, n, overtime, absent) \in WageRow
           /\ WageOf(e, n, overtime, absent).employee = e
           /\ IsTaxed(WageOf(e, n, overtime, absent))
  <1>1. PICK gross \in Int : gross = Gross(n, overtime, absent)
    <2>1. n * 3 * overtime \in Int /\ n * absent * 100 \in Int
      OBVIOUS
    <2>2. Rounded(n * 3 * overtime, 348) \in Int /\ Rounded(n * absent * 100, 2175) \in Int
      BY <2>1, RoundedIsInteger
    <2> QED BY <2>2 DEF Gross
  <1>2. PICK t \in Int : t = Taxable(n, gross)
    BY ContributionsAreInteger, YuanIsInteger DEF Taxable
  <1>3. PICK tax \in Int : tax = Rounded(Bracket(t), 100)
    BY BracketIsSlices, RoundedIsInteger
  <1>4. PICK base \in Nat : base = Max({0, t}) /\ base = IF 0 >= t THEN 0 ELSE t
    <2>1. Max({0, t}) = IF 0 >= t THEN 0 ELSE t
      BY MaxOfTwo
    <2> QED BY <2>1
  <1>5. PICK net \in Int : net = gross - Contributions(n) - tax
    BY ContributionsAreInteger
  <1>6. PICK w : w = [employee |-> e, gross |-> gross, taxable |-> base, tax |-> tax, net |-> net]
    OBVIOUS
  <1>7. WageOf(e, n, overtime, absent) = w
    BY <1>1, <1>2, <1>3, <1>4, <1>5, <1>6 DEF WageOf
  <1>8. w \in WageRow /\ w.employee = e /\ w.taxable = base /\ w.tax = tax
    BY <1>6 DEF WageRow
  <1>9. base <= Yuan(9999999) => Bracket(t) = Progressive(base)
    BY <1>4, BracketIsSlices
  <1> QED BY <1>3, <1>7, <1>8, <1>9 DEF IsTaxed

LEMMA SummaryIsNumbers ==
    ASSUME HrTypeOK, RecordsOK, NEW e, NEW m
    PROVE  Summary(e, m).overtime \in Int /\ Summary(e, m).absent \in Int
  <1> DEFINE rs == RecordsOf(e, m)
             P  == {j \in rs : attendance[j] \in {"normal", "late"}}
             f  == [k \in P |-> Overtime(k[2])]
             A  == {k \in rs : attendance[k] = "absent"}
  <1>1. rs \subseteq DOMAIN attendance /\ IsFiniteSet(rs)
    <2>1. rs \subseteq DOMAIN attendance
      BY DEF RecordsOf
    <2> QED BY <2>1, FS_Subset DEF RecordsOK
  <1>2. IsFiniteSet(P) /\ IsFiniteSet(A)
    BY <1>1, FS_Subset
  <1>3. \A k \in P : f[k] \in Nat
    BY <1>1, OvertimeAssumption DEF HrTypeOK
  <1>4. DOMAIN f = P
    OBVIOUS
  <1>5. Summary(e, m) = [overtime |-> SumFunction(f), absent |-> Cardinality(A)]
    BY DEF Summary
  <1> HIDE DEF rs, P, f, A
  <1>6. SumFunction(f) \in Nat
    BY <1>2, <1>3, <1>4, SumIsNatural DEF SumFunction
  <1>7. Cardinality(A) \in Nat
    BY <1>2, FS_CardinalityType
  <1> QED BY <1>5, <1>6, <1>7

LEMMA WageIsTaxed ==
    ASSUME HrTypeOK, RecordsOK, NEW e \in Employee, NEW n \in Salary, NEW m
    PROVE  /\ Wage(e, n, m) \in WageRow
           /\ Wage(e, n, m).employee = e
           /\ IsTaxed(Wage(e, n, m))
  <1>1. Summary(e, m).overtime \in Int /\ Summary(e, m).absent \in Int /\ n \in Int
    BY SummaryIsNumbers, SalaryAssumption
  <1> QED BY <1>1, WageOfIsTaxed DEF Wage

\* A wage depends on the records of its month only.
LEMMA SameWage ==
    ASSUME NEW e, NEW n, NEW m, DOMAIN attendance \subseteq DOMAIN attendance',
           \A k \in DOMAIN attendance : attendance'[k] = attendance[k],
           \A k \in DOMAIN attendance' \ DOMAIN attendance : Period(k[2]) # m
    PROVE  Wage(e, n, m)' = Wage(e, n, m)
  <1>1. RecordsOf(e, m)' = RecordsOf(e, m)
    BY DEF RecordsOf
  <1>2. \A k \in RecordsOf(e, m) : attendance'[k] = attendance[k]
    BY DEF RecordsOf
  <1>3. Summary(e, m)' = Summary(e, m)
    <2> DEFINE rs == RecordsOf(e, m)
    <2>1. {j \in rs : attendance'[j] \in {"normal", "late"}} = {j \in rs : attendance[j] \in {"normal", "late"}}
      BY <1>2
    <2>2. {j \in rs : attendance'[j] = "absent"} = {j \in rs : attendance[j] = "absent"}
      BY <1>2
    <2> HIDE DEF rs
    <2>3. rs' = rs
      BY <1>1 DEF rs
    <2>4. Summary(e, m) =
            [overtime |-> SumFunction([k \in {j \in rs : attendance[j] \in {"normal", "late"}} |->
                                          Overtime(k[2])]),
             absent   |-> Cardinality({k \in rs : attendance[k] = "absent"})]
      BY DEF Summary, rs
    <2>5. Summary(e, m)' =
            [overtime |-> SumFunction([k \in {j \in rs : attendance'[j] \in {"normal", "late"}} |->
                                          Overtime(k[2])]),
             absent   |-> Cardinality({k \in rs : attendance'[k] = "absent"})]
      BY <1>1 DEF Summary, rs
    <2> QED BY <2>1, <2>2, <2>4, <2>5
  <1> QED BY <1>3 DEF Wage

LEMMA HeadCount ==
    ASSUME NEW items, items \subseteq WageRow, PaidApart(items, {})
    PROVE  Cardinality(items) \in 1 .. Cardinality(Employee)
  <1> DEFINE f == [w \in items |-> w.employee]
  <1>1. f \in Injection(items, Employee)
    BY DEF Injection, IsInjective, PaidApart, WageRow
  <1>2. IsFiniteSet(items) /\ Cardinality(items) <= Cardinality(Employee)
    BY <1>1, EmployeeAssumption, FS_Injection
  <1>3. Cardinality(items) \in Nat /\ Cardinality(Employee) \in Nat /\ Cardinality(items) # 0
    BY <1>2, EmployeeAssumption, FS_CardinalityType, FS_EmptySet DEF PaidApart
  <1> QED BY <1>2, <1>3

-----------------------------------------------------------------------------
(* The steps.                                                                *)

LEMMA NothingThere == DOMAIN <<>> = {} /\ IsFiniteSet(DOMAIN <<>>)
  BY FS_EmptySet

LEMMA HrInitHolds == HrInit => HrIInv
  <1> SUFFICES ASSUME HrInit PROVE HrIInv
    OBVIOUS
  <1>1. /\ DOMAIN staff = {} /\ DOMAIN attendance = {} /\ IsFiniteSet(DOMAIN attendance)
        /\ imported = {} /\ payrolls = {} /\ paying = {} /\ outdated = {}
    BY NothingThere DEF HrInit
  <1>2. HrTypeOK /\ RecordsOK
    BY <1>1 DEF HrTypeOK, RecordsOK, Known
  <1>3. PayingOK /\ PayrollsOK /\ UpToDate /\ PaidFromRecords /\ ImportIsWhole
    BY <1>1 DEF PayingOK, PayrollsOK, UpToDate, PaidFromRecords, ImportIsWhole
  <1> QED BY <1>2, <1>3 DEF HrIInv

LEMMA PaidIsMonths == ASSUME HrIInv PROVE Paid \subseteq WorkMonth
  BY DEF HrIInv, Paid, PayrollsOK, PayingOK, PayrollRow

\* A change of the employees outdates all there is.
LEMMA StaffChanges ==
    ASSUME HrIInv, NEW e \in Employee, NEW row, row \in [active : BOOLEAN, salary : Salary],
           staff' = Put(staff, e, row), outdated' = outdated \union Paid,
           UNCHANGED <<attendance, imported, payrolls, paying>>
    PROVE  HrIInv'
  <1>1. Known' = Known \union {e} /\ \A x \in Known' : staff'[x] = IF x = e THEN row ELSE staff[x]
    BY DEF Put, Known
  <1>2. HrTypeOK' /\ RecordsOK'
    BY <1>1, PaidIsMonths DEF HrIInv, HrTypeOK, RecordsOK
  <1>3. PayingOK' /\ PayrollsOK' /\ ImportIsWhole'
    BY <1>1 DEF HrIInv, PayingOK, PayrollsOK, ImportIsWhole
  <1>4. UpToDate'
    BY DEF UpToDate, Paid
  <1>5. PaidFromRecords'
    BY DEF HrIInv, PaidFromRecords, Paid
  <1> QED BY <1>2, <1>3, <1>4, <1>5 DEF HrIInv

LEMMA CreateEmployeeKeeps ==
    ASSUME HrIInv, NEW e \in Employee, NEW n \in Salary, CreateEmployee(e, n)
    PROVE  HrIInv'
  BY StaffChanges DEF CreateEmployee

LEMMA UpdateEmployeeKeeps ==
    ASSUME HrIInv, NEW e \in Employee, NEW a \in BOOLEAN, NEW n \in Salary,
           UpdateEmployee(e, a, n)
    PROVE  HrIInv'
  BY StaffChanges DEF UpdateEmployee

\* Records come in and outdate the payrolls of their months.
LEMMA RecordsComeIn ==
    ASSUME HrIInv, NEW K, IsFiniteSet(K), K \subseteq Known \X Day,
           K \intersect DOMAIN attendance = {},
           DOMAIN attendance' = DOMAIN attendance \union K,
           \A k \in DOMAIN attendance : attendance'[k] = attendance[k],
           \A k \in K : attendance'[k] \in AttendanceStatus,
           outdated' = outdated \union ({Period(k[2]) : k \in K} \intersect Paid),
           paying' \subseteq paying, UNCHANGED <<staff, payrolls>>
    PROVE  /\ HrTypeOK' /\ RecordsOK' /\ PayingOK' /\ PayrollsOK'
           /\ UpToDate' /\ PaidFromRecords'
  <1>1. Known' = Known /\ Active' = Active
    BY DEF Known, Active
  <1>2. outdated' \subseteq WorkMonth
    BY PaidIsMonths DEF HrIInv, HrTypeOK
  <1>3. HrTypeOK'
    BY <1>1, <1>2 DEF HrIInv, HrTypeOK
  <1>4. RecordsOK'
    <2>1. IsFiniteSet(DOMAIN attendance)
      BY DEF HrIInv, RecordsOK
    <2>2. IsFiniteSet(DOMAIN attendance \union K)
      BY <2>1, FS_Union
    <2> QED BY <2>2 DEF RecordsOK
  <1>5. PayingOK' /\ PayrollsOK'
    BY <1>1 DEF HrIInv, PayingOK, PayrollsOK
  <1>6. \A m \in Paid : m \notin outdated' =>
           m \notin outdated /\ \A e, n : Wage(e, n, m)' = Wage(e, n, m)
    <2> SUFFICES ASSUME NEW m \in Paid, m \notin outdated', NEW e, NEW n
                 PROVE  m \notin outdated /\ Wage(e, n, m)' = Wage(e, n, m)
      OBVIOUS
    <2>1. m \notin outdated /\ \A k \in DOMAIN attendance' \ DOMAIN attendance : Period(k[2]) # m
      OBVIOUS
    <2> QED BY <2>1, SameWage
  <1>7. UpToDate'
    <2> SUFFICES ASSUME NEW s \in paying', s.kind = "payroll", s.period \notin outdated'
                 PROVE  /\ \A w \in s.items : \E e \in Active : w = Wage(e, staff[e].salary, s.period)'
                        /\ \A x \in s.left : x[1] \in Active /\ x[2] = staff[x[1]].salary
                        /\ \A e \in Active : \/ <<e, staff[e].salary>> \in s.left
                                             \/ Wage(e, staff[e].salary, s.period)' \in s.items
      BY <1>1 DEF UpToDate
    <2>1. s \in paying /\ s.period \in Paid
      BY DEF Paid
    <2>2. PICK m : m = s.period
      OBVIOUS
    <2>3. m \notin outdated /\ \A e, n : Wage(e, n, m)' = Wage(e, n, m)
      BY <1>6, <2>1, <2>2
    <2>4. /\ \A w \in s.items : \E e \in Active : w = Wage(e, staff[e].salary, m)
          /\ \A x \in s.left : x[1] \in Active /\ x[2] = staff[x[1]].salary
          /\ \A e \in Active : \/ <<e, staff[e].salary>> \in s.left
                               \/ Wage(e, staff[e].salary, m) \in s.items
      BY <2>1, <2>2, <2>3 DEF HrIInv, UpToDate
    <2>5. \A e : Wage(e, staff[e].salary, s.period)' = Wage(e, staff[e].salary, m)
      BY <2>2, <2>3
    <2> QED BY <2>4, <2>5
  <1>8. PaidFromRecords'
    <2>1. ASSUME NEW p \in payrolls, p.period \notin outdated'
          PROVE  p.items = {Wage(e, staff[e].salary, p.period)' : e \in Active}
      <3>1. PICK m : m = p.period
        OBVIOUS
      <3>2. m \in Paid
        BY <3>1 DEF Paid
      <3>3. m \notin outdated /\ \A e, n : Wage(e, n, m)' = Wage(e, n, m)
        BY <1>6, <2>1, <3>1, <3>2
      <3>4. p.items = {Wage(e, staff[e].salary, m) : e \in Active}
        BY <3>1, <3>3 DEF HrIInv, PaidFromRecords
      <3>5. \A e : Wage(e, staff[e].salary, p.period)' = Wage(e, staff[e].salary, m)
        BY <3>1, <3>3
      <3> QED BY <3>4, <3>5
    <2>2. \A p, q \in payrolls' : p.period = q.period => p = q
      BY DEF HrIInv, PaidFromRecords
    <2> QED BY <1>1, <2>1, <2>2 DEF PaidFromRecords
  <1> QED BY <1>3, <1>4, <1>5, <1>7, <1>8

LEMMA CreateAttendanceKeeps ==
    ASSUME HrIInv, NEW e \in Employee, NEW d \in Day, NEW st \in AttendanceStatus,
           CreateAttendance(e, d, st)
    PROVE  HrIInv'
  <1>1. PICK k : k = <<e, d>>
    OBVIOUS
  <1>2. /\ k \notin DOMAIN attendance /\ k \in Known \X Day /\ k[2] = d
        /\ attendance' = Put(attendance, k, st)
        /\ outdated' = outdated \union ({Period(k[2])} \intersect Paid)
        /\ UNCHANGED <<staff, imported, payrolls, paying>>
    BY <1>1 DEF CreateAttendance
  <1>3. /\ DOMAIN attendance' = DOMAIN attendance \union {k} /\ attendance'[k] = st
        /\ \A j \in DOMAIN attendance : attendance'[j] = attendance[j]
    BY <1>2 DEF Put
  <1>4. {Period(j[2]) : j \in {k}} = {Period(k[2])} /\ IsFiniteSet({k})
    <2>1. IsFiniteSet({k})
      BY FS_Singleton
    <2> QED BY <2>1
  <1>5. /\ HrTypeOK' /\ RecordsOK' /\ PayingOK' /\ PayrollsOK'
        /\ UpToDate' /\ PaidFromRecords'
    <2> DEFINE K == {k}
    <2>1. /\ IsFiniteSet(K) /\ K \subseteq Known \X Day
          /\ K \intersect DOMAIN attendance = {}
          /\ DOMAIN attendance' = DOMAIN attendance \union K
          /\ \A j \in DOMAIN attendance : attendance'[j] = attendance[j]
          /\ \A j \in K : attendance'[j] \in AttendanceStatus
          /\ outdated' = outdated \union ({Period(j[2]) : j \in K} \intersect Paid)
          /\ paying' \subseteq paying /\ UNCHANGED <<staff, payrolls>>
      BY <1>2, <1>3, <1>4
    <2> HIDE DEF K
    <2> QED BY <2>1, RecordsComeIn
  <1>6. ImportIsWhole'
    BY <1>2, <1>3 DEF HrIInv, ImportIsWhole
  <1> QED BY <1>5, <1>6 DEF HrIInv

LEMMA BeginImportKeeps ==
    ASSUME HrIInv, NEW r \in HrReq, NEW b \in Batch, BeginImport(r, b)
    PROVE  HrIInv'
  <1>1. PICK s : s = [by |-> r, kind |-> "import", batch |-> b, known |-> Known,
                      rows |-> FreshRows(b)]
    OBVIOUS
  <1>2. s.kind = "import" /\ s.batch = b /\ s.known = Known /\ s.rows = FreshRows(b)
    BY <1>1
  <1>3. paying' = paying \union {s} /\ UNCHANGED <<staff, attendance, imported, payrolls, outdated>>
    BY <1>1 DEF BeginImport, hrTables
  <1>4. Known' = Known /\ Active' = Active
    BY <1>3 DEF Known, Active
  <1>5. HrTypeOK' /\ RecordsOK' /\ PayrollsOK' /\ ImportIsWhole'
    BY <1>3, <1>4 DEF HrIInv, HrTypeOK, RecordsOK, PayrollsOK, ImportIsWhole
  <1>6. PayingOK'
    <2>1. /\ s.rows \subseteq {x \in Rows(s.batch) : x[1] \in s.known}
          /\ \A x \in Rows(s.batch) : x[1] \in s.known =>
                x \in s.rows \/ <<x[1], x[2]>> \in DOMAIN attendance
      BY <1>2 DEF FreshRows
    <2> QED BY <1>2, <1>3, <1>4, <2>1 DEF HrIInv, PayingOK
  <1>7. \A e, n, m : Wage(e, n, m)' = Wage(e, n, m)
    BY <1>3 DEF Wage, Summary, RecordsOf
  <1>8. UpToDate' /\ PaidFromRecords'
    BY <1>2, <1>3, <1>4, <1>7 DEF HrIInv, UpToDate, PaidFromRecords
  <1> QED BY <1>5, <1>6, <1>8 DEF HrIInv

LEMMA CommitImportKeeps ==
    ASSUME HrIInv, NEW s \in paying, CommitImport(s)
    PROVE  HrIInv'
  <1>1. PICK K : K = {<<x[1], x[2]>> : x \in s.rows}
    OBVIOUS
  <1>2. /\ s.batch \in Batch /\ s.known \subseteq Known
        /\ s.rows \subseteq {x \in Rows(s.batch) : x[1] \in s.known}
        /\ \A x \in Rows(s.batch) : x[1] \in s.known =>
              x \in s.rows \/ <<x[1], x[2]>> \in DOMAIN attendance
    BY DEF HrIInv, PayingOK, CommitImport
  <1>3. /\ K \intersect DOMAIN attendance = {}
        /\ attendance' = [k \in DOMAIN attendance \union K |->
               IF k \in K THEN (CHOOSE x \in s.rows : <<x[1], x[2]>> = k)[3] ELSE attendance[k]]
        /\ imported' = imported \union {<<s.batch, s.known>>}
        /\ outdated' = outdated \union ({Period(k[2]) : k \in K} \intersect Paid)
        /\ paying' = paying \ {s} /\ UNCHANGED <<staff, payrolls>>
    BY <1>1 DEF CommitImport
  <1>4. IsFiniteSet(K)
    <2>1. IsFiniteSet(s.rows)
      <3>1. IsFiniteSet(Rows(s.batch)) /\ s.rows \subseteq Rows(s.batch)
        BY <1>2, RowsAssumption
      <3> QED BY <3>1, FS_Subset
    <2>2. [x \in s.rows |-> <<x[1], x[2]>>] \in Surjection(s.rows, K)
      BY <1>1 DEF Surjection
    <2> QED BY <2>1, <2>2, FS_Surjection
  <1>5. K \subseteq Known \X Day
    BY <1>1, <1>2, RowsAssumption
  <1>6. \A k \in K : attendance'[k] \in AttendanceStatus
    <2> SUFFICES ASSUME NEW k \in K PROVE attendance'[k] \in AttendanceStatus
      OBVIOUS
    <2>1. PICK y : y = CHOOSE x \in s.rows : <<x[1], x[2]>> = k
      OBVIOUS
    <2>2. \E x \in s.rows : <<x[1], x[2]>> = k
      BY <1>1
    <2>3. y \in s.rows
      BY <2>1, <2>2
    <2>4. y[3] \in AttendanceStatus
      BY <1>2, <2>3, RowsAssumption
    <2>5. attendance'[k] = y[3]
      BY <1>3, <2>1
    <2> QED BY <2>4, <2>5
  <1>7. /\ DOMAIN attendance' = DOMAIN attendance \union K
        /\ \A k \in DOMAIN attendance : attendance'[k] = attendance[k]
    BY <1>3
  <1>8. /\ HrTypeOK' /\ RecordsOK' /\ PayingOK' /\ PayrollsOK'
        /\ UpToDate' /\ PaidFromRecords'
    <2>1. paying' \subseteq paying
      BY <1>3
    <2> QED BY <1>3, <1>4, <1>5, <1>6, <1>7, <2>1, RecordsComeIn
  <1>9. ImportIsWhole'
    <2>1. \A x \in Rows(s.batch) : x[1] \in s.known => <<x[1], x[2]>> \in DOMAIN attendance'
      BY <1>1, <1>2, <1>7
    <2>2. \A i \in imported : \A x \in Rows(i[1]) :
             x[1] \in i[2] => <<x[1], x[2]>> \in DOMAIN attendance'
      BY <1>7 DEF HrIInv, ImportIsWhole
    <2>3. \A i \in imported' : i \in imported \/ (i[1] = s.batch /\ i[2] = s.known)
      BY <1>3
    <2> QED BY <2>1, <2>2, <2>3 DEF ImportIsWhole
  <1> QED BY <1>8, <1>9 DEF HrIInv

\* Only the payrolls move.
LEMMA RecordsStay ==
    ASSUME UNCHANGED <<staff, attendance>>
    PROVE  /\ Known' = Known /\ Active' = Active
           /\ \A e, n, m : Wage(e, n, m)' = Wage(e, n, m)
  <1>1. Known' = Known /\ Active' = Active
    BY DEF Known, Active
  <1>2. \A e, n, m : Wage(e, n, m)' = Wage(e, n, m)
    BY DEF Wage, Summary, RecordsOf
  <1> QED BY <1>1, <1>2

LEMMA BeginPayrollKeeps ==
    ASSUME HrIInv, NEW r \in HrReq, NEW m \in WorkMonth, BeginPayroll(r, m)
    PROVE  HrIInv'
  <1>1. PICK left : left = {<<e, staff[e].salary>> : e \in Active}
    OBVIOUS
  <1>2. PICK s : s = [by |-> r, kind |-> "payroll", period |-> m, items |-> {}, left |-> left]
    OBVIOUS
  <1>3. s.kind = "payroll" /\ s.period = m /\ s.items = {} /\ s.left = left
    BY <1>2
  <1>4. /\ Active # {} /\ paying' = paying \union {s}
        /\ UNCHANGED <<staff, attendance, imported, payrolls, outdated>>
    BY <1>1, <1>2 DEF BeginPayroll, hrTables
  <1>5. \A e \in Active : e \in Employee /\ staff[e].salary \in Salary
    BY DEF HrIInv, HrTypeOK, Active
  <1>6. s \in PayrollRow /\ PaidApart(s.items, s.left)
    <2>1. left \subseteq Employee \X Salary /\ left # {}
      <3>1. PICK a \in Active : TRUE
        BY <1>4
      <3>2. <<a, staff[a].salary>> \in left
        BY <1>1
      <3>3. left \subseteq Employee \X Salary
        BY <1>1, <1>5
      <3> QED BY <3>2, <3>3
    <2>2. \A x, y \in left : x[1] = y[1] => x = y
      BY <1>1
    <2> QED BY <1>2, <1>3, <2>1, <2>2 DEF PayrollRow, PaidApart
  <1>7. HrTypeOK' /\ RecordsOK' /\ PayrollsOK' /\ ImportIsWhole'
    BY <1>4, RecordsStay DEF HrIInv, HrTypeOK, RecordsOK, PayrollsOK, ImportIsWhole
  <1>8. PayingOK'
    BY <1>3, <1>4, <1>6, RecordsStay DEF HrIInv, PayingOK
  <1>9. UpToDate'
    <2>1. \A x \in left : x[1] \in Active /\ x[2] = staff[x[1]].salary
      BY <1>1
    <2>2. \A e \in Active : <<e, staff[e].salary>> \in left
      BY <1>1
    <2> QED BY <1>3, <1>4, <2>1, <2>2, RecordsStay DEF HrIInv, UpToDate
  <1>10. PaidFromRecords'
    BY <1>4, RecordsStay DEF HrIInv, PaidFromRecords
  <1> QED BY <1>7, <1>8, <1>9, <1>10 DEF HrIInv

LEMMA PayNextKeeps ==
    ASSUME HrIInv, NEW s \in paying, PayNext(s)
    PROVE  HrIInv'
  <1>1. /\ s \in PayrollRow /\ PaidApart(s.items, s.left) /\ s.kind = "payroll"
        /\ \A w \in s.items : IsTaxed(w)
    BY DEF HrIInv, PayingOK, PayNext
  <1>2. PICK x \in s.left :
           paying' = (paying \ {s}) \union
               {[s EXCEPT !.left = s.left \ {x}, !.items = s.items \union {Wage(x[1], x[2], s.period)}]}
    BY DEF PayNext
  <1>3. PICK v : v = Wage(x[1], x[2], s.period)
    OBVIOUS
  <1>4. PICK t : t = [s EXCEPT !.left = s.left \ {x}, !.items = s.items \union {v}]
    OBVIOUS
  <1>5. x[1] \in Employee /\ x[2] \in Salary
    BY <1>1 DEF PayrollRow
  <1>6. v \in WageRow /\ v.employee = x[1] /\ IsTaxed(v)
    BY <1>3, <1>5, WageIsTaxed DEF HrIInv
  <1>7. /\ t \in PayrollRow /\ t.kind = "payroll" /\ t.period = s.period
        /\ t.left = s.left \ {x} /\ t.items = s.items \union {v}
    BY <1>1, <1>4, <1>6 DEF PayrollRow
  <1>8. /\ paying' = (paying \ {s}) \union {t}
        /\ UNCHANGED <<staff, attendance, imported, payrolls, outdated>>
    BY <1>2, <1>3, <1>4 DEF PayNext, hrTables
  <1>9. PaidApart(t.items, t.left) /\ \A w \in t.items : IsTaxed(w)
    BY <1>1, <1>6, <1>7 DEF PaidApart
  <1>10. HrTypeOK' /\ RecordsOK' /\ PayrollsOK' /\ ImportIsWhole'
    BY <1>8, RecordsStay DEF HrIInv, HrTypeOK, RecordsOK, PayrollsOK, ImportIsWhole
  <1>11. PayingOK'
    BY <1>7, <1>8, <1>9, RecordsStay DEF HrIInv, PayingOK
  <1>12. UpToDate'
    <2>1. ASSUME t.period \notin outdated
          PROVE  /\ \A w \in t.items : \E e \in Active : w = Wage(e, staff[e].salary, t.period)
                 /\ \A y \in t.left : y[1] \in Active /\ y[2] = staff[y[1]].salary
                 /\ \A e \in Active : \/ <<e, staff[e].salary>> \in t.left
                                      \/ Wage(e, staff[e].salary, t.period) \in t.items
      <3>1. /\ \A w \in s.items : \E e \in Active : w = Wage(e, staff[e].salary, s.period)
            /\ \A y \in s.left : y[1] \in Active /\ y[2] = staff[y[1]].salary
            /\ \A e \in Active : \/ <<e, staff[e].salary>> \in s.left
                                 \/ Wage(e, staff[e].salary, s.period) \in s.items
        BY <1>1, <1>7, <2>1 DEF HrIInv, UpToDate
      <3>2. x[1] \in Active /\ v = Wage(x[1], staff[x[1]].salary, s.period)
        BY <1>3, <3>1
      <3>3. \A e \in Active : <<e, staff[e].salary>> = x => Wage(e, staff[e].salary, s.period) = v
        BY <1>3
      <3> QED BY <1>7, <3>1, <3>2, <3>3
    <2> QED BY <1>8, <2>1, RecordsStay DEF HrIInv, UpToDate
  <1>13. PaidFromRecords'
    BY <1>8, RecordsStay DEF HrIInv, PaidFromRecords
  <1> QED BY <1>10, <1>11, <1>12, <1>13 DEF HrIInv

LEMMA CommitPayrollKeeps ==
    ASSUME HrIInv, NEW s \in paying, CommitPayroll(s)
    PROVE  HrIInv'
  <1>1. /\ s \in PayrollRow /\ PaidApart(s.items, s.left) /\ s.left = {} /\ s.kind = "payroll"
        /\ \A w \in s.items : IsTaxed(w)
    BY DEF HrIInv, PayingOK, CommitPayroll
  <1>2. PICK q : q = [period |-> s.period, items |-> s.items, heads |-> Cardinality(s.items),
                      total |-> SumFunction([w \in s.items |-> w.net])]
    OBVIOUS
  <1>3. q.period = s.period /\ q.items = s.items /\ q.heads = Cardinality(s.items)
    BY <1>2
  <1>4. /\ payrolls' = payrolls \union {q} /\ paying' = paying \ {s}
        /\ \A p \in payrolls : p.period # s.period
        /\ UNCHANGED <<staff, attendance, imported, outdated>>
    BY <1>2 DEF CommitPayroll
  <1>5. /\ s.period \in WorkMonth /\ s.items \subseteq WageRow
        /\ Cardinality(s.items) \in 1 .. Cardinality(Employee)
    BY <1>1, HeadCount DEF PayrollRow
  <1>6. HrTypeOK' /\ RecordsOK' /\ ImportIsWhole'
    BY <1>3, <1>4, <1>5, RecordsStay DEF HrIInv, HrTypeOK, RecordsOK, ImportIsWhole
  <1>7. PayrollsOK'
    BY <1>1, <1>3, <1>4, <1>5 DEF HrIInv, PayrollsOK
  <1>8. PayingOK' /\ UpToDate'
    BY <1>4, RecordsStay DEF HrIInv, PayingOK, UpToDate
  <1>9. PaidFromRecords'
    <2>1. ASSUME s.period \notin outdated
          PROVE  s.items = {Wage(e, staff[e].salary, s.period) : e \in Active}
      <3>1. /\ \A w \in s.items : \E e \in Active : w = Wage(e, staff[e].salary, s.period)
            /\ \A e \in Active : Wage(e, staff[e].salary, s.period) \in s.items
        BY <1>1, <2>1 DEF HrIInv, UpToDate
      <3> QED BY <3>1
    <2>2. \A p, r \in payrolls' : p.period = r.period => p = r
      BY <1>3, <1>4 DEF HrIInv, PaidFromRecords
    <2>3. \A p \in payrolls' : p.period \notin outdated =>
             p.items = {Wage(e, staff[e].salary, p.period) : e \in Active}
      BY <1>3, <1>4, <2>1 DEF HrIInv, PaidFromRecords
    <2> QED BY <1>4, <2>2, <2>3, RecordsStay DEF PaidFromRecords
  <1> QED BY <1>6, <1>7, <1>8, <1>9 DEF HrIInv

\* A session ends without a trace, or nothing happens.
LEMMA SessionsEnd ==
    ASSUME HrIInv, paying' \subseteq paying, UNCHANGED <<hrTables, outdated>>
    PROVE  HrIInv'
  <1> USE RecordsStay DEF hrTables, HrIInv
  <1>1. HrTypeOK' /\ RecordsOK' /\ PayrollsOK' /\ ImportIsWhole'
    BY DEF HrTypeOK, RecordsOK, PayrollsOK, ImportIsWhole
  <1>2. PayingOK' /\ UpToDate'
    BY DEF PayingOK, UpToDate
  <1>3. PaidFromRecords'
    BY DEF PaidFromRecords
  <1> QED BY <1>1, <1>2, <1>3

LEMMA HrNextKeeps == ASSUME HrIInv, [HrNext]_hrVars PROVE HrIInv'
  <1>1. ASSUME NEW e \in Employee, NEW n \in Salary, CreateEmployee(e, n) PROVE HrIInv'
    BY <1>1, CreateEmployeeKeeps
  <1>2. ASSUME NEW e \in Employee, NEW a \in BOOLEAN, NEW n \in Salary, UpdateEmployee(e, a, n)
        PROVE  HrIInv'
    BY <1>2, UpdateEmployeeKeeps
  <1>3. ASSUME NEW e \in Employee, NEW d \in Day, NEW st \in AttendanceStatus,
               CreateAttendance(e, d, st)
        PROVE  HrIInv'
    BY <1>3, CreateAttendanceKeeps
  <1>4. ASSUME NEW r \in HrReq, NEW b \in Batch, BeginImport(r, b) PROVE HrIInv'
    BY <1>4, BeginImportKeeps
  <1>5. ASSUME NEW s \in paying, CommitImport(s) PROVE HrIInv'
    BY <1>5, CommitImportKeeps
  <1>6. ASSUME NEW r \in HrReq, NEW m \in WorkMonth, BeginPayroll(r, m) PROVE HrIInv'
    BY <1>6, BeginPayrollKeeps
  <1>7. ASSUME NEW s \in paying, PayNext(s) PROVE HrIInv'
    BY <1>7, PayNextKeeps
  <1>8. ASSUME NEW s \in paying, CommitPayroll(s) PROVE HrIInv'
    BY <1>8, CommitPayrollKeeps
  <1>9. ASSUME NEW s \in paying, HrRollback(s) PROVE HrIInv'
    BY <1>9, SessionsEnd DEF HrRollback
  <1>10. ASSUME UNCHANGED hrVars PROVE HrIInv'
    BY <1>10, SessionsEnd DEF hrVars
  <1> QED BY <1>1, <1>2, <1>3, <1>4, <1>5, <1>6, <1>7, <1>8, <1>9, <1>10 DEF HrNext

LEMMA HrInductive == HrSpec => []HrIInv
  BY HrInitHolds, HrNextKeeps, PTL DEF HrSpec

\* A payroll pays everybody active once, from records that were complete unless
\* somebody changed them meanwhile; an import takes in every row of a known
\* employee; and the quick deductions of the tax table are the progressive tax.
THEOREM PayrollIsSoundHolds == HrSpec => []PayrollIsSound
  <1>1. HrIInv => PayrollIsSound
    BY DEF HrIInv, PayrollsOK, TaxIsProgressive, IsTaxed, PayrollIsSound
  <1> QED BY <1>1, HrInductive, PTL
=============================================================================
