-------------------------- MODULE AccessProofs --------------------------
(***************************************************************************)
(* Theorems about modules Access and Policy: who may do what, and who did, *)
(* for any number of users, roles, organizations, requests, processes and  *)
(* rules.                                                                  *)
(*                                                                         *)
(* Access: every request has an id of its own, and the rows of the audit   *)
(* log that carry it are determined by how far the request has come. The   *)
(* roles of a user are those of the last update, because an update that    *)
(* had read other roles than it deletes is marked.                         *)
(*                                                                         *)
(* Policy: in a process that is not astray and is not reloading, the       *)
(* memory is what the rules will be once the changes under way in it are   *)
(* committed, as long as each of them is alone on its rule. A reload that  *)
(* nothing overlapped fills an empty memory.                               *)
(***************************************************************************)
EXTENDS Access, Policy, TLAPS

(***************************************************************************)
(* Theorems about modules Access and Policy: who may do what, and who did, *)
(* for any number of users, roles, organizations, requests, processes and  *)
(* rules.                                                                  *)
(*                                                                         *)
(* Access: every request has an id of its own, and the rows of the audit   *)
(* log that carry it are determined by how far the request has come. The   *)
(* roles of a user are those of the last update, because an update that    *)
(* had read other roles than it deletes is marked.                         *)
(*                                                                         *)
(* Policy: in a process that is not astray and is not reloading, the       *)
(* memory is what the rules will be once the changes under way in it are   *)
(* committed, as long as each of them is alone on its rule. A reload that  *)
(* nothing overlapped fills an empty memory.                               *)
(***************************************************************************)

Calls == [id : Call, user : User, work : Work,
          done : {"no", "read", "flushed", "yes", "refused", "lost", "raised"},
          logged : {"no", "yes", "swallowed"}, saw : SUBSET Role]

Ends == [id : Call, done : {"yes", "refused", "lost", "raised"},
         logged : {"no", "yes", "swallowed"}]

Records ==
    /\ calls \subseteq Calls
    /\ past \subseteq Ends
    /\ wanted \in [User -> SUBSET Role]

\* How far a request has come fits what it does: an update has found its user.
WorkFits ==
    \A c \in calls :
        /\ c.done = "read" => c.work.does = "update" /\ c.work.user \in users
        /\ c.done = "flushed" => c.work.does = "org"

\* No two requests share an id.
IdsApart ==
    /\ \A c, d \in calls : c.id = d.id => c = d
    /\ \A c \in calls, e \in past : c.id # e.id

RowsOf(id) == {a[2] : a \in {b \in audit : b[1] = id}}

\* The rows of requests that are still at work.
RowsSoFar ==
    /\ \A a \in audit : (\E c \in calls : c.id = a[1]) \/ (\E e \in past : e.id = a[1])
    /\ \A c \in calls :
          /\ c.logged # "yes" => RowsOf(c.id) = {}
          /\ c.logged = "yes" => RowsOf(c.id) = {StatusOf(c)}
          /\ c.logged # "no" => Answered(c)

IInv ==
    /\ AccessTypeOK
    /\ Records
    /\ WorkFits
    /\ IdsApart
    /\ RowsSoFar
    /\ RolesAreAsGiven
    /\ AuditTellsAnswers
    /\ InactiveOnlyFinishes

-----------------------------------------------------------------------------
LEMMA InitHolds == AccessInit => IInv
  <1> SUFFICES ASSUME AccessInit PROVE IInv
    OBVIOUS
  <1> USE DEF AccessInit
  <1>1. AccessTypeOK /\ Records
    BY AdminAssumption DEF AccessTypeOK, Records
  <1>2. WorkFits /\ IdsApart /\ RowsSoFar
    BY DEF WorkFits, IdsApart, RowsSoFar
  <1>3. RolesAreAsGiven
    BY DEF RolesAreAsGiven, RolesOf
  <1>4. AuditTellsAnswers /\ InactiveOnlyFinishes
    BY DEF AuditTellsAnswers, InactiveOnlyFinishes
  <1> QED BY <1>1, <1>2, <1>3, <1>4 DEF IInv

\* What an update and a creation are given.
LEMMA WorkOfUsers ==
    ASSUME NEW w \in Work, w.does \in {"update", "create"}
    PROVE  w.user \in User /\ w.roles \subseteq Role
  BY DEF Work

LEMMA WorkOfOrgs == ASSUME NEW w \in Work, w.does = "org" PROVE w.org \in Org
  BY DEF Work

\* What the rows of a request say depends on the log alone.
LEMMA SameRows == ASSUME audit' = audit PROVE \A id : RowsOf(id)' = RowsOf(id)
  BY DEF RowsOf

\* A step of request c that touches neither the roles nor the log: the users
\* may only gain members, and c goes on to d.
LEMMA GoesOn ==
    ASSUME IInv, NEW c \in calls, NEW d \in Calls, CallStep(c, d),
           d.id = c.id, d.user = c.user, d.work = c.work,
           d.done = "read" => d.work.does = "update" /\ d.work.user \in users,
           d.done = "flushed" => d.work.does = "org",
           audit' = audit, past' = past, grants' = grants, wanted' = wanted, mixed' = mixed,
           users' = users, active' = active, tokens' = tokens, orgs' \subseteq Org, revoked' = revoked,
           \/ d.logged = c.logged /\ (c.logged = "no" \/ (Answered(d) /\ StatusOf(d) = StatusOf(c)))
           \/ c.logged = "no" /\ d.logged = "swallowed" /\ Answered(d)
    PROVE  IInv'
  <1>1. calls' = (calls \ {c}) \union {d}
    BY DEF CallStep
  <1>2. AccessTypeOK'
    BY <1>1 DEF IInv, AccessTypeOK
  <1>3. Records'
    BY <1>1 DEF IInv, Records
  <1>4. WorkFits'
    BY <1>1 DEF IInv, WorkFits
  <1>5. IdsApart'
    BY <1>1 DEF IInv, IdsApart
  <1>6. RowsSoFar'
    <2>1. \A a \in audit' : (\E b \in calls' : b.id = a[1]) \/ (\E e \in past' : e.id = a[1])
      BY <1>1 DEF IInv, RowsSoFar
    <2>2. ASSUME NEW b \in calls'
          PROVE  /\ b.logged # "yes" => RowsOf(b.id) = {}
                 /\ b.logged = "yes" => RowsOf(b.id) = {StatusOf(b)}
                 /\ b.logged # "no" => Answered(b)
      <3>1. CASE b \in calls
        BY <3>1 DEF IInv, RowsSoFar
      <3>2. CASE b = d
        BY <3>2 DEF IInv, RowsSoFar
      <3> QED BY <1>1, <2>2, <3>1, <3>2
    <2> QED BY <2>1, <2>2, SameRows DEF RowsSoFar, StatusOf, Answered
  <1>7. RolesAreAsGiven' /\ AuditTellsAnswers'
    BY DEF IInv, RolesAreAsGiven, RolesOf, AuditTellsAnswers
  <1>8. InactiveOnlyFinishes'
    BY <1>1 DEF IInv, InactiveOnlyFinishes
  <1> QED BY <1>2, <1>3, <1>4, <1>5, <1>6, <1>7, <1>8 DEF IInv

LEMMA LoginKeeps ==
    ASSUME IInv, NEW u \in User, Login(u)
    PROVE  IInv'
  <1>1. /\ u \in active /\ tokens' = tokens \union {u}
        /\ users' = users /\ active' = active /\ grants' = grants /\ orgs' = orgs /\ audit' = audit
        /\ calls' = calls /\ past' = past /\ wanted' = wanted /\ mixed' = mixed /\ revoked' = revoked
    BY DEF Login
  <1>2. AccessTypeOK'
    BY <1>1 DEF IInv, AccessTypeOK
  <1> QED BY <1>1, <1>2, SameRows
        DEF IInv, Records, WorkFits, IdsApart, RowsSoFar, RolesAreAsGiven, RolesOf,
            AuditTellsAnswers, InactiveOnlyFinishes

LEMMA BeginCallKeeps ==
    ASSUME IInv, NEW id \in Call, NEW u \in User, NEW work \in Work, BeginCall(id, u, work)
    PROVE  IInv'
  <1> DEFINE new == [id |-> id, user |-> u, work |-> work, done |-> "no", logged |-> "no", saw |-> {}]
  <1>1. /\ u \in active /\ (\A c \in calls : c.id # id) /\ (\A e \in past : e.id # id)
        /\ calls' = calls \union {new}
        /\ users' = users /\ active' = active /\ tokens' = tokens /\ grants' = grants /\ orgs' = orgs
        /\ audit' = audit /\ past' = past /\ wanted' = wanted /\ mixed' = mixed /\ revoked' = revoked
    BY DEF BeginCall, MayAct, accessTables
  <1>2. /\ new \in Calls /\ new.id = id /\ new.user = u /\ new.done = "no" /\ new.logged = "no"
    BY DEF Calls
  <1> HIDE DEF new
  <1>3. AccessTypeOK'
    BY <1>1, <1>2 DEF IInv, AccessTypeOK
  <1>4. Records' /\ WorkFits' /\ IdsApart'
    BY <1>1, <1>2 DEF IInv, Records, WorkFits, IdsApart
  <1>5. RowsSoFar'
    <2>1. RowsOf(id) = {}
      BY <1>1 DEF IInv, RowsSoFar, RowsOf
    <2>2. \A c \in calls' : /\ c.logged # "yes" => RowsOf(c.id) = {}
                            /\ c.logged = "yes" => RowsOf(c.id) = {StatusOf(c)}
                            /\ c.logged # "no" => Answered(c)
      BY <1>1, <1>2, <2>1 DEF IInv, RowsSoFar
    <2>3. \A a \in audit' : (\E c \in calls' : c.id = a[1]) \/ (\E e \in past' : e.id = a[1])
      BY <1>1 DEF IInv, RowsSoFar
    <2> QED BY <1>1, <2>2, <2>3, SameRows DEF RowsSoFar, StatusOf, Answered
  <1>6. RolesAreAsGiven' /\ AuditTellsAnswers'
    BY <1>1 DEF IInv, RolesAreAsGiven, RolesOf, AuditTellsAnswers
  <1>7. InactiveOnlyFinishes'
    BY <1>1, <1>2 DEF IInv, InactiveOnlyFinishes
  <1> QED BY <1>3, <1>4, <1>5, <1>6, <1>7 DEF IInv

LEMMA ReadRolesKeeps ==
    ASSUME IInv, NEW c \in calls, ReadRoles(c)
    PROVE  IInv'
  <1> DEFINE R == RolesOf(c.work.user)
             d == [c EXCEPT !.done = "read", !.saw = R]
  <1>1. /\ c.done = "no" /\ c.work.does = "update" /\ c.work.user \in users /\ CallStep(c, d)
        /\ audit' = audit /\ past' = past /\ grants' = grants /\ wanted' = wanted /\ mixed' = mixed
        /\ users' = users /\ active' = active /\ tokens' = tokens /\ orgs' = orgs /\ revoked' = revoked
    BY DEF ReadRoles, accessTables
  <1>2. c \in Calls /\ orgs' \subseteq Org /\ R \subseteq Role
    BY <1>1 DEF IInv, Records, AccessTypeOK, RolesOf
  <1> HIDE DEF R
  <1>3. /\ d \in Calls /\ d.id = c.id /\ d.user = c.user /\ d.work = c.work
        /\ d.logged = c.logged /\ d.done = "read"
    BY <1>2 DEF Calls
  <1> HIDE DEF d
  <1>4. c.logged = "no"
    BY <1>1, <1>2 DEF IInv, RowsSoFar, Answered, Calls
  <1> QED BY <1>1, <1>2, <1>3, <1>4, GoesOn

LEMMA AnswerOrgKeeps ==
    ASSUME IInv, NEW c \in calls, AnswerOrg(c)
    PROVE  IInv'
  <1> DEFINE d == [c EXCEPT !.done = "flushed"]
  <1>1. /\ c.done = "no" /\ c.work.does = "org" /\ CallStep(c, d)
        /\ audit' = audit /\ past' = past /\ grants' = grants /\ wanted' = wanted /\ mixed' = mixed
        /\ users' = users /\ active' = active /\ tokens' = tokens /\ orgs' = orgs /\ revoked' = revoked
    BY DEF AnswerOrg, accessTables
  <1>2. c \in Calls /\ orgs' \subseteq Org
    BY <1>1 DEF IInv, Records, AccessTypeOK
  <1>3. /\ d \in Calls /\ d.id = c.id /\ d.user = c.user /\ d.work = c.work
        /\ d.logged = c.logged /\ d.done = "flushed"
    BY <1>2 DEF Calls
  <1> HIDE DEF d
  <1>4. \/ d.logged = c.logged /\ (c.logged = "no" \/ (Answered(d) /\ StatusOf(d) = StatusOf(c)))
        \/ c.logged = "no" /\ d.logged = "swallowed" /\ Answered(d)
    BY <1>1, <1>3 DEF IInv, RowsSoFar, Answered, StatusOf
  <1>5. d.done # "read" /\ (d.done = "flushed" => d.work.does = "org")
    BY <1>1, <1>3 DEF Answered, IInv, WorkFits
  <1> QED BY <1>1, <1>2, <1>3, <1>4, <1>5, GoesOn

LEMMA CommitOrgKeeps ==
    ASSUME IInv, NEW c \in calls, CommitOrg(c)
    PROVE  IInv'
  <1> DEFINE d == [c EXCEPT !.done = "yes"]
  <1>1. /\ c.done = "flushed" /\ CallStep(c, d)
        /\ audit' = audit /\ past' = past /\ grants' = grants /\ wanted' = wanted /\ mixed' = mixed
        /\ users' = users /\ active' = active /\ tokens' = tokens /\ orgs' = orgs \union {c.work.org} /\ revoked' = revoked
    BY DEF CommitOrg, accessTables
  <1>2. c \in Calls /\ orgs' \subseteq Org
    <2>1. c \in Calls /\ c.work \in Work /\ c.work.does = "org"
      BY <1>1 DEF IInv, Records, Calls, WorkFits
    <2>2. c.work.org \in Org
      BY <2>1, WorkOfOrgs
    <2> QED BY <1>1, <2>1, <2>2 DEF IInv, AccessTypeOK
  <1>3. /\ d \in Calls /\ d.id = c.id /\ d.user = c.user /\ d.work = c.work
        /\ d.logged = c.logged /\ d.done = "yes"
    BY <1>2 DEF Calls
  <1> HIDE DEF d
  <1>4. \/ d.logged = c.logged /\ (c.logged = "no" \/ (Answered(d) /\ StatusOf(d) = StatusOf(c)))
        \/ c.logged = "no" /\ d.logged = "swallowed" /\ Answered(d)
    BY <1>1, <1>3 DEF IInv, RowsSoFar, Answered, StatusOf
  <1>5. d.done # "read" /\ (d.done = "flushed" => d.work.does = "org")
    BY <1>1, <1>3 DEF Answered, IInv, WorkFits
  <1> QED BY <1>1, <1>2, <1>3, <1>4, <1>5, GoesOn

LEMMA RefuseKeeps ==
    ASSUME IInv, NEW c \in calls, Refuse(c)
    PROVE  IInv'
  <1> DEFINE d == [c EXCEPT !.done = "refused"]
  <1>1. /\ c.done \in {"no", "read"} /\ CallStep(c, d)
        /\ audit' = audit /\ past' = past /\ grants' = grants /\ wanted' = wanted /\ mixed' = mixed
        /\ users' = users /\ active' = active /\ tokens' = tokens /\ orgs' = orgs /\ revoked' = revoked
    BY DEF Refuse, accessTables
  <1>2. c \in Calls /\ orgs' \subseteq Org
    BY <1>1 DEF IInv, Records, AccessTypeOK
  <1>3. /\ d \in Calls /\ d.id = c.id /\ d.user = c.user /\ d.work = c.work
        /\ d.logged = c.logged /\ d.done = "refused"
    BY <1>2 DEF Calls
  <1> HIDE DEF d
  <1>4. \/ d.logged = c.logged /\ (c.logged = "no" \/ (Answered(d) /\ StatusOf(d) = StatusOf(c)))
        \/ c.logged = "no" /\ d.logged = "swallowed" /\ Answered(d)
    BY <1>1, <1>3 DEF IInv, RowsSoFar, Answered, StatusOf
  <1>5. d.done # "read" /\ (d.done = "flushed" => d.work.does = "org")
    BY <1>1, <1>3 DEF Answered, IInv, WorkFits
  <1> QED BY <1>1, <1>2, <1>3, <1>4, <1>5, GoesOn

LEMMA RaiseKeeps ==
    ASSUME IInv, NEW c \in calls, Raise(c)
    PROVE  IInv'
  <1> DEFINE d == [c EXCEPT !.done = "raised"]
  <1>1. /\ c.logged = "no" /\ CallStep(c, d)
        /\ audit' = audit /\ past' = past /\ grants' = grants /\ wanted' = wanted /\ mixed' = mixed
        /\ users' = users /\ active' = active /\ tokens' = tokens /\ orgs' = orgs /\ revoked' = revoked
    BY DEF Raise, accessTables
  <1>2. c \in Calls /\ orgs' \subseteq Org
    BY <1>1 DEF IInv, Records, AccessTypeOK
  <1>3. /\ d \in Calls /\ d.id = c.id /\ d.user = c.user /\ d.work = c.work
        /\ d.logged = c.logged /\ d.done = "raised"
    BY <1>2 DEF Calls
  <1> HIDE DEF d
  <1>4. \/ d.logged = c.logged /\ (c.logged = "no" \/ (Answered(d) /\ StatusOf(d) = StatusOf(c)))
        \/ c.logged = "no" /\ d.logged = "swallowed" /\ Answered(d)
    BY <1>1, <1>3 DEF IInv, RowsSoFar, Answered, StatusOf
  <1>5. d.done # "read" /\ (d.done = "flushed" => d.work.does = "org")
    BY <1>1, <1>3 DEF Answered, IInv, WorkFits
  <1> QED BY <1>1, <1>2, <1>3, <1>4, <1>5, GoesOn

LEMMA LoseCommitKeeps ==
    ASSUME IInv, NEW c \in calls, LoseCommit(c)
    PROVE  IInv'
  <1> DEFINE d == [c EXCEPT !.done = "lost"]
  <1>1. /\ c.done = "flushed" /\ CallStep(c, d)
        /\ audit' = audit /\ past' = past /\ grants' = grants /\ wanted' = wanted /\ mixed' = mixed
        /\ users' = users /\ active' = active /\ tokens' = tokens /\ orgs' = orgs /\ revoked' = revoked
    BY DEF LoseCommit, accessTables
  <1>2. c \in Calls /\ orgs' \subseteq Org
    BY <1>1 DEF IInv, Records, AccessTypeOK
  <1>3. /\ d \in Calls /\ d.id = c.id /\ d.user = c.user /\ d.work = c.work
        /\ d.logged = c.logged /\ d.done = "lost"
    BY <1>2 DEF Calls
  <1> HIDE DEF d
  <1>4. \/ d.logged = c.logged /\ (c.logged = "no" \/ (Answered(d) /\ StatusOf(d) = StatusOf(c)))
        \/ c.logged = "no" /\ d.logged = "swallowed" /\ Answered(d)
    BY <1>1, <1>3 DEF IInv, RowsSoFar, Answered, StatusOf
  <1>5. d.done # "read" /\ (d.done = "flushed" => d.work.does = "org")
    BY <1>1, <1>3 DEF Answered, IInv, WorkFits
  <1> QED BY <1>1, <1>2, <1>3, <1>4, <1>5, GoesOn

LEMMA SwallowAuditKeeps ==
    ASSUME IInv, NEW c \in calls, SwallowAudit(c)
    PROVE  IInv'
  <1> DEFINE d == [c EXCEPT !.logged = "swallowed"]
  <1>1. /\ c.logged = "no" /\ Answered(c) /\ CallStep(c, d)
        /\ audit' = audit /\ past' = past /\ grants' = grants /\ wanted' = wanted /\ mixed' = mixed
        /\ users' = users /\ active' = active /\ tokens' = tokens /\ orgs' = orgs /\ revoked' = revoked
    BY DEF SwallowAudit, accessTables
  <1>2. c \in Calls /\ orgs' \subseteq Org
    BY <1>1 DEF IInv, Records, AccessTypeOK
  <1>3. /\ d \in Calls /\ d.id = c.id /\ d.user = c.user /\ d.work = c.work
        /\ d.logged = "swallowed" /\ d.done = c.done
    BY <1>2 DEF Calls
  <1> HIDE DEF d
  <1>4. \/ d.logged = c.logged /\ (c.logged = "no" \/ (Answered(d) /\ StatusOf(d) = StatusOf(c)))
        \/ c.logged = "no" /\ d.logged = "swallowed" /\ Answered(d)
    BY <1>1, <1>3 DEF IInv, RowsSoFar, Answered, StatusOf
  <1>5. d.done # "read" /\ (d.done = "flushed" => d.work.does = "org")
    BY <1>1, <1>3 DEF Answered, IInv, WorkFits
  <1> QED BY <1>1, <1>2, <1>3, <1>4, <1>5, GoesOn

LEMMA WriteAuditKeeps ==
    ASSUME IInv, NEW c \in calls, WriteAudit(c)
    PROVE  IInv'
  <1> DEFINE d == [c EXCEPT !.logged = "yes"]
  <1>1. /\ Answered(c) /\ c.logged = "no" /\ audit' = audit \union {<<c.id, StatusOf(c)>>}
        /\ calls' = (calls \ {c}) \union {d}
        /\ past' = past /\ grants' = grants /\ wanted' = wanted /\ mixed' = mixed
        /\ users' = users /\ active' = active /\ tokens' = tokens /\ orgs' = orgs /\ revoked' = revoked
    BY DEF WriteAudit, CallStep
  <1>2. c \in Calls
    BY DEF IInv, Records
  <1>3. /\ d \in Calls /\ d.id = c.id /\ d.user = c.user /\ d.work = c.work
        /\ d.done = c.done /\ d.logged = "yes"
    BY <1>2 DEF Calls
  <1> HIDE DEF d
  <1>4. AccessTypeOK'
    <2>1. <<c.id, StatusOf(c)>> \in Call \X {"ok", "error"}
      BY <1>2 DEF Calls, StatusOf
    <2> QED BY <1>1, <1>3, <2>1 DEF IInv, AccessTypeOK
  <1>5. Records' /\ WorkFits' /\ IdsApart'
    BY <1>1, <1>3 DEF IInv, Records, WorkFits, IdsApart
  <1>6. RowsOf(c.id)' = {StatusOf(c)}
    <2>1. RowsOf(c.id) = {}
      BY <1>1 DEF IInv, RowsSoFar
    <2>2. RowsOf(c.id)' = RowsOf(c.id) \union {StatusOf(c)}
      <3> DEFINE id == c.id
                 st == StatusOf(c)
      <3>1. audit' = audit \union {<<id, st>>}
        BY <1>1
      <3> HIDE DEF id, st
      <3> DEFINE A == {b \in audit : b[1] = id}
                 x == <<id, st>>
      <3>2. {b \in audit' : b[1] = id} = A \union {x}
        BY <3>1
      <3>3. x[2] = st
        OBVIOUS
      <3> HIDE DEF A, x
      <3>4. {a[2] : a \in A \union {x}} = {a[2] : a \in A} \union {st}
        <4>1. {a[2] : a \in A \union {x}} \subseteq {a[2] : a \in A} \union {st}
          BY <3>3
        <4>2. {a[2] : a \in A} \subseteq {a[2] : a \in A \union {x}}
          OBVIOUS
        <4>3. st \in {a[2] : a \in A \union {x}}
          BY <3>3
        <4> QED BY <4>1, <4>2, <4>3
      <3>5. RowsOf(id) = {a[2] : a \in A} /\ RowsOf(id)' = {a[2] : a \in A \union {x}}
        BY <3>2 DEF RowsOf, A, id
      <3> QED BY <3>4, <3>5 DEF id, st
    <2> QED BY <2>1, <2>2
  <1>7. \A id : id # c.id => RowsOf(id)' = RowsOf(id)
    BY <1>1 DEF RowsOf
  <1>8. RowsSoFar'
    <2>1. \A a \in audit' : (\E b \in calls' : b.id = a[1]) \/ (\E e \in past' : e.id = a[1])
      BY <1>1, <1>3 DEF IInv, RowsSoFar
    <2>2. ASSUME NEW b \in calls'
          PROVE  /\ b.logged # "yes" => RowsOf(b.id)' = {}
                 /\ b.logged = "yes" => RowsOf(b.id)' = {StatusOf(b)}
                 /\ b.logged # "no" => Answered(b)
      <3>1. CASE b = d
        BY <1>1, <1>3, <1>6, <3>1 DEF StatusOf, Answered
      <3>2. CASE b \in calls /\ b # c
        <4>1. b.id # c.id
          BY <3>2 DEF IInv, IdsApart
        <4> QED BY <1>7, <3>2, <4>1 DEF IInv, RowsSoFar
      <3> QED BY <1>1, <2>2, <3>1, <3>2
    <2>3. \A b : RowsOf(b.id)' = {a[2] : a \in {x \in audit' : x[1] = b.id}}
      BY DEF RowsOf
    <2> QED BY <2>1, <2>2 DEF RowsSoFar, RowsOf, StatusOf, Answered
  <1>9. RolesAreAsGiven'
    BY <1>1 DEF IInv, RolesAreAsGiven, RolesOf
  <1>10. AuditTellsAnswers'
    <2>1. \A e \in past : RowsOf(e.id)' = RowsOf(e.id)
      BY <1>7 DEF IInv, IdsApart
    <2> QED BY <1>1, <2>1 DEF IInv, AuditTellsAnswers, RowsOf
  <1>11. InactiveOnlyFinishes'
    BY <1>1, <1>3 DEF IInv, InactiveOnlyFinishes
  <1> QED BY <1>4, <1>5, <1>8, <1>9, <1>10, <1>11 DEF IInv

LEMMA EndCallKeeps ==
    ASSUME IInv, NEW c \in calls, EndCall(c)
    PROVE  IInv'
  <1> DEFINE e == [id |-> c.id, done |-> c.done, logged |-> c.logged]
  <1>1. /\ c.done \in {"yes", "refused", "lost", "raised"} /\ (c.done # "raised" => c.logged # "no")
        /\ calls' = calls \ {c} /\ past' = past \union {e}
        /\ audit' = audit /\ grants' = grants /\ wanted' = wanted /\ mixed' = mixed
        /\ users' = users /\ active' = active /\ tokens' = tokens /\ orgs' = orgs /\ revoked' = revoked
    BY DEF EndCall, accessTables
  <1>2. e \in Ends /\ e.id = c.id /\ e.done = c.done /\ e.logged = c.logged
    BY <1>1 DEF IInv, Records, Calls, Ends
  <1> HIDE DEF e
  <1>3. AccessTypeOK' /\ Records' /\ WorkFits'
    BY <1>1, <1>2 DEF IInv, AccessTypeOK, Records, WorkFits
  <1>4. IdsApart'
    BY <1>1, <1>2 DEF IInv, IdsApart
  <1>5. RowsSoFar'
    BY <1>1, <1>2, SameRows DEF IInv, RowsSoFar
  <1>6. AuditTellsAnswers'
    <2>1. RowsOf(e.id) = IF e.done = "raised" \/ e.logged = "swallowed" THEN {}
                         ELSE IF e.done = "refused" THEN {"error"} ELSE {"ok"}
      BY <1>1, <1>2 DEF IInv, RowsSoFar, StatusOf, Ends, Answered, Records, Calls
    <2>2. \A x \in past : RowsOf(x.id) = IF x.done = "raised" \/ x.logged = "swallowed" THEN {}
                                         ELSE IF x.done = "refused" THEN {"error"} ELSE {"ok"}
      BY DEF IInv, AuditTellsAnswers, RowsOf
    <2>3. \A x \in past' : RowsOf(x.id)' = IF x.done = "raised" \/ x.logged = "swallowed" THEN {}
                                           ELSE IF x.done = "refused" THEN {"error"} ELSE {"ok"}
      BY <1>1, <2>1, <2>2, SameRows
    <2> QED BY <2>3 DEF AuditTellsAnswers, RowsOf
  <1>7. RolesAreAsGiven' /\ InactiveOnlyFinishes'
    BY <1>1 DEF IInv, RolesAreAsGiven, RolesOf, InactiveOnlyFinishes
  <1> QED BY <1>3, <1>4, <1>5, <1>6, <1>7 DEF IInv

\* The roles of the other users do not change with those of u.
LEMMA OtherRoles ==
    ASSUME NEW u, NEW R,
           grants' = {g \in grants : g[1] # u} \union ({u} \X R)
    PROVE  RolesOf(u)' = R /\ \A v : v # u => RolesOf(v)' = RolesOf(v)
  <1>1. RolesOf(u)' = R
    <2>1. RolesOf(u)' \subseteq R
      BY DEF RolesOf
    <2>2. ASSUME NEW r \in R PROVE r \in RolesOf(u)'
      <3>1. <<u, r>> \in {h \in grants' : h[1] = u} /\ <<u, r>>[2] = r
        BY <2>2
      <3>2. r \in {g[2] : g \in {h \in grants' : h[1] = u}}
        BY <3>1
      <3> QED BY <3>2 DEF RolesOf
    <2> QED BY <2>1, <2>2
  <1>2. ASSUME NEW v, v # u PROVE RolesOf(v)' = RolesOf(v)
    BY <1>2 DEF RolesOf
  <1> QED BY <1>1, <1>2

LEMMA CommitUpdateKeeps ==
    ASSUME IInv, NEW c \in calls, CommitUpdate(c)
    PROVE  IInv'
  <1> DEFINE u == c.work.user
             d == [c EXCEPT !.done = "yes"]
             R == RolesAfter(c)
  <1>1. /\ c.work.does = "update" /\ c.done = "read"
        /\ active' = (IF c.work.active THEN active \union {u} ELSE active \ {u})
        /\ grants' = {g \in grants : g[1] # u} \union ({u} \X R)
        /\ wanted' = [wanted EXCEPT ![u] = c.work.roles]
        /\ mixed' = (IF c.saw = RolesOf(u) THEN mixed ELSE mixed \union {u})
        /\ revoked' = (IF c.work.active THEN revoked
                       ELSE revoked \union {b.id : b \in {e \in calls : e.user = u}})
        /\ calls' = (calls \ {c}) \union {d}
        /\ users' = users /\ tokens' = tokens /\ orgs' = orgs /\ audit' = audit /\ past' = past
    BY DEF CommitUpdate, CallStep
  <1>2. c \in Calls
    BY DEF IInv, Records
  <1>3. d \in Calls /\ d.id = c.id /\ d.user = c.user /\ d.work = c.work /\ d.logged = c.logged /\ d.done = "yes"
    BY <1>2 DEF Calls
  <1>4. u \in User /\ u \in users /\ c.work.roles \subseteq Role
    <2>1. c.work \in Work /\ u \in users
      BY <1>1, <1>2 DEF IInv, WorkFits, Calls
    <2> QED BY <1>1, <2>1, WorkOfUsers
  <1>5. R = (RolesOf(u) \ c.saw) \union c.work.roles /\ R \subseteq Role
    BY <1>4 DEF RolesAfter, RolesOf, IInv, AccessTypeOK
  <1>6. c.logged = "no"
    BY <1>1, <1>2 DEF IInv, RowsSoFar, Answered, Calls
  <1> HIDE DEF d, u, R
  <1>7. AccessTypeOK'
    <2>1. active' \subseteq users
      BY <1>1, <1>4 DEF IInv, AccessTypeOK
    <2>2. grants' \subseteq users \X Role
      BY <1>1, <1>4, <1>5 DEF IInv, AccessTypeOK
    <2>3. mixed' \subseteq User
      BY <1>1, <1>4 DEF IInv, AccessTypeOK
    <2> QED BY <1>1, <1>3, <2>1, <2>2, <2>3 DEF IInv, AccessTypeOK
  <1>8. Records' /\ WorkFits' /\ IdsApart'
    BY <1>1, <1>3, <1>4 DEF IInv, Records, WorkFits, IdsApart
  <1>9. RowsSoFar'
    <2>1. \A a \in audit' : (\E b \in calls' : b.id = a[1]) \/ (\E e \in past' : e.id = a[1])
      BY <1>1, <1>3 DEF IInv, RowsSoFar
    <2>2. ASSUME NEW b \in calls'
          PROVE  /\ b.logged # "yes" => RowsOf(b.id) = {}
                 /\ b.logged = "yes" => RowsOf(b.id) = {StatusOf(b)}
                 /\ b.logged # "no" => Answered(b)
      <3>1. CASE b \in calls
        BY <3>1 DEF IInv, RowsSoFar
      <3>2. CASE b = d
        BY <1>3, <1>6, <3>2 DEF IInv, RowsSoFar
      <3> QED BY <1>1, <2>2, <3>1, <3>2
    <2>3. \A id : RowsOf(id)' = RowsOf(id)
      BY <1>1, SameRows
    <2> QED BY <2>1, <2>2, <2>3 DEF RowsSoFar, StatusOf, Answered
  <1>10. RolesAreAsGiven'
    <2> SUFFICES ASSUME NEW v \in User \ mixed' PROVE RolesOf(v)' = wanted'[v]
      BY DEF RolesAreAsGiven
    <2>1. RolesOf(u)' = R /\ \A w : w # u => RolesOf(w)' = RolesOf(w)
      BY <1>1, OtherRoles
    <2>2. CASE v = u
      <3>1. c.saw = RolesOf(u)
        BY <1>1, <2>2
      <3>2. R = c.work.roles
        BY <1>5, <3>1
      <3> QED BY <1>1, <1>4, <2>1, <2>2, <3>2 DEF IInv, Records
    <2>3. CASE v # u
      BY <1>1, <2>1, <2>3 DEF IInv, Records, RolesAreAsGiven
    <2> QED BY <2>2, <2>3
  <1>11. AuditTellsAnswers'
    BY <1>1 DEF IInv, AuditTellsAnswers
  <1>12. InactiveOnlyFinishes'
    BY <1>1, <1>3 DEF IInv, InactiveOnlyFinishes
  <1> QED BY <1>7, <1>8, <1>9, <1>10, <1>11, <1>12 DEF IInv

LEMMA CommitUserKeeps ==
    ASSUME IInv, NEW c \in calls, CommitUser(c)
    PROVE  IInv'
  <1> DEFINE u == c.work.user
             d == [c EXCEPT !.done = "yes"]
  <1>1. /\ c.work.does = "create" /\ c.done = "no" /\ u \notin users
        /\ users' = users \union {u} /\ active' = active \union {u}
        /\ grants' = grants \union ({u} \X c.work.roles)
        /\ wanted' = [wanted EXCEPT ![u] = c.work.roles]
        /\ calls' = (calls \ {c}) \union {d}
        /\ tokens' = tokens /\ orgs' = orgs /\ audit' = audit /\ past' = past
        /\ mixed' = mixed /\ revoked' = revoked
    BY DEF CommitUser, CallStep
  <1>2. c \in Calls
    BY DEF IInv, Records
  <1>3. d \in Calls /\ d.id = c.id /\ d.user = c.user /\ d.work = c.work /\ d.logged = c.logged /\ d.done = "yes"
    BY <1>2 DEF Calls
  <1>4. u \in User /\ c.work.roles \subseteq Role
    BY <1>1, <1>2, WorkOfUsers DEF Calls
  <1>5. c.logged = "no"
    BY <1>1, <1>2 DEF IInv, RowsSoFar, Answered, Calls
  <1> HIDE DEF d, u
  <1>6. AccessTypeOK'
    <2>1. users' \subseteq User /\ active' \subseteq users' /\ tokens' \subseteq users'
      BY <1>1, <1>4 DEF IInv, AccessTypeOK
    <2>2. grants' \subseteq users' \X Role
      BY <1>1, <1>4 DEF IInv, AccessTypeOK
    <2> QED BY <1>1, <1>3, <2>1, <2>2 DEF IInv, AccessTypeOK
  <1>7. Records' /\ WorkFits' /\ IdsApart'
    BY <1>1, <1>3, <1>4 DEF IInv, Records, WorkFits, IdsApart
  <1>8. RowsSoFar'
    BY SMTT(30), <1>1, <1>3, <1>5, SameRows DEF IInv, RowsSoFar, StatusOf, Answered
  <1>9. RolesAreAsGiven'
    <2>1. \A g \in grants : g[1] # u
      BY <1>1 DEF IInv, AccessTypeOK
    <2>2. grants' = {g \in grants : g[1] # u} \union ({u} \X c.work.roles)
      BY <1>1, <2>1
    <2>3. RolesOf(u)' = c.work.roles /\ \A w : w # u => RolesOf(w)' = RolesOf(w)
      BY <2>2, OtherRoles
    <2> QED BY <1>1, <1>4, <2>3 DEF IInv, Records, RolesAreAsGiven
  <1>10. AuditTellsAnswers'
    BY <1>1 DEF IInv, AuditTellsAnswers
  <1>11. InactiveOnlyFinishes'
    BY <1>1, <1>3 DEF IInv, InactiveOnlyFinishes
  <1> QED BY <1>6, <1>7, <1>8, <1>9, <1>10, <1>11 DEF IInv

LEMMA NextKeeps == IInv /\ [AccessNext]_accessVars => IInv'
  <1> SUFFICES ASSUME IInv, [AccessNext]_accessVars PROVE IInv'
    OBVIOUS
  <1>1. ASSUME NEW u \in User, Login(u) PROVE IInv'
    BY <1>1, LoginKeeps
  <1>2. ASSUME NEW id \in Call, NEW u \in User, NEW work \in Work, BeginCall(id, u, work) PROVE IInv'
    BY <1>2, BeginCallKeeps
  <1>3. ASSUME NEW c \in calls, ReadRoles(c) PROVE IInv'
    BY <1>3, ReadRolesKeeps
  <1>4. ASSUME NEW c \in calls, CommitUpdate(c) PROVE IInv'
    BY <1>4, CommitUpdateKeeps
  <1>5. ASSUME NEW c \in calls, CommitUser(c) PROVE IInv'
    BY <1>5, CommitUserKeeps
  <1>6. ASSUME NEW c \in calls, AnswerOrg(c) PROVE IInv'
    BY <1>6, AnswerOrgKeeps
  <1>7. ASSUME NEW c \in calls, CommitOrg(c) PROVE IInv'
    BY <1>7, CommitOrgKeeps
  <1>8. ASSUME NEW c \in calls, Refuse(c) PROVE IInv'
    BY <1>8, RefuseKeeps
  <1>14. ASSUME NEW c \in calls, Raise(c) PROVE IInv'
    BY <1>14, RaiseKeeps
  <1>9. ASSUME NEW c \in calls, LoseCommit(c) PROVE IInv'
    BY <1>9, LoseCommitKeeps
  <1>10. ASSUME NEW c \in calls, WriteAudit(c) PROVE IInv'
    BY <1>10, WriteAuditKeeps
  <1>11. ASSUME NEW c \in calls, SwallowAudit(c) PROVE IInv'
    BY <1>11, SwallowAuditKeeps
  <1>12. ASSUME NEW c \in calls, EndCall(c) PROVE IInv'
    BY <1>12, EndCallKeeps
  <1>13. CASE UNCHANGED accessVars
    <2>1. /\ audit' = audit /\ grants' = grants /\ wanted' = wanted /\ mixed' = mixed
          /\ users' = users /\ active' = active /\ tokens' = tokens /\ orgs' = orgs
          /\ revoked' = revoked /\ calls' = calls /\ past' = past
      BY <1>13 DEF accessVars, accessTables
    <2> QED BY <2>1, SameRows
            DEF IInv, AccessTypeOK, Records, WorkFits, IdsApart, RowsSoFar, RolesAreAsGiven, RolesOf,
                AuditTellsAnswers, InactiveOnlyFinishes, StatusOf, Answered
  <1> QED BY <1>1, <1>2, <1>3, <1>4, <1>5, <1>6, <1>7, <1>8, <1>9, <1>10, <1>11, <1>12, <1>13, <1>14
          DEF AccessNext

LEMMA InvariantHolds == AccessSpec => []IInv
  BY InitHolds, NextKeeps, PTL DEF AccessSpec

\* Unless two updates of a user had both read the roles before either wrote,
\* the user has the roles of the update committed last.
THEOREM RolesAreAsGivenHolds == AccessSpec => []RolesAreAsGiven
  <1>1. IInv => RolesAreAsGiven
    BY DEF IInv
  <1> QED BY <1>1, InvariantHolds, PTL

\* The audit log says of every finished request what its caller was told, and
\* a request of an inactive user was running when the user was deactivated.
THEOREM RequestsAreAccountedHolds == AccessSpec => []RequestsAreAccounted
  <1>1. IInv => RequestsAreAccounted
    BY DEF IInv, RequestsAreAccounted
  <1> QED BY <1>1, InvariantHolds, PTL

-----------------------------------------------------------------------------
(* The permission rules: module Policy.                                    *)

Changes == [by : PolicyReq, at : Process, add : BOOLEAN, rows : SUBSET Rule,
            line : {Line(x) : x \in Rule}, clean : BOOLEAN]
Load   == [at : Process, by : {"endpoint", "watcher"}, read : BOOLEAN, rows : SUBSET Rule, clean : BOOLEAN]

PolicyRecords ==
    /\ changing \subseteq Changes
    /\ loading \subseteq Load

\* An addition inserts the row of its line.
Added(s) == s.add => \E x \in Rule : s.rows = {x} /\ s.line = Line(x)

AdditionsFit == \A s \in changing : Added(s)

\* A clean change is alone on its line in its process, which does not reload.
CleanChanges ==
    \A s \in changing : s.clean =>
        /\ NotLoading(s.at)
        /\ \A d \in changing : d # s /\ d.at = s.at => d.line # s.line

\* A clean reload is alone in its process, whose memory it has emptied.
CleanLoads ==
    \A l \in loading : l.clean =>
        /\ \A s \in changing : s.at # l.at
        /\ \A k \in loading : k # l => k.at # l.at
        /\ memory[l.at] = {}

\* Memory and rules of p agree but for the changes under way.
Ahead(p) ==
    /\ \A x \in LinesOf(Rule) :
          (\A s \in changing : s.at = p => s.line # x) => (x \in memory[p] <=> x \in LinesOf(rules))
    /\ \A s \in changing : s.at = p /\ Held(s.line) => (s.line \in memory[p] <=> s.add)

MemoryIsAhead ==
    \A p \in Process \ astray :
        NotLoading(p) /\ (\A s \in changing : s.at = p => s.clean) => Ahead(p)

PolicyIInv ==
    /\ PolicyTypeOK
    /\ PolicyRecords
    /\ AdditionsFit
    /\ CleanChanges
    /\ CleanLoads
    /\ MemoryIsAhead

-----------------------------------------------------------------------------
LEMMA PolicyInitHolds == PolicyInit => PolicyIInv
  <1> SUFFICES ASSUME PolicyInit PROVE PolicyIInv
    OBVIOUS
  <1> USE DEF PolicyInit
  <1>1. PolicyTypeOK /\ PolicyRecords
    BY DEF PolicyTypeOK, PolicyRecords
  <1>2. AdditionsFit /\ CleanChanges /\ CleanLoads
    BY DEF AdditionsFit, CleanChanges, CleanLoads
  <1>3. MemoryIsAhead
    BY DEF MemoryIsAhead, Ahead
  <1> QED BY <1>1, <1>2, <1>3 DEF PolicyIInv

\* The lines of the rows that are held.
LEMMA LinesAre ==
    ASSUME NEW S
    PROVE  \A y : y \in LinesOf(S) <=> Held(y) /\ \E x \in S : y = Line(x)
  BY DEF LinesOf

LEMMA Dirty ==
    /\ \A s \in Changes : LET d == [s EXCEPT !.clean = FALSE] IN
          /\ d \in Changes /\ ~d.clean /\ d.at = s.at /\ d.add = s.add
          /\ d.rows = s.rows /\ d.line = s.line /\ d.by = s.by
    /\ \A l \in Load : LET d == [l EXCEPT !.clean = FALSE] IN
          d \in Load /\ ~d.clean /\ d.at = l.at
  BY DEF Changes, Load

\* What becomes of the reloads L of process p when they are disturbed.
DisturbedAt(p, L) ==
    {l \in L : ~(l.at = p)} \union {[l EXCEPT !.clean = FALSE] : l \in {t \in L : t.at = p}}

LEMMA LoadsDisturbed ==
    ASSUME NEW L \in SUBSET Load, NEW p
    PROVE  /\ DisturbedAt(p, L) \subseteq Load
           /\ \A e \in DisturbedAt(p, L) :
                 (e \in L /\ e.at # p) \/ (~e.clean /\ e.at = p /\ \E l \in L : l.at = p)
           /\ \A l \in L : \E e \in DisturbedAt(p, L) : e.at = l.at
  <1> DEFINE M == DisturbedAt(p, L)
  <1> USE DEF DisturbedAt
  <1>1. M \subseteq Load
    BY Dirty
  <1>2. ASSUME NEW e \in M
        PROVE  (e \in L /\ e.at # p) \/ (~e.clean /\ e.at = p /\ \E l \in L : l.at = p)
    <2>1. CASE e \in {l \in L : ~(l.at = p)}
      BY <2>1
    <2>2. CASE e \in {[l EXCEPT !.clean = FALSE] : l \in {t \in L : t.at = p}}
      BY <2>2, Dirty
    <2> QED BY <1>2, <2>1, <2>2
  <1>3. ASSUME NEW l \in L
        PROVE  \E e \in M : e.at = l.at
    <2>1. CASE l.at = p
      <3>1. [l EXCEPT !.clean = FALSE] \in M /\ [l EXCEPT !.clean = FALSE].at = l.at
        BY <2>1, Dirty
      <3> QED BY <3>1
    <2>2. CASE l.at # p
      BY <2>2
    <2> QED BY <2>1, <2>2
  <1> QED BY <1>1, <1>2, <1>3

Same(s, p, line) == s.at = p /\ s.line = line

LEMMA ChangeKeeps ==
    ASSUME PolicyIInv, NEW r \in PolicyReq, NEW p \in Process, NEW add \in BOOLEAN, NEW row \in Rule,
           NEW rows \in SUBSET Rule, add => rows = {row}, Change(r, p, add, row, rows)
    PROVE  PolicyIInv'
  <1>0. PICK x \in {Line(y) : y \in Rule} : x = Line(row)
    OBVIOUS
  <1> DEFINE new == [by |-> r, at |-> p, add |-> add, rows |-> rows, line |-> x, clean |-> Alone(p, x)]
  <1>1. /\ memory' = [memory EXCEPT ![p] = InMemory(p, add, x)]
        /\ told' \in {told, Announcement} /\ rules' = rules /\ astray' = astray
    BY <1>0 DEF Change
  <1>2. /\ changing' = {s \in changing : ~Same(s, p, x)} \union
               {[s EXCEPT !.clean = FALSE] : s \in {t \in changing : Same(t, p, x)}} \union {new}
        /\ loading' = {l \in loading : ~(l.at = p)} \union
               {[l EXCEPT !.clean = FALSE] : l \in {t \in loading : t.at = p}}
    BY <1>0 DEF Change, Stir, Same
  <1>3. /\ PolicyTypeOK /\ changing \subseteq Changes /\ loading \subseteq Load /\ AdditionsFit
        /\ CleanChanges /\ CleanLoads /\ MemoryIsAhead
    BY DEF PolicyIInv, PolicyRecords
  <1>4. /\ new \in Changes /\ new.at = p /\ new.line = x /\ new.add = add /\ new.rows = rows
        /\ new.clean = Alone(p, x)
    BY DEF Changes, Alone
  <1>5. new.clean => /\ NotLoading(p)
                     /\ \A s \in changing : s.at = p => s.line # x
    BY <1>3, <1>4 DEF Alone, NotLoading
  <1> HIDE DEF new
  <1>6. /\ changing' \subseteq Changes /\ new \in changing'
        /\ \A e \in changing' : e = new \/ \E s \in changing :
              /\ e.at = s.at /\ e.add = s.add /\ e.rows = s.rows /\ e.line = s.line
              /\ (e = s /\ ~Same(s, p, x)) \/ (~e.clean /\ Same(s, p, x))
        /\ \A s \in changing : \E e \in changing' :
              e.at = s.at /\ e.add = s.add /\ e.rows = s.rows /\ e.line = s.line /\ (~Same(s, p, x) => e = s)
    <2>1. changing' \subseteq Changes /\ new \in changing'
      BY <1>2, <1>3, <1>4, Dirty
    <2>2. ASSUME NEW e \in changing'
          PROVE  e = new \/ \E s \in changing :
                     /\ e.at = s.at /\ e.add = s.add /\ e.rows = s.rows /\ e.line = s.line
                     /\ (e = s /\ ~Same(s, p, x)) \/ (~e.clean /\ Same(s, p, x))
      <3>1. CASE \E s \in changing : Same(s, p, x) /\ e = [s EXCEPT !.clean = FALSE]
        <4>1. PICK s \in changing : Same(s, p, x) /\ e = [s EXCEPT !.clean = FALSE]
          BY <3>1
        <4>2. s \in Changes
          BY <1>3
        <4>3. e.at = s.at /\ e.add = s.add /\ e.rows = s.rows /\ e.line = s.line /\ ~e.clean
          BY <4>1, <4>2, Dirty
        <4> QED BY <4>1, <4>3
      <3>2. CASE e \in changing /\ ~Same(e, p, x)
        BY <3>2
      <3>3. e = new \/ (e \in changing /\ ~Same(e, p, x))
              \/ \E s \in changing : Same(s, p, x) /\ e = [s EXCEPT !.clean = FALSE]
        BY <1>2
      <3> QED BY <3>1, <3>2, <3>3
    <2>3. ASSUME NEW s \in changing
          PROVE  \E e \in changing' :
              e.at = s.at /\ e.add = s.add /\ e.rows = s.rows /\ e.line = s.line /\ (~Same(s, p, x) => e = s)
      <3>1. CASE Same(s, p, x)
        <4> DEFINE e == [s EXCEPT !.clean = FALSE]
        <4>1. e \in changing'
          BY <1>2, <3>1
        <4>2. e.at = s.at /\ e.add = s.add /\ e.rows = s.rows /\ e.line = s.line
          BY <1>3, Dirty
        <4> QED BY <3>1, <4>1, <4>2
      <3>2. CASE ~Same(s, p, x)
        BY <1>2, <3>2
      <3> QED BY <3>1, <3>2
    <2> QED BY <2>1, <2>2, <2>3
  <1>7. /\ loading' \subseteq Load
        /\ \A e \in loading' : (e \in loading /\ e.at # p) \/ (~e.clean /\ e.at = p /\ \E l \in loading : l.at = p)
        /\ \A l \in loading : \E e \in loading' : e.at = l.at
    <2>1. loading \in SUBSET Load
      BY <1>3
    <2>2. loading' = DisturbedAt(p, loading)
      BY <1>2 DEF DisturbedAt
    <2> QED BY <2>1, <2>2, LoadsDisturbed
  <1>8. /\ \A q \in Process : q # p => memory'[q] = memory[q]
        /\ \A y : y # x => (y \in memory'[p] <=> y \in memory[p])
        /\ Held(x) => (x \in memory'[p] <=> add)
        /\ memory' \in [Process -> SUBSET LinesOf(Rule)]
    <2>1. Held(x) => x \in LinesOf(Rule)
      BY <1>0, LinesAre
    <2> HIDE DEF new
    <2> QED BY <1>1, <1>3, <2>1 DEF PolicyTypeOK, InMemory
  <1>9. PolicyTypeOK'
    <2>1. \A s \in changing' : s.rows \subseteq Rule
      BY <1>6 DEF Changes
    <2> QED BY <1>1, <1>3, <1>8, <2>1, WatchingAssumption DEF PolicyTypeOK, Announcement
  <1>13. AdditionsFit'
    <2>1. Added(new)
      BY <1>0, <1>4 DEF Added
    <2>2. \A s, e : e.add = s.add /\ e.rows = s.rows /\ e.line = s.line /\ Added(s) => Added(e)
      BY DEF Added
    <2> QED BY <1>3, <1>6, <2>1, <2>2 DEF AdditionsFit
  <1>10. CleanChanges'
    <2> SUFFICES ASSUME NEW s \in changing', s.clean
                 PROVE  /\ NotLoading(s.at)'
                        /\ \A d \in changing' : d # s /\ d.at = s.at => d.line # s.line
      BY DEF CleanChanges, NotLoading
    <2>1. CASE s = new
      <3>1. NotLoading(p)' /\ \A t \in changing : t.at = p => t.line # x
        BY <1>4, <1>5, <1>7, <2>1 DEF NotLoading
      <3> QED BY <1>4, <1>6, <2>1, <3>1 DEF NotLoading
    <2>2. CASE s # new
      <3>1. s \in changing /\ ~Same(s, p, x)
        BY <1>6, <2>2
      <3>2. NotLoading(s.at) /\ \A d \in changing : d # s /\ d.at = s.at => d.line # s.line
        BY <1>3, <3>1 DEF CleanChanges
      <3>3. NotLoading(s.at)'
        BY <1>7, <3>2 DEF NotLoading
      <3>4. ASSUME NEW d \in changing', d # s, d.at = s.at PROVE d.line # s.line
        <4>1. CASE d = new
          BY <1>4, <3>1, <3>4, <4>1 DEF Same
        <4>2. CASE d # new
          BY <1>6, <3>1, <3>2, <3>4, <4>2
        <4> QED BY <4>1, <4>2
      <3> QED BY <3>3, <3>4
    <2> QED BY <2>1, <2>2
  <1>11. CleanLoads'
    <2> SUFFICES ASSUME NEW l \in loading', l.clean
                 PROVE  /\ \A s \in changing' : s.at # l.at
                        /\ \A k \in loading' : k # l => k.at # l.at
                        /\ memory'[l.at] = {}
      BY DEF CleanLoads
    <2>1. l \in loading /\ l.at # p /\ l.at \in Process
      BY <1>3, <1>7 DEF Load
    <2>2. /\ \A s \in changing : s.at # l.at
          /\ \A k \in loading : k # l => k.at # l.at
          /\ memory[l.at] = {}
      BY <1>3, <2>1 DEF CleanLoads
    <2>3. \A s \in changing' : s.at # l.at
      BY <1>4, <1>6, <2>1, <2>2
    <2>4. \A k \in loading' : k # l => k.at # l.at
      <3>1. \A k \in loading' : k \in loading \/ k.at = p
        BY <1>7
      <3> QED BY <2>1, <2>2, <3>1
    <2> QED BY <1>8, <2>1, <2>2, <2>3, <2>4
  <1>12. MemoryIsAhead'
    <2> SUFFICES ASSUME NEW q \in Process \ astray, NotLoading(q)',
                        \A s \in changing' : s.at = q => s.clean
                 PROVE  Ahead(q)'
      BY <1>1 DEF MemoryIsAhead
    <2>1. NotLoading(q)
      BY <1>7 DEF NotLoading
    <2>2. \A s \in changing : s.at = q => ~Same(s, p, x) /\ s \in changing'
      <3> SUFFICES ASSUME NEW s \in changing, s.at = q PROVE ~Same(s, p, x) /\ s \in changing'
        OBVIOUS
      <3>1. CASE q # p
        BY <1>2, <3>1 DEF Same
      <3>2. CASE q = p
        <4>1. new.clean
          BY <1>4, <1>6, <3>2
        <4>2. ~Same(s, p, x)
          BY <1>5, <3>2, <4>1 DEF Same
        <4> QED BY <1>2, <4>2
      <3> QED BY <3>1, <3>2
    <2>3. Ahead(q)
      BY <1>3, <2>1, <2>2 DEF MemoryIsAhead
    <2>4. \A s \in changing' : s.at = q => s = new \/ s \in changing
      BY <1>6, <2>2
    <2>5. CASE q # p
      <3>1. \A s \in changing' : s.at = q => s \in changing
        BY <1>4, <2>4, <2>5
      <3> QED BY <1>1, <1>8, <2>2, <2>3, <2>5, <3>1 DEF Ahead
    <2>6. CASE q = p
      <3>1. new.clean
        BY <1>4, <1>6, <2>6
      <3>2. \A s \in changing : s.at = p => s.line # x
        BY <1>5, <3>1
      <3>3. \A s \in changing' : s.at = p /\ Held(s.line) => (s.line \in memory'[p] <=> s.add)
        <4> SUFFICES ASSUME NEW s \in changing', s.at = p, Held(s.line) PROVE s.line \in memory'[p] <=> s.add
          OBVIOUS
        <4>1. CASE s = new
          BY <1>4, <1>8, <4>1
        <4>2. CASE s \in changing
          BY <1>8, <2>3, <2>6, <3>2, <4>2 DEF Ahead
        <4> QED BY <2>4, <2>6, <4>1, <4>2
      <3>4. ASSUME NEW y \in LinesOf(Rule), \A s \in changing' : s.at = p => s.line # y
            PROVE  y \in memory'[p] <=> y \in LinesOf(rules)
        <4>1. y # x
          BY <1>4, <1>6, <3>4
        <4>2. \A s \in changing : s.at = p => s.line # y
          BY <2>2, <2>6, <3>4
        <4> QED BY <1>8, <2>3, <2>6, <4>1, <4>2 DEF Ahead
      <3> QED BY <1>1, <2>6, <3>3, <3>4 DEF Ahead
    <2> QED BY <2>5, <2>6
  <1> QED BY <1>6, <1>7, <1>9, <1>10, <1>11, <1>12, <1>13 DEF PolicyIInv, PolicyRecords

LEMMA CommitChangeKeeps ==
    ASSUME PolicyIInv, NEW s \in changing, CommitChange(s)
    PROVE  PolicyIInv'
  <1> DEFINE After(d) == [d EXCEPT !.rows = IF s.add /\ ~d.add THEN d.rows \ s.rows ELSE d.rows]
  <1>1. /\ rules' = IF s.add THEN rules \union s.rows ELSE rules \ s.rows
        /\ changing' = {After(d) : d \in changing \ {s}}
        /\ astray' = astray \union (Process \ {s.at}) \union (IF s.clean /\ Exact(s) THEN {} ELSE {s.at})
        /\ memory' = memory /\ told' = told /\ loading' = loading
    BY DEF CommitChange, Spared
  <1>2. /\ PolicyTypeOK /\ changing \subseteq Changes /\ loading \subseteq Load /\ AdditionsFit
        /\ CleanChanges /\ CleanLoads /\ MemoryIsAhead
    BY DEF PolicyIInv, PolicyRecords
  <1>3. \A d \in Changes :
           /\ After(d) \in Changes /\ After(d).at = d.at /\ After(d).add = d.add
           /\ After(d).line = d.line /\ After(d).clean = d.clean
           /\ d.add => After(d).rows = d.rows
    BY <1>2 DEF Changes
  <1> HIDE DEF After
  <1>4. /\ changing' \subseteq Changes
        /\ \A e \in changing' : \E d \in changing \ {s} :
              e = After(d) /\ e.at = d.at /\ e.add = d.add /\ e.line = d.line /\ e.clean = d.clean
        /\ \A d \in changing \ {s} : \E e \in changing' :
              e.at = d.at /\ e.add = d.add /\ e.line = d.line /\ e.clean = d.clean
    <2>1. changing' \subseteq Changes
      BY <1>1, <1>2, <1>3
    <2>2. \A e \in changing' : \E d \in changing \ {s} :
              e = After(d) /\ e.at = d.at /\ e.add = d.add /\ e.line = d.line /\ e.clean = d.clean
      BY <1>1, <1>2, <1>3
    <2>3. \A d \in changing \ {s} : \E e \in changing' :
              e.at = d.at /\ e.add = d.add /\ e.line = d.line /\ e.clean = d.clean
      BY <1>1, <1>2, <1>3
    <2> QED BY <2>1, <2>2, <2>3
  <1>5. s.at \in Process /\ s.rows \subseteq Rule
    BY <1>2 DEF Changes
  <1>6. PolicyTypeOK'
    <2>1. \A d \in changing' : d.rows \subseteq Rule
      BY <1>4 DEF Changes
    <2> QED BY <1>1, <1>2, <1>5, <2>1 DEF PolicyTypeOK
  <1>10. AdditionsFit'
    <2>1. ASSUME NEW e \in changing' PROVE Added(e)
      <3>1. PICK d \in changing \ {s} : e = After(d) /\ e.add = d.add /\ e.line = d.line
        BY <1>4
      <3>2. Added(d) /\ (d.add => e.rows = d.rows)
        BY <1>2, <1>3, <3>1 DEF AdditionsFit
      <3> QED BY <3>1, <3>2 DEF Added
    <2> QED BY <2>1 DEF AdditionsFit
  <1>7. CleanChanges'
    <2> SUFFICES ASSUME NEW c \in changing', c.clean
                 PROVE  /\ NotLoading(c.at)'
                        /\ \A e \in changing' : e # c /\ e.at = c.at => e.line # c.line
      BY DEF CleanChanges, NotLoading
    <2>1. PICK b \in changing \ {s} :
             c = After(b) /\ c.at = b.at /\ c.line = b.line /\ c.clean = b.clean
      BY <1>4
    <2>2. NotLoading(b.at) /\ \A d \in changing : d # b /\ d.at = b.at => d.line # b.line
      BY <1>2, <2>1 DEF CleanChanges
    <2>3. ASSUME NEW e \in changing', e # c, e.at = c.at PROVE e.line # c.line
      <3>1. PICK d \in changing \ {s} :
               e = After(d) /\ e.at = d.at /\ e.line = d.line
        BY <1>4
      <3>2. d # b
        BY <2>1, <2>3, <3>1
      <3> QED BY <2>1, <2>2, <2>3, <3>1, <3>2
    <2> QED BY <1>1, <2>1, <2>2, <2>3 DEF NotLoading
  <1>8. CleanLoads'
    <2>1. \A l \in loading : l.clean => \A e \in changing' : e.at # l.at
      BY <1>2, <1>4 DEF CleanLoads
    <2> QED BY <1>1, <1>2, <2>1 DEF CleanLoads
  <1>9. MemoryIsAhead'
    <2> SUFFICES ASSUME NEW q \in Process \ astray', NotLoading(q)',
                        \A e \in changing' : e.at = q => e.clean
                 PROVE  Ahead(q)'
      BY DEF MemoryIsAhead
    <2>1. q = s.at /\ s.clean /\ Exact(s) /\ q \notin astray
      BY <1>1
    <2>2. \A d \in changing : d.at = q => d.clean
      BY <1>4, <2>1
    <2>3. NotLoading(q)
      BY <1>1 DEF NotLoading
    <2>4. Ahead(q)
      BY <1>2, <2>1, <2>2, <2>3 DEF MemoryIsAhead
    <2>5. Held(s.line) => (s.line \in memory[q] <=> s.add)
      BY <2>1, <2>4 DEF Ahead
    <2>6. /\ \A y : y # s.line => (y \in LinesOf(rules') <=> y \in LinesOf(rules))
          /\ Held(s.line) => (s.line \in LinesOf(rules') <=> s.add)
      <3>1. CASE s.add
        <4>1. PICK x \in Rule : s.rows = {x} /\ s.line = Line(x)
          BY <1>2, <3>1 DEF AdditionsFit, Added
        <4>2. rules' = rules \union {x}
          BY <1>1, <3>1, <4>1
        <4> QED BY <3>1, <4>1, <4>2, LinesAre
      <3>2. CASE ~s.add
        <4>1. rules' = rules \ s.rows /\ \A x \in rules : x \in s.rows <=> Line(x) = s.line
          BY <1>1, <2>1, <3>2 DEF Exact
        <4> QED BY <3>2, <4>1, LinesAre
      <3> QED BY <3>1, <3>2
    <2>7. ASSUME NEW y \in LinesOf(Rule), \A e \in changing' : e.at = q => e.line # y
          PROVE  y \in memory[q] <=> y \in LinesOf(rules')
      <3>1. CASE y = s.line
        <4>1. Held(y)
          BY LinesAre
        <4> QED BY <2>5, <2>6, <3>1, <4>1
      <3>2. CASE y # s.line
        <4>1. \A d \in changing : d.at = q => d.line # y
          BY <1>4, <2>7, <3>2
        <4> QED BY <2>4, <2>6, <3>2, <4>1 DEF Ahead
      <3> QED BY <3>1, <3>2
    <2>8. \A e \in changing' : e.at = q /\ Held(e.line) => (e.line \in memory[q] <=> e.add)
      BY <1>4, <2>4 DEF Ahead
    <2> QED BY <1>1, <2>7, <2>8 DEF Ahead, LinesOf
  <1> QED BY <1>1, <1>2, <1>4, <1>6, <1>7, <1>8, <1>9, <1>10 DEF PolicyIInv, PolicyRecords

LEMMA RollbackChangeKeeps ==
    ASSUME PolicyIInv, NEW s \in changing, RollbackChange(s)
    PROVE  PolicyIInv'
  <1>1. /\ changing' = changing \ {s} /\ astray' = astray \union {s.at}
        /\ rules' = rules /\ memory' = memory /\ told' = told /\ loading' = loading
    BY DEF RollbackChange
  <1>2. /\ PolicyTypeOK /\ changing \subseteq Changes /\ loading \subseteq Load /\ AdditionsFit
        /\ CleanChanges /\ CleanLoads /\ MemoryIsAhead
    BY DEF PolicyIInv, PolicyRecords
  <1>3. s.at \in Process
    BY <1>2 DEF Changes
  <1>4. PolicyTypeOK'
    BY <1>1, <1>2, <1>3 DEF PolicyTypeOK
  <1>5. AdditionsFit' /\ CleanChanges' /\ CleanLoads'
    BY <1>1, <1>2 DEF AdditionsFit, CleanChanges, CleanLoads, NotLoading
  <1>6. MemoryIsAhead'
    <2> SUFFICES ASSUME NEW q \in Process \ astray', NotLoading(q)',
                        \A e \in changing' : e.at = q => e.clean
                 PROVE  Ahead(q)'
      BY DEF MemoryIsAhead
    <2>1. q # s.at /\ q \notin astray /\ NotLoading(q)
      BY <1>1 DEF NotLoading
    <2>2. \A d \in changing : d.at = q => d \in changing'
      BY <1>1, <2>1
    <2>3. Ahead(q)
      BY <1>2, <2>1, <2>2 DEF MemoryIsAhead
    <2> QED BY <1>1, <2>2, <2>3 DEF Ahead
  <1> QED BY <1>1, <1>2, <1>4, <1>5, <1>6 DEF PolicyIInv, PolicyRecords

LEMMA StartProcessKeeps ==
    ASSUME PolicyIInv, NEW p \in Process, StartProcess(p)
    PROVE  PolicyIInv'
  <1>1. /\ memory' = [memory EXCEPT ![p] = {}] /\ told' = told \ {p}
        /\ loading' = {l \in loading : l.at # p} /\ changing' = {s \in changing : s.at # p}
        /\ astray' = astray \union {p} /\ rules' = rules
    BY DEF StartProcess
  <1>2. /\ PolicyTypeOK /\ changing \subseteq Changes /\ loading \subseteq Load /\ AdditionsFit
        /\ CleanChanges /\ CleanLoads /\ MemoryIsAhead
    BY DEF PolicyIInv, PolicyRecords
  <1>3. /\ memory' \in [Process -> SUBSET LinesOf(Rule)]
        /\ \A q \in Process : q # p => memory'[q] = memory[q]
    BY <1>1, <1>2 DEF PolicyTypeOK
  <1>4. PolicyTypeOK'
    BY <1>1, <1>2, <1>3 DEF PolicyTypeOK
  <1>5. AdditionsFit' /\ CleanChanges'
    BY <1>1, <1>2 DEF AdditionsFit, CleanChanges, NotLoading
  <1>6. CleanLoads'
    <2>1. \A l \in loading' : l.at \in Process /\ l.at # p /\ l \in loading
      BY <1>1, <1>2 DEF Load
    <2> QED BY <1>1, <1>2, <1>3, <2>1 DEF CleanLoads
  <1>7. MemoryIsAhead'
    <2> SUFFICES ASSUME NEW q \in Process \ astray', NotLoading(q)',
                        \A e \in changing' : e.at = q => e.clean
                 PROVE  Ahead(q)'
      BY DEF MemoryIsAhead
    <2>1. q # p /\ q \notin astray /\ NotLoading(q)
      BY <1>1 DEF NotLoading
    <2>2. \A d \in changing : d.at = q => d \in changing'
      BY <1>1, <2>1
    <2>3. Ahead(q)
      BY <1>2, <2>1, <2>2 DEF MemoryIsAhead
    <2> QED BY <1>1, <1>3, <2>1, <2>2, <2>3 DEF Ahead
  <1>8. PolicyRecords'
    BY <1>1, <1>2 DEF PolicyRecords
  <1> QED BY <1>4, <1>5, <1>6, <1>7, <1>8 DEF PolicyIInv

LEMMA StartReloadKeeps ==
    ASSUME PolicyIInv, NEW p \in Process, NEW by \in {"endpoint", "watcher"}, StartReload(p, by),
           told' \subseteq told
    PROVE  PolicyIInv'
  <1> DEFINE new == [at |-> p, by |-> by, read |-> FALSE, rows |-> {},
                     clean |-> \A s \in loading \union changing : s.at # p]
             old == DisturbedAt(p, loading)
  <1>1. /\ memory' = [memory EXCEPT ![p] = {}] /\ rules' = rules /\ astray' = astray
        /\ loading' = old \union {new}
    BY DEF StartReload, Stir, Emptied, DisturbedAt
  <1>2. changing' = {s \in changing : ~(s.at = p)} \union
               {[s EXCEPT !.clean = FALSE] : s \in {t \in changing : t.at = p}}
    BY DEF StartReload, Stir
  <1>3. /\ PolicyTypeOK /\ changing \subseteq Changes /\ loading \in SUBSET Load /\ AdditionsFit
        /\ CleanChanges /\ CleanLoads /\ MemoryIsAhead
    BY DEF PolicyIInv, PolicyRecords
  <1>4. /\ old \subseteq Load
        /\ \A e \in old : (e \in loading /\ e.at # p) \/ (~e.clean /\ e.at = p /\ \E l \in loading : l.at = p)
        /\ \A l \in loading : \E e \in old : e.at = l.at
    BY <1>3, LoadsDisturbed
  <1>5. /\ new \in Load /\ new.at = p
        /\ new.clean => \A s \in changing : s.at # p
        /\ new.clean => \A l \in loading : l.at # p
    BY DEF Load
  <1> HIDE DEF new, old
  <1>6. changing' \subseteq Changes
    BY <1>2, <1>3, Dirty
  <1>7. \A e \in changing' : (e \in changing /\ e.at # p) \/ (~e.clean /\ e.at = p /\ \E s \in changing : s.at = p)
    <2> SUFFICES ASSUME NEW e \in changing'
                 PROVE  (e \in changing /\ e.at # p) \/ (~e.clean /\ e.at = p /\ \E s \in changing : s.at = p)
      OBVIOUS
    <2>1. CASE e \in {s \in changing : ~(s.at = p)}
      BY <2>1
    <2>2. CASE e \in {[s EXCEPT !.clean = FALSE] : s \in {t \in changing : t.at = p}}
      BY <1>3, <2>2, Dirty
    <2> QED BY <1>2, <2>1, <2>2
  <1>8. \A s \in changing : s.at # p => s \in changing'
    BY <1>2
  <1>9. /\ memory' \in [Process -> SUBSET LinesOf(Rule)] /\ memory'[p] = {}
        /\ \A q \in Process : q # p => memory'[q] = memory[q]
    BY <1>1, <1>3 DEF PolicyTypeOK
  <1>10. PolicyTypeOK'
    <2>1. \A s \in changing' : s.rows \subseteq Rule
      BY <1>6 DEF Changes
    <2> QED BY <1>1, <1>3, <1>9, <2>1 DEF PolicyTypeOK
  <1>14. AdditionsFit'
    <2>1. ASSUME NEW e \in changing' PROVE Added(e)
      <3>1. CASE e \in {s \in changing : ~(s.at = p)}
        BY <1>3, <3>1 DEF AdditionsFit
      <3>2. CASE \E s \in changing : e = [s EXCEPT !.clean = FALSE]
        <4>1. PICK s \in changing : e = [s EXCEPT !.clean = FALSE]
          BY <3>2
        <4>2. s \in Changes /\ Added(s)
          BY <1>3 DEF AdditionsFit
        <4>3. e.add = s.add /\ e.rows = s.rows /\ e.line = s.line
          BY <4>1, <4>2, Dirty
        <4> QED BY <4>2, <4>3 DEF Added
      <3> QED BY <1>2, <3>1, <3>2
    <2> QED BY <2>1 DEF AdditionsFit
  <1>11. CleanChanges'
    <2> SUFFICES ASSUME NEW s \in changing', s.clean
                 PROVE  /\ NotLoading(s.at)'
                        /\ \A d \in changing' : d # s /\ d.at = s.at => d.line # s.line
      BY DEF CleanChanges, NotLoading
    <2>1. s \in changing /\ s.at # p
      BY <1>7
    <2>2. NotLoading(s.at) /\ \A d \in changing : d # s /\ d.at = s.at => d.line # s.line
      BY <1>3, <2>1 DEF CleanChanges
    <2>3. NotLoading(s.at)'
      BY <1>1, <1>4, <1>5, <2>1, <2>2 DEF NotLoading
    <2> QED BY <1>7, <2>1, <2>2, <2>3
  <1>12. CleanLoads'
    <2> SUFFICES ASSUME NEW l \in loading', l.clean
                 PROVE  /\ \A s \in changing' : s.at # l.at
                        /\ \A k \in loading' : k # l => k.at # l.at
                        /\ memory'[l.at] = {}
      BY DEF CleanLoads
    <2>1. CASE l = new
      BY <1>1, <1>4, <1>5, <1>7, <1>9, <2>1
    <2>2. CASE l \in old
      <3>1. l \in loading /\ l.at # p /\ l.at \in Process
        BY <1>3, <1>4, <2>2 DEF Load
      <3>2. /\ \A s \in changing : s.at # l.at
            /\ \A k \in loading : k # l => k.at # l.at
            /\ memory[l.at] = {}
        BY <1>3, <3>1 DEF CleanLoads
      <3> QED BY <1>1, <1>4, <1>5, <1>7, <1>9, <3>1, <3>2
    <2> QED BY <1>1, <2>1, <2>2
  <1>13. MemoryIsAhead'
    <2> SUFFICES ASSUME NEW q \in Process \ astray, NotLoading(q)',
                        \A s \in changing' : s.at = q => s.clean
                 PROVE  Ahead(q)'
      BY <1>1 DEF MemoryIsAhead
    <2>1. q # p
      BY <1>1, <1>5 DEF NotLoading
    <2>2. NotLoading(q)
      BY <1>1, <1>4 DEF NotLoading
    <2>3. \A s \in changing : s.at = q => s \in changing'
      BY <1>8, <2>1
    <2>4. Ahead(q)
      BY <1>3, <2>2, <2>3 DEF MemoryIsAhead
    <2>5. \A s \in changing' : s.at = q => s \in changing
      BY <1>7, <2>1
    <2> QED BY <1>1, <1>9, <2>1, <2>3, <2>4, <2>5 DEF Ahead
  <1> QED BY <1>1, <1>4, <1>5, <1>6, <1>10, <1>11, <1>12, <1>13, <1>14 DEF PolicyIInv, PolicyRecords

LEMMA ReadRulesKeeps ==
    ASSUME PolicyIInv, NEW l \in loading, ReadRules(l)
    PROVE  PolicyIInv'
  <1> DEFINE m == [l EXCEPT !.read = TRUE, !.rows = rules]
  <1>1. /\ loading' = (loading \ {l}) \union {m}
        /\ rules' = rules /\ memory' = memory /\ told' = told
        /\ changing' = changing /\ astray' = astray
    BY DEF ReadRules
  <1>2. /\ PolicyTypeOK /\ changing \subseteq Changes /\ loading \subseteq Load /\ AdditionsFit
        /\ CleanChanges /\ CleanLoads /\ MemoryIsAhead
    BY DEF PolicyIInv, PolicyRecords
  <1>3. m \in Load /\ m.at = l.at /\ m.clean = l.clean
    BY <1>2 DEF Load, PolicyTypeOK
  <1> HIDE DEF m
  <1>4. PolicyTypeOK'
    BY <1>1, <1>2 DEF PolicyTypeOK
  <1>5. \A q : NotLoading(q)' <=> NotLoading(q)
    BY <1>1, <1>3 DEF NotLoading
  <1>6. AdditionsFit' /\ CleanChanges'
    BY <1>1, <1>2, <1>5 DEF AdditionsFit, CleanChanges
  <1>7. CleanLoads'
    BY <1>1, <1>2, <1>3 DEF CleanLoads
  <1>8. MemoryIsAhead'
    BY <1>1, <1>2, <1>5 DEF MemoryIsAhead, Ahead
  <1> QED BY <1>1, <1>2, <1>3, <1>4, <1>6, <1>7, <1>8 DEF PolicyIInv, PolicyRecords

\* A reload ends with the lines it fills in, or fails after some of them.
LEMMA EndOfLoadKeeps ==
    ASSUME PolicyIInv, NEW l \in loading, NEW lines \in SUBSET LinesOf(l.rows),
           memory' = [memory EXCEPT ![l.at] = memory[l.at] \union lines],
           loading' = loading \ {l}, rules' = rules, told' = told, changing' = changing,
           \/ astray' = astray \union {l.at}
           \/ lines = LinesOf(rules) /\ l.clean /\ astray' = astray \ {l.at}
    PROVE  PolicyIInv'
  <1>2. /\ PolicyTypeOK /\ changing \subseteq Changes /\ loading \subseteq Load /\ AdditionsFit
        /\ CleanChanges /\ CleanLoads /\ MemoryIsAhead
    BY DEF PolicyIInv, PolicyRecords
  <1>3. l.at \in Process /\ lines \subseteq LinesOf(Rule)
    <2>1. l.rows \subseteq Rule
      BY <1>2 DEF Load
    <2> QED BY <1>2, <2>1, LinesAre DEF Load
  <1>4. /\ memory' \in [Process -> SUBSET LinesOf(Rule)]
        /\ memory'[l.at] = memory[l.at] \union lines
        /\ \A q \in Process : q # l.at => memory'[q] = memory[q]
    BY <1>2, <1>3 DEF PolicyTypeOK
  <1>5. PolicyTypeOK'
    BY <1>2, <1>3, <1>4 DEF PolicyTypeOK
  <1>6. AdditionsFit' /\ CleanChanges'
    BY <1>2 DEF AdditionsFit, CleanChanges, NotLoading
  <1>7. CleanLoads'
    <2> SUFFICES ASSUME NEW k \in loading, k # l, k.clean
                 PROVE  /\ \A s \in changing : s.at # k.at
                        /\ \A j \in loading : j # k => j.at # k.at
                        /\ memory'[k.at] = {}
      BY DEF CleanLoads
    <2>1. /\ \A s \in changing : s.at # k.at
          /\ \A j \in loading : j # k => j.at # k.at
          /\ memory[k.at] = {}
      BY <1>2 DEF CleanLoads
    <2>2. k.at \in Process /\ k.at # l.at
      BY <1>2, <2>1 DEF Load
    <2> QED BY <1>4, <2>1, <2>2
  <1>8. MemoryIsAhead'
    <2> SUFFICES ASSUME NEW q \in Process \ astray', NotLoading(q)',
                        \A s \in changing : s.at = q => s.clean
                 PROVE  Ahead(q)'
      BY DEF MemoryIsAhead
    <2>1. CASE q = l.at
      <3>1. l.clean /\ lines = LinesOf(rules)
        BY <2>1
      <3>2. memory[q] = {} /\ \A s \in changing : s.at # q
        BY <1>2, <2>1, <3>1 DEF CleanLoads
      <3>3. Ahead(q)'
        <4>1. memory'[q] = LinesOf(rules)
          BY <1>4, <2>1, <3>1, <3>2
        <4> QED BY <3>2, <4>1 DEF Ahead, LinesOf
      <3> QED BY <3>3
    <2>2. CASE q # l.at
      <3>1. NotLoading(q) /\ q \notin astray
        BY <2>2 DEF NotLoading
      <3>2. Ahead(q)
        BY <1>2, <3>1 DEF MemoryIsAhead
      <3> QED BY <1>4, <2>2, <3>2 DEF Ahead, LinesOf
    <2> QED BY <2>1, <2>2
  <1> QED BY <1>2, <1>5, <1>6, <1>7, <1>8 DEF PolicyIInv, PolicyRecords

LEMMA FillMemoryKeeps ==
    ASSUME PolicyIInv, NEW l \in loading, FillMemory(l)
    PROVE  PolicyIInv'
  <1>1. /\ memory' = [memory EXCEPT ![l.at] = memory[l.at] \union LinesOf(l.rows)]
        /\ loading' = loading \ {l} /\ rules' = rules /\ told' = told /\ changing' = changing
        /\ \/ astray' = astray \union {l.at}
           \/ LinesOf(l.rows) = LinesOf(rules) /\ l.clean /\ astray' = astray \ {l.at}
    BY DEF FillMemory
  <1> QED BY <1>1, EndOfLoadKeeps

LEMMA FailReloadKeeps ==
    ASSUME PolicyIInv, NEW l \in loading, FailReload(l)
    PROVE  PolicyIInv'
  <1>1. PICK held \in SUBSET LinesOf(l.rows) :
           memory' = [memory EXCEPT ![l.at] = memory[l.at] \union held]
    BY DEF FailReload
  <1>2. /\ loading' = loading \ {l} /\ rules' = rules /\ told' = told /\ changing' = changing
        /\ astray' = astray \union {l.at}
    BY DEF FailReload
  <1> QED BY <1>1, <1>2, EndOfLoadKeeps

LEMMA PolicyNextKeeps == PolicyIInv /\ [PolicyNext]_policyVars => PolicyIInv'
  <1> SUFFICES ASSUME PolicyIInv, [PolicyNext]_policyVars PROVE PolicyIInv'
    OBVIOUS
  <1>1. ASSUME NEW r \in PolicyReq, NEW p \in Process, NEW x \in Rule, AddPolicy(r, p, x)
        PROVE  PolicyIInv'
    <2>1. {x} \in SUBSET Rule /\ Change(r, p, TRUE, x, {x})
      BY <1>1 DEF AddPolicy
    <2> QED BY <2>1, ChangeKeeps
  <1>9. ASSUME NEW r \in PolicyReq, NEW p \in Process, NEW x \in Rule, RemovePolicy(r, p, x)
        PROVE  PolicyIInv'
    <2>1. Named(x) \in SUBSET Rule /\ Change(r, p, FALSE, x, Named(x))
      BY <1>9 DEF RemovePolicy, Named, PolicyIInv, PolicyTypeOK
    <2> QED BY <2>1, ChangeKeeps
  <1>2. ASSUME NEW s \in changing, CommitChange(s) PROVE PolicyIInv'
    BY <1>2, CommitChangeKeeps
  <1>3. ASSUME NEW s \in changing, RollbackChange(s) PROVE PolicyIInv'
    BY <1>3, RollbackChangeKeeps
  <1>4. ASSUME NEW p \in Process, Reload(p) PROVE PolicyIInv'
    <2>1. StartReload(p, "endpoint") /\ told' \subseteq told
      BY <1>4 DEF Reload
    <2> QED BY <2>1, StartReloadKeeps
  <1>5. ASSUME NEW p \in Process, WatcherReload(p) PROVE PolicyIInv'
    <2>1. StartReload(p, "watcher") /\ told' \subseteq told
      BY <1>5 DEF WatcherReload
    <2> QED BY <2>1, StartReloadKeeps
  <1>6. ASSUME NEW l \in loading, ReadRules(l) PROVE PolicyIInv'
    BY <1>6, ReadRulesKeeps
  <1>7. ASSUME NEW l \in loading, FillMemory(l) PROVE PolicyIInv'
    BY <1>7, FillMemoryKeeps
  <1>10. ASSUME NEW p \in Process, StartProcess(p) PROVE PolicyIInv'
    BY <1>10, StartProcessKeeps
  <1>11. ASSUME NEW l \in loading, FailReload(l) PROVE PolicyIInv'
    BY <1>11, FailReloadKeeps
  <1>8. CASE UNCHANGED policyVars
    BY <1>8 DEF policyVars, PolicyIInv, PolicyTypeOK, PolicyRecords, AdditionsFit, CleanChanges,
                CleanLoads, MemoryIsAhead, LinesOf,
                Ahead, NotLoading
  <1> QED BY <1>1, <1>2, <1>3, <1>4, <1>5, <1>6, <1>7, <1>8, <1>9, <1>10, <1>11 DEF PolicyNext

LEMMA PolicyInvariantHolds == PolicySpec => []PolicyIInv
  BY PolicyInitHolds, PolicyNextKeeps, PTL DEF PolicySpec

\* Types of the rules and the memories.
THEOREM PolicyTypeOKHolds == PolicySpec => []PolicyTypeOK
  <1>1. PolicyIInv => PolicyTypeOK
    BY DEF PolicyIInv
  <1> QED BY <1>1, PolicyInvariantHolds, PTL

\* Once the changes and the reloads of a process are over it decides by the
\* committed rules, if it holds those of a good reload and none of the named
\* events has led it astray since.
THEOREM MemoryIsRules == PolicySpec => []MemoryIsRulesUnlessAstray
  <1>1. PolicyIInv => MemoryIsRulesUnlessAstray
    <2> SUFFICES ASSUME PolicyIInv, NEW p \in Process \ astray, NotLoading(p), \A s \in changing : s.at # p
                 PROVE  memory[p] = LinesOf(rules)
      BY DEF MemoryIsRulesUnlessAstray
    <2>1. Ahead(p)
      BY DEF PolicyIInv, MemoryIsAhead
    <2>2. memory[p] \subseteq LinesOf(Rule) /\ LinesOf(rules) \subseteq LinesOf(Rule)
      BY LinesAre DEF PolicyIInv, PolicyTypeOK
    <2> QED BY <2>1, <2>2 DEF Ahead
  <1> QED BY <1>1, PolicyInvariantHolds, PTL
=============================================================================
