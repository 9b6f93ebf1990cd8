-------------------------------- MODULE Access --------------------------------
(***************************************************************************)
(* Users, their roles and tokens, the organizations, and the audit log of  *)
(* HTTP requests (routers/auth.py, routers/orgs.py, shared/auth/*.py,      *)
(* shared/audit_middleware.py).                                            *)
(*                                                                         *)
(* A request authenticates by reading its user.  An update of a user       *)
(* deletes the roles it has read and inserts those it was given, and       *)
(* commits in the handler.  Other handlers flush and answer: the session   *)
(* commits when the dependency is closed, and the middleware writes its    *)
(* row in a session of its own as soon as there is a response, so that     *)
(* neither waits for the other and either may fail alone.  An exception    *)
(* that is no HTTPException passes the middleware without a row.           *)
(***************************************************************************)
EXTENDS Naturals, FiniteSets

CONSTANTS
    Call,           \* bound: the write requests, each made once
    User, Admin,    \* users, those of them who are superusers
    Role,
    Org             \* organizations that may be created

ASSUME AdminAssumption == Admin \subseteq User

VARIABLES
    users,      \* rows of users
    active,     \* those with is_active
    tokens,     \* users who hold a refresh token, good for 14 days
    grants,     \* rows of user_roles, as <<user, role>>
    orgs,       \* rows of organizations
    calls,      \* requests at work
    audit,      \* rows of audit_logs, as <<request, status>>
    past,       \* history: requests that have ended, as [id, done, logged]
    wanted,     \* history: the roles a user was given last
    mixed,      \* history: users whose roles were updated by overlapping requests
    revoked     \* history: requests whose user was deactivated while they ran

accessTables == <<users, active, tokens, grants, orgs, audit>>
accessVars   == <<accessTables, calls, past, wanted, mixed, revoked>>

RolesOf(u) == {g[2] : g \in {h \in grants : h[1] = u}}

\* Seeded with the administrators.
AccessInit ==
    /\ users = Admin
    /\ active = Admin
    /\ tokens = {}
    /\ grants = {}
    /\ orgs = {}
    /\ calls = {}
    /\ audit = {}
    /\ past = {}
    /\ wanted = [u \in User |-> {}]
    /\ mixed = {}
    /\ revoked = {}

\* login; refresh renews the token without a look at the user.
Login(u) ==
    /\ u \in active
    /\ tokens' = tokens \union {u}
    /\ UNCHANGED <<users, active, grants, orgs, audit, calls, past, wanted, mixed, revoked>>

\* get_current_user
MayAct(u) == u \in tokens /\ u \in active

\* The handler runs up to where it waits for the database.
BeginCall(id, u, work) ==
    /\ MayAct(u)
    /\ \A c \in calls : c.id # id
    /\ \A e \in past : e.id # id
    /\ work.does # "org" => u \in Admin
    /\ calls' = calls \union
           {[id |-> id, user |-> u, work |-> work, done |-> "no", logged |-> "no", saw |-> {}]}
    /\ UNCHANGED <<accessTables, past, wanted, mixed, revoked>>

CallStep(c, d) == calls' = (calls \ {c}) \union {d}

\* update_user reads the roles there are ...
ReadRoles(c) ==
    /\ c.work.does = "update"
    /\ c.done = "no"
    /\ c.work.user \in users
    /\ CallStep(c, [c EXCEPT !.done = "read", !.saw = RolesOf(c.work.user)])
    /\ UNCHANGED <<accessTables, past, wanted, mixed, revoked>>

\* Mutant: the old roles are kept.
MutantRolesAfter(c) == RolesOf(c.work.user) \union c.work.roles

\* ... deletes them and inserts the new ones.
RolesAfter(c) == (RolesOf(c.work.user) \ c.saw) \union c.work.roles

\* A role that another request has inserted since fails the primary key: Raise.
RolesCollide(c) == (RolesOf(c.work.user) \ c.saw) \intersect c.work.roles # {}

CommitUpdate(c) ==
    LET u == c.work.user
    IN  /\ c.work.does = "update"
        /\ c.done = "read"
        /\ ~RolesCollide(c)
        /\ active' = IF c.work.active THEN active \union {u} ELSE active \ {u}
        /\ grants' = {g \in grants : g[1] # u} \union ({u} \X RolesAfter(c))
        /\ wanted' = [wanted EXCEPT ![u] = c.work.roles]
        /\ mixed' = IF c.saw = RolesOf(u) THEN mixed ELSE mixed \union {u}
        /\ revoked' = IF c.work.active THEN revoked
                      ELSE revoked \union {d.id : d \in {e \in calls : e.user = u}}
        /\ CallStep(c, [c EXCEPT !.done = "yes"])
        /\ UNCHANGED <<users, tokens, orgs, audit, past>>

\* create_user: the name is looked up, the insert decides.
CommitUser(c) ==
    LET u == c.work.user
    IN  /\ c.work.does = "create"
        /\ c.done = "no"
        /\ u \notin users
        /\ users' = users \union {u}
        /\ active' = active \union {u}
        /\ grants' = grants \union ({u} \X c.work.roles)
        /\ wanted' = [wanted EXCEPT ![u] = c.work.roles]
        /\ CallStep(c, [c EXCEPT !.done = "yes"])
        /\ UNCHANGED <<tokens, orgs, audit, past, mixed, revoked>>

\* create_org flushes and answers; what it flushed is not committed yet.
AnswerOrg(c) ==
    /\ c.work.does = "org"
    /\ c.done = "no"
    /\ CallStep(c, [c EXCEPT !.done = "flushed"])
    /\ UNCHANGED <<accessTables, past, wanted, mixed, revoked>>

CommitOrg(c) ==
    /\ c.done = "flushed"
    /\ orgs' = orgs \union {c.work.org}
    /\ CallStep(c, [c EXCEPT !.done = "yes"])
    /\ UNCHANGED <<users, active, tokens, grants, audit, past, wanted, mixed, revoked>>

\* The handler raises an HTTPException, or its input is refused: the exception
\* handlers inside the middleware turn it into an answer with an error status.
Refuse(c) ==
    /\ c.done \in {"no", "read"}
    /\ CallStep(c, [c EXCEPT !.done = "refused"])
    /\ UNCHANGED <<accessTables, past, wanted, mixed, revoked>>

\* Any other exception (a commit that violates a constraint, a lost connection,
\* an update that cannot read the roles again after its commit) leaves call_next
\* as an exception: the caller is told of it outside the middleware, which logs
\* nothing.
Raise(c) ==
    /\ c.logged = "no"
    /\ c.done \in {"no", "read"} \/ (c.done = "yes" /\ c.work.does = "update")
    /\ CallStep(c, [c EXCEPT !.done = "raised"])
    /\ UNCHANGED <<accessTables, past, wanted, mixed, revoked>>

\* The commit fails after the answer has been given.
LoseCommit(c) ==
    /\ c.done = "flushed"
    /\ CallStep(c, [c EXCEPT !.done = "lost"])
    /\ UNCHANGED <<accessTables, past, wanted, mixed, revoked>>

\* Mutant: refused requests are logged as successes.
MutantStatusOf(c) == "ok"

\* response.status_code
StatusOf(c) == IF c.done = "refused" THEN "error" ELSE "ok"

Answered(c) == c.done \in {"flushed", "yes", "refused", "lost"}

\* AuditLogMiddleware.dispatch, after call_next
WriteAudit(c) ==
    /\ Answered(c)
    /\ c.logged = "no"
    /\ audit' = audit \union {<<c.id, StatusOf(c)>>}
    /\ CallStep(c, [c EXCEPT !.logged = "yes"])
    /\ UNCHANGED <<users, active, tokens, grants, orgs, past, wanted, mixed, revoked>>

\* except Exception: pass
SwallowAudit(c) ==
    /\ Answered(c)
    /\ c.logged = "no"
    /\ CallStep(c, [c EXCEPT !.logged = "swallowed"])
    /\ UNCHANGED <<accessTables, past, wanted, mixed, revoked>>

EndCall(c) ==
    /\ c.done \in {"yes", "refused", "lost", "raised"}
    /\ c.done # "raised" => c.logged # "no"
    /\ calls' = calls \ {c}
    /\ past' = past \union {[id |-> c.id, done |-> c.done, logged |-> c.logged]}
    /\ UNCHANGED <<accessTables, wanted, mixed, revoked>>

Work == [does : {"update"}, user : User, roles : SUBSET Role, active : BOOLEAN]
        \union [does : {"create"}, user : User, roles : SUBSET Role]
        \union [does : {"org"}, org : Org]

AccessNext ==
    \/ \E u \in User : Login(u)
    \/ \E id \in Call, u \in User, work \in Work : BeginCall(id, u, work)
    \/ \E c \in calls : ReadRoles(c)
    \/ \E c \in calls : CommitUpdate(c)
    \/ \E c \in calls : CommitUser(c)
    \/ \E c \in calls : AnswerOrg(c)
    \/ \E c \in calls : CommitOrg(c)
    \/ \E c \in calls : Refuse(c)
    \/ \E c \in calls : Raise(c)
    \/ \E c \in calls : LoseCommit(c)
    \/ \E c \in calls : WriteAudit(c)
    \/ \E c \in calls : SwallowAudit(c)
    \/ \E c \in calls : EndCall(c)

AccessSpec == AccessInit /\ [][AccessNext]_accessVars

-----------------------------------------------------------------------------
\* Users, roles and organizations, and the requests at work on them.
AccessTypeOK ==
    /\ users \subseteq User /\ active \subseteq users /\ tokens \subseteq users
    /\ grants \subseteq users \X Role
    /\ orgs \subseteq Org
    /\ \A c \in calls : c.id \in Call /\ c.user \in users
    /\ audit \subseteq Call \X {"ok", "error"}
    /\ mixed \subseteq User

\* A user has the roles of the update committed last, unless two updates had
\* read the roles of the user before either of them wrote.
RolesAreAsGiven == \A u \in User \ mixed : RolesOf(u) = wanted[u]

\* The audit log is true to what the caller was told: a request that was answered
\* has one row with the status of its answer, unless writing the row failed, and
\* a row of success without its effect is one whose commit failed after the
\* answer.  A request that left the handler as an exception has no row at all,
\* not even if it had committed: the log does not hold every write.
AuditTellsAnswers ==
    \A e \in past :
        LET rows == {a[2] : a \in {b \in audit : b[1] = e.id}}
        IN  rows = IF e.done = "raised" \/ e.logged = "swallowed" THEN {}
                   ELSE IF e.done = "refused" THEN {"error"} ELSE {"ok"}

\* Deactivating a user stops at once whatever this user has not begun: a
\* request of an inactive user can only be one that ran when it happened.
InactiveOnlyFinishes == \A c \in calls : c.user \in active \/ c.id \in revoked

\* Every request that was answered is told of as it was answered, and only
\* active users begin requests.
RequestsAreAccounted ==
    /\ AccessTypeOK
    /\ AuditTellsAnswers
    /\ InactiveOnlyFinishes
=============================================================================
