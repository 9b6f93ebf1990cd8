-------------------------------- MODULE Policy --------------------------------
(***************************************************************************)
(* Permission rules in the database and in the memory of each process      *)
(* (enforcer.py).                                                          *)
(*                                                                         *)
(* A change is flushed, made in the memory of its own process and          *)
(* announced, all before its commit.  A reload empties the memory, reads   *)
(* what is committed and fills it; when it fails on the way the memory     *)
(* stays as far as it got.  A process starts with an empty enforcer, and   *)
(* nothing in the program starts the watcher that would reload on an       *)
(* announcement, so that a process reloads when its endpoint is called;    *)
(* Watching names the processes that do watch.                             *)
(***************************************************************************)
EXTENDS FiniteSets, Naturals, Sequences

CONSTANTS
    Process,    \* gateway processes
    Watching,   \* those that run start_policy_watcher
    PolicyReq,  \* requests that change rules
    Rule        \* rows a request may add: [ptype, v] with the columns v0 to v5 in v

ASSUME WatchingAssumption == Watching \subseteq Process

VARIABLES
    rules,      \* rows of casbin_rules
    memory,     \* the enforcer of each process: the lines it holds
    told,       \* processes with an announcement not yet handled
    loading,    \* reloads under way
    changing,   \* requests between their flush and their commit
    astray      \* history: processes that do not hold the rules of a good reload

policyVars == <<rules, memory, told, loading, changing, astray>>

Blank == ""

\* The enforcer holds the columns that are not empty, of policies and groupings.
Line(x) == <<x.ptype, SelectSeq(x.v, LAMBDA c : c # Blank)>>
Held(line) == line[1] \in {"p", "g"}
LinesOf(rows) == {line \in {Line(x) : x \in rows} : Held(line)}

\* remove_policy names a row by its first four columns.
Short(x) == x.v[5] = Blank /\ x.v[6] = Blank
Named(x) == {y \in rules : y.ptype = x.ptype /\ \A i \in 1 .. 4 : y.v[i] = x.v[i]}

PolicyInit ==
    /\ rules \in SUBSET Rule
    /\ memory = [p \in Process |-> {}]
    /\ told = {}
    /\ loading = {}
    /\ changing = {}
    /\ astray = Process

NotChanging(r) == \A s \in changing : s.by # r

\* _publish_change, which passes over every failure
Announcement == told \union Watching

\* Mutant: the memory of the process is left to the next reload.
MutantInMemory(p, add, line) == memory[p]

InMemory(p, add, line) ==
    IF ~Held(line) THEN memory[p]
    ELSE IF add THEN memory[p] \union {line} ELSE memory[p] \ {line}

\* Nothing else is at work on the line in this process, or reloads it.
Alone(p, line) ==
    /\ \A l \in loading : l.at # p
    /\ \A s \in changing : s.at = p => s.line # line

\* What began in process p is no longer alone there.
Stir(S, Hit(_)) == {s \in S : ~Hit(s)} \union {[s EXCEPT !.clean = FALSE] : s \in {t \in S : Hit(t)}}

\* rows are those that the request inserts or deletes.
Change(r, p, add, x, rows) ==
    LET line == Line(x)
    IN  /\ NotChanging(r)
        /\ memory' = [memory EXCEPT ![p] = InMemory(p, add, line)]
        /\ changing' = Stir(changing, LAMBDA s : s.at = p /\ s.line = line) \union
               {[by |-> r, at |-> p, add |-> add, rows |-> rows, line |-> line, clean |-> Alone(p, line)]}
        /\ loading' = Stir(loading, LAMBDA l : l.at = p)
        /\ told' \in {told, Announcement}
        /\ UNCHANGED <<rules, astray>>

\* add_policy, add_role_for_user
AddPolicy(r, p, x) == Change(r, p, TRUE, x, {x})

\* remove_policy deletes every row with these first columns, whatever the others
\* hold, and from the memory the line of exactly these columns.
RemovePolicy(r, p, x) == Short(x) /\ Change(r, p, FALSE, x, Named(x))

\* The DELETE was executed before: it spares a row committed after it.
Spared(s) ==
    {[d EXCEPT !.rows = IF s.add /\ ~d.add THEN @ \ s.rows ELSE @] : d \in changing \ {s}}

\* The rows a request deletes are the rows of the line it takes from the memory.
Exact(s) == s.add \/ \A x \in rules : x \in s.rows <=> Line(x) = s.line

\* Other processes have not made the change.
CommitChange(s) ==
    /\ rules' = IF s.add THEN rules \union s.rows ELSE rules \ s.rows
    /\ changing' = Spared(s)
    /\ astray' = astray \union (Process \ {s.at}) \union (IF s.clean /\ Exact(s) THEN {} ELSE {s.at})
    /\ UNCHANGED <<memory, told, loading>>

\* The memory keeps the change that the database gives up.
RollbackChange(s) ==
    /\ changing' = changing \ {s}
    /\ astray' = astray \union {s.at}
    /\ UNCHANGED <<rules, memory, told, loading>>

\* A process is started again: a new enforcer is empty (get_enforcer).
StartProcess(p) ==
    /\ memory' = [memory EXCEPT ![p] = {}]
    /\ told' = told \ {p}
    /\ loading' = {l \in loading : l.at # p}
    /\ changing' = {s \in changing : s.at # p}
    /\ astray' = astray \union {p}
    /\ UNCHANGED rules

-----------------------------------------------------------------------------
(* load_policies_from_db                                                     *)

NotLoading(p) == \A l \in loading : l.at # p

\* clear_policy comes before the query.
Emptied(p) == [memory EXCEPT ![p] = {}]

StartReload(p, by) ==
    /\ \A l \in loading : l.at = p => l.by # by
    /\ memory' = Emptied(p)
    /\ loading' = Stir(loading, LAMBDA l : l.at = p) \union
           {[at |-> p, by |-> by, read |-> FALSE, rows |-> {},
             clean |-> \A s \in loading \union changing : s.at # p]}
    /\ changing' = Stir(changing, LAMBDA s : s.at = p)
    /\ UNCHANGED <<rules, astray>>

\* reload_policies
Reload(p) == StartReload(p, "endpoint") /\ UNCHANGED told

\* start_policy_watcher; a failed reload ends it, so that p may stay told.
WatcherReload(p) ==
    /\ p \in told
    /\ StartReload(p, "watcher")
    /\ told' = told \ {p}

ReadRules(l) ==
    /\ ~l.read
    /\ loading' = (loading \ {l}) \union {[l EXCEPT !.read = TRUE, !.rows = rules]}
    /\ UNCHANGED <<rules, memory, told, changing, astray>>

\* A reload that nothing overlapped brings the process back.
FillMemory(l) ==
    /\ l.read
    /\ memory' = [memory EXCEPT ![l.at] = @ \union LinesOf(l.rows)]
    /\ loading' = loading \ {l}
    /\ astray' = IF l.clean /\ l.rows = rules THEN astray \ {l.at} ELSE astray \union {l.at}
    /\ UNCHANGED <<rules, told, changing>>

\* The query fails, or the enforcer refuses a row: what was there before the
\* reload is gone, and what came before the refused row is held.
FailReload(l) ==
    /\ \E held \in SUBSET LinesOf(l.rows) : memory' = [memory EXCEPT ![l.at] = @ \union held]
    /\ loading' = loading \ {l}
    /\ astray' = astray \union {l.at}
    /\ UNCHANGED <<rules, told, changing>>

PolicyNext ==
    \/ \E r \in PolicyReq, p \in Process, x \in Rule : AddPolicy(r, p, x)
    \/ \E r \in PolicyReq, p \in Process, x \in Rule : RemovePolicy(r, p, x)
    \/ \E s \in changing : CommitChange(s)
    \/ \E s \in changing : RollbackChange(s)
    \/ \E p \in Process : StartProcess(p)
    \/ \E p \in Process : Reload(p)
    \/ \E p \in Process : WatcherReload(p)
    \/ \E l \in loading : ReadRules(l)
    \/ \E l \in loading : FillMemory(l)
    \/ \E l \in loading : FailReload(l)

PolicySpec == PolicyInit /\ [][PolicyNext]_policyVars

-----------------------------------------------------------------------------
\* The rules, the memories and the sessions that change them.
PolicyTypeOK ==
    /\ rules \subseteq Rule
    /\ memory \in [Process -> SUBSET LinesOf(Rule)]
    /\ told \subseteq Process
    /\ \A s \in changing : s.rows \subseteq Rule
    /\ astray \subseteq Process

\* A process decides by the committed rules once its changes and reloads are
\* over, from its first good reload on, unless one of these has gone past it
\* since its last: a change of another process, a rollback of its own, a reload
\* that failed after it had emptied the memory, a removal that hit other rows
\* than the line it named, or a change or a second reload that overlapped one.
MemoryIsRulesUnlessAstray ==
    \A p \in Process \ astray :
        NotLoading(p) /\ (\A s \in changing : s.at # p) => memory[p] = LinesOf(rules)
=============================================================================
