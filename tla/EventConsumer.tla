---------------------------- MODULE EventConsumer ----------------------------
(***************************************************************************)
(* One Redis stream ("plm-events", "scm-events" or "mfg-events"), the      *)
(* publishers that append to it and the workers of the management lane     *)
(* that consume it (management_decision/services/event_consumer.py).       *)
(*                                                                         *)
(* A worker asks for entries nobody of its group has been given (">"),     *)
(* takes up to ten, and handles them one by one: dispatch in a database    *)
(* session, commit, XACK.  An exception of a handler or of the commit is   *)
(* logged and the entry acknowledged all the same; an exception of Redis   *)
(* abandons the rest of the batch and sleeps.  Entries handed out and not  *)
(* acknowledged stay in the pending list of the group, which no code       *)
(* reads again.                                                            *)
(*                                                                         *)
(* The group is created when a worker starts.  Whatever goes wrong then is *)
(* taken for a group that exists already, and the worker asks a group      *)
(* there is none of until one is started that creates it.  Nothing starts  *)
(* a worker again that was cancelled.                                      *)
(***************************************************************************)
EXTENDS Naturals, Sequences, FiniteSets

CONSTANTS
    Worker,     \* processes running consume_stream for this stream
    Type,       \* event types published on it
    Form,       \* forms of the entries published on it, see Accepted
    Batch,      \* count of XREADGROUP, 10 in the code
    MaxEntries  \* bound: length of the stream

ASSUME BatchAssumption == Batch \in Nat \ {0} /\ MaxEntries \in Nat

VARIABLES
    log,        \* the stream: type and form of every entry, in order
    group,      \* the consumer group exists
    delivered,  \* last entry handed to the group
    pending,    \* entries handed out and not acknowledged
    phase,      \* where each worker is in its loop
    held,       \* the rest of the batch of each worker, first entry in hand
    saw,        \* what the handler of the entry in hand has read and computed
    kpi,        \* value of the KPI data point of the day per code
    rows,       \* codes that have a data point
    applied,    \* history: entries whose effect is committed, in order
    attempted,  \* history: entries whose session was committed or rolled back
    failed      \* history: entries that met a failure of the database

stream   == <<log, delivered, pending>>
worker   == <<phase, held, saw>>
database == <<kpi, rows, applied, attempted, failed>>
vars     == <<stream, worker, database, group>>

-----------------------------------------------------------------------------
(* Events                                                                    *)

\* The handler registry.  Each KPI code is written by one handler only, so that
\* the event type stands for the code; a counter grows by one per event (for
\* work orders the code adds the completed quantity), a gauge shows the entry
\* it was last set from.
Records == {"sales_order.confirmed", "po.approved"}  \* create an AR or AP record
Counts  == {"hazard.reported", "work_order.completed"}
Gauges  == {"oee.calculated", "qc.failed", "energy.threshold_breached"}
Handled == Records \union Counts \union Gauges       \* "equipment.fault" is not
Code    == Counts \union Gauges

\* Forms of an entry: "flat" as the PLM and MFG publishers write it, one stream
\* field per attribute; "string" as the SCM publisher writes it, a JSON payload
\* with the amount as a plain string; "documented" as the header of the
\* consumer and its tests have it.
Forms == {"flat", "string", "documented"}

\* dispatch: data["tenant_id"] is missing in what the consumer makes of a flat
\* entry, and data["total_amount"]["amount"] cannot index a string.
Accepted(e) == e.form = "documented" /\ e.type \in Handled

Idle == [ok |-> FALSE, row |-> FALSE, value |-> 0]

Init ==
    /\ log = <<>>
    /\ delivered = 0
    /\ pending = {}
    /\ group = FALSE
    /\ phase = [w \in Worker |-> "down"]
    /\ held = [w \in Worker |-> <<>>]
    /\ saw = [w \in Worker |-> Idle]
    /\ kpi = [c \in Code |-> 0]
    /\ rows = {}
    /\ applied = <<>>
    /\ attempted = {}
    /\ failed = {}

\* RedisEventPublisher.publish, publish_event: XADD.
Publish(type, form) ==
    /\ Len(log) < MaxEntries
    /\ log' = Append(log, [type |-> type, form |-> form])
    /\ UNCHANGED <<delivered, pending, worker, database, group>>

-----------------------------------------------------------------------------
(* The loop of consume_stream                                                *)

\* Mutant: the pending entries of the group are handed out first.
MutantFresh(n) == 1..n

\* XREADGROUP with ">": entries nobody has been given yet.
Fresh(n) == (delivered + 1)..n

InOrder(entries) ==
    CHOOSE s \in [1..Cardinality(entries) -> entries] :
        \A i, j \in DOMAIN s : i < j => s[i] < s[j]

\* The answer may get lost on its way: the entries are pending all the same.
\* Without the group there is an error instead, NOGROUP.
Read(w, n) ==
    /\ phase[w] = "reading"
    /\ group
    /\ n \in (delivered + 1)..Len(log)
    /\ Cardinality(Fresh(n)) <= Batch
    /\ delivered' = n
    /\ pending' = pending \union Fresh(n)
    /\ \/ /\ phase' = [phase EXCEPT ![w] = "holding"]
          /\ held' = [held EXCEPT ![w] = InOrder(Fresh(n))]
       \/ /\ phase' = [phase EXCEPT ![w] = "sleeping"]
          /\ UNCHANGED held
    /\ UNCHANGED <<log, saw, database, group>>

InHand(w) == Head(held[w])
CodeOf(w) == log[InHand(w)].type

\* dispatch: the handler runs, or raises and is logged, which the database can
\* make it do at any time.  What it adds to the session is visible to nobody
\* before the commit.
Dispatch(w) ==
    LET e == log[InHand(w)]
        before == IF e.type \in Code THEN kpi[e.type] ELSE 0
    IN  /\ phase[w] = "holding"
        /\ \E ok \in BOOLEAN :
             /\ ok => Accepted(e)
             /\ saw' = [saw EXCEPT ![w] =
                   [ok    |-> ok,
                    row   |-> e.type \in rows,
                    value |-> CASE ok /\ e.type \in Counts -> before + 1
                                [] ok /\ e.type \in Gauges -> InHand(w)
                                [] OTHER                   -> 0]]
             /\ failed' = IF ok \/ ~Accepted(e) THEN failed
                           ELSE failed \union {InHand(w)}
        /\ phase' = [phase EXCEPT ![w] = "dispatched"]
        /\ UNCHANGED <<stream, held, kpi, rows, applied, attempted, group>>

\* The INSERT of a data point fails on uq_kpi_dp_tenant_code_period when
\* another worker has inserted it since.
DuplicatePoint(w) == CodeOf(w) \in rows /\ ~saw[w].row

\* Mutant: the session is closed without a commit.
MutantKept(w) == <<>>

\* Entries whose effect the commit makes visible.
Kept(w) == IF saw[w].ok THEN <<InHand(w)>> ELSE <<>>

\* Mutant: the data point is written whatever has become of the session.
MutantWrites(w) == CodeOf(w) \in Code

\* The session carries a data point.
Writes(w) == saw[w].ok /\ CodeOf(w) \in Code

Commit(w) ==
    /\ phase[w] = "dispatched"
    /\ ~(Writes(w) /\ DuplicatePoint(w))
    /\ kpi' = [c \in Code |-> IF Writes(w) /\ c = CodeOf(w) THEN saw[w].value ELSE kpi[c]]
    /\ rows' = IF Writes(w) THEN rows \union {CodeOf(w)} ELSE rows
    /\ applied' = applied \o Kept(w)
    /\ attempted' = attempted \union {InHand(w)}
    /\ phase' = [phase EXCEPT ![w] = "settled"]
    /\ UNCHANGED <<stream, held, saw, failed, group>>

\* The commit raises: rolled back, logged, and on to the XACK.
Fail(w) ==
    /\ phase[w] = "dispatched"
    /\ attempted' = attempted \union {InHand(w)}
    /\ failed' = failed \union {InHand(w)}
    /\ phase' = [phase EXCEPT ![w] = "settled"]
    /\ UNCHANGED <<stream, held, saw, kpi, rows, applied, group>>

Acked(w) == {InHand(w)}

AfterAck(w) == IF Len(held[w]) = 1 THEN "reading" ELSE "holding"

\* The XACK may be executed and its answer lost.
Ack(w) ==
    /\ phase[w] = "settled"
    /\ pending' = pending \ Acked(w)
    /\ \/ /\ held' = [held EXCEPT ![w] = Tail(held[w])]
          /\ phase' = [phase EXCEPT ![w] = AfterAck(w)]
       \/ /\ held' = [held EXCEPT ![w] = <<>>]
          /\ phase' = [phase EXCEPT ![w] = "sleeping"]
    /\ saw' = [saw EXCEPT ![w] = Idle]
    /\ UNCHANGED <<log, delivered, database, group>>

Abandon(w, next) ==
    /\ held' = [held EXCEPT ![w] = <<>>]
    /\ saw' = [saw EXCEPT ![w] = Idle]
    /\ phase' = [phase EXCEPT ![w] = next]
    /\ UNCHANGED <<stream, database>>

\* XREADGROUP or XACK raises without an effect: "retrying in 5s".
RedisError(w) ==
    /\ phase[w] \in {"reading", "settled"}
    /\ Abandon(w, "sleeping")
    /\ UNCHANGED group

\* Mutant: the worker never comes back from an error of Redis.
MutantWake(w) == phase[w] = "sleeping" /\ Abandon(w, "sleeping") /\ UNCHANGED group

Wake(w) == phase[w] = "sleeping" /\ Abandon(w, "reading") /\ UNCHANGED group

\* The process dies or the task is cancelled, anywhere.
Stop(w) == phase[w] # "down" /\ Abandon(w, "down") /\ UNCHANGED group

\* XGROUP CREATE, from the first entry on: an exception of any kind is passed
\* over, so that afterwards there is a group or there is none.
Start(w) ==
    /\ phase[w] = "down"
    /\ Abandon(w, "reading")
    /\ group' \in {group, TRUE}

Next ==
    \/ \E type \in Type, form \in Form : Publish(type, form)
    \/ \E w \in Worker, n \in 1..MaxEntries : Read(w, n)
    \/ \E w \in Worker : Dispatch(w)
    \/ \E w \in Worker : Commit(w)
    \/ \E w \in Worker : Fail(w)
    \/ \E w \in Worker : Ack(w)
    \/ \E w \in Worker : RedisError(w)
    \/ \E w \in Worker : Wake(w)
    \/ \E w \in Worker : Stop(w)
    \/ \E w \in Worker : Start(w)

Spec == Init /\ [][Next]_vars

\* A worker that is up goes on in its loop: XREADGROUP returns entries when the
\* group has them, or raises.  Nobody has to start a worker.
Fairness ==
    \A w \in Worker :
        /\ WF_vars(Dispatch(w)) /\ WF_vars(Commit(w) \/ Fail(w))
        /\ WF_vars(phase[w] = "settled" /\ (Ack(w) \/ RedisError(w))) /\ WF_vars(Wake(w))
        /\ WF_vars(\E n \in 1..MaxEntries : Read(w, n))

FairSpec == Spec /\ Fairness

-----------------------------------------------------------------------------
Entries   == 1..Len(log)
HeldBy(w) == {held[w][k] : k \in DOMAIN held[w]}
Applied   == {applied[k] : k \in DOMAIN applied}

\* Entries a worker still has in memory and has not committed or rolled back.
InFlight == (UNION {HeldBy(w) : w \in Worker}) \ attempted

\* Entries whose fate is decided: handed out, and nobody will handle them
\* any more.
Settled == (1..delivered) \ InFlight

\* The stream, the group, the workers and the tables they write.
TypeOK ==
    /\ log \in Seq([type : Type, form : Form])
    /\ delivered \in 0..Len(log)
    /\ pending \subseteq 1..delivered
    /\ \A w \in Worker :
          /\ phase[w] \in {"reading", "holding", "dispatched", "settled", "sleeping", "down"}
          /\ HeldBy(w) \subseteq 1..delivered
          /\ held[w] = <<>> <=> phase[w] \in {"reading", "sleeping", "down"}
          /\ saw[w] \in [ok : BOOLEAN, row : BOOLEAN, value : Nat]
    /\ kpi \in [Code -> Nat]
    /\ rows \subseteq Code
    /\ Applied \subseteq attempted
    /\ attempted \subseteq 1..delivered
    /\ failed \subseteq 1..delivered
    /\ group \in BOOLEAN

\* No entry takes effect twice, whatever fails and however many workers there
\* are: an AP or AR record is never created twice from one entry.
AppliedOnce == Cardinality(Applied) = Len(applied)

\* One worker applies the entries in the order of the stream.
AppliedInOrder == \A i, j \in DOMAIN applied : i < j => applied[i] < applied[j]

\* An entry that was handed out and whose session never ended, because of a
\* crash or of an error of Redis, is still to be found in the pending list.
DroppedIsPending == \A i \in 1..delivered : i \notin attempted => i \in pending

\* An entry the handlers can read takes effect unless the database failed or a
\* second worker came first: nothing else is swallowed.
EffectUnlessFailed ==
    \A i \in attempted \ failed : Accepted(log[i]) => i \in Applied

\* A counting KPI never runs ahead of the entries applied: racing workers and
\* failures can only make it fall behind.
KpiNotAhead ==
    \A c \in Counts : kpi[c] <= Cardinality({i \in Applied : log[i].type = c})

\* With one worker the counting KPI is exact and the overwriting one shows the
\* latest entry applied.
KpiExact ==
    /\ \A c \in Counts : kpi[c] = Cardinality({i \in Applied : log[i].type = c})
    /\ \A c \in Gauges, i \in Applied : log[i].type = c => kpi[c] >= i

\* The consumer implements the delivery it can promise: every entry is settled
\* at most once, and applied at most when it is.
Delivery == INSTANCE EventDelivery
                WITH appended <- Len(log), settled <- Settled, applied <- Applied
DeliverySpec == Delivery!Spec

\* From some moment on the group exists and the worker is neither stopped nor
\* refused by Redis.
Steady(w) ==
    /\ <>[](group /\ phase[w] # "down")
    /\ <>[][~RedisError(w)]_vars

\* No failure makes the stream stand still: when one worker is left alone in the
\* end, every entry is settled, whatever went wrong before and goes wrong with
\* the other workers and the database.
EverySettled ==
    \A w \in Worker :
        Steady(w) => \A i \in 1..MaxEntries : (i <= Len(log)) ~> (i \in Settled)

\* event_consumer.py: the consumer group guarantees at-least-once delivery, so
\* an entry its handler can read takes effect in the end, at the latest when
\* nothing happens to a worker any more.
AtLeastOnce ==
    \A w \in Worker :
        Steady(w) => \A i \in 1..MaxEntries :
                         (i <= Len(log) /\ Accepted(log[i])) ~> (i \in Applied)

\* event_consumer.py: an approved purchase order leads to an AP record and a
\* confirmed sales order to an AR record, when nothing fails on the way.
RecordIsCreated ==
    \A i \in attempted \ failed : log[i].type \in Records => i \in Applied
=============================================================================
