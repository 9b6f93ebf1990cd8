-------------------------- MODULE EventConsumerProofs --------------------------
(***************************************************************************)
(* Theorems about module EventConsumer for any number of workers, any      *)
(* stream and any batch size: no entry is applied twice, one that is       *)
(* dropped stays pending, only failures swallow an effect, and the         *)
(* consumer implements EventDelivery. With a single worker entries are     *)
(* applied in the order of the stream and the KPI counts exactly the       *)
(* applied ones.                                                           *)
(*                                                                         *)
(* The argument: the batches in the hands of the workers are disjoint,     *)
(* each is increasing, and the only entry of a batch whose session has     *)
(* ended is the head of one that waits for its XACK. An entry that is      *)
(* about to be committed has therefore never been committed before.        *)
(***************************************************************************)
EXTENDS EventConsumer, FiniteSetTheorems, SequenceTheorems, TLAPS

(***************************************************************************)
(* Theorems about module EventConsumer for any number of workers, any      *)
(* stream and any batch size: no entry is applied twice, one that is       *)
(* dropped stays pending, only failures swallow an effect, and the         *)
(* consumer implements EventDelivery. With a single worker entries are     *)
(* applied in the order of the stream and the KPI counts exactly the       *)
(* applied ones.                                                           *)
(*                                                                         *)
(* The argument: the batches in the hands of the workers are disjoint,     *)
(* each is increasing, and the only entry of a batch whose session has     *)
(* ended is the head of one that waits for its XACK. An entry that is      *)
(* about to be committed has therefore never been committed before.        *)
(***************************************************************************)

Phases == {"reading", "holding", "dispatched", "settled", "sleeping", "down"}
Empty  == {"reading", "sleeping", "down"}

\* Kinds of the variables, in a form every step can use.
Kinds ==
    /\ log \in Seq([type : Type, form : Form])
    /\ delivered \in 0..Len(log)
    /\ phase \in [Worker -> Phases]
    /\ held \in [Worker -> Seq(Nat)]
    /\ saw \in [Worker -> [ok : BOOLEAN, row : BOOLEAN, value : Nat]]
    /\ kpi \in [Code -> Nat]
    /\ applied \in Seq(Nat)
    /\ attempted \subseteq 1..delivered
    /\ failed \subseteq 1..delivered

\* A worker has a batch exactly while it works on it, and its entries are
\* entries the group has been handed.
BatchesAreHandedOut ==
    \A w \in Worker :
        /\ held[w] = <<>> <=> phase[w] \in Empty
        /\ \A k \in 1..Len(held[w]) : held[w][k] \in 1..delivered

\* A batch is in the order of the stream, and no two workers share an entry.
BatchesAreApart ==
    /\ \A w \in Worker : \A i, j \in 1..Len(held[w]) : i < j => held[w][i] < held[w][j]
    /\ \A v, w \in Worker : v # w =>
          \A i \in 1..Len(held[v]), j \in 1..Len(held[w]) : held[v][i] # held[w][j]

\* The session of an entry in a batch has ended only for the head of a batch
\* that waits for its XACK.
OnlyHeadIsAttempted ==
    \A w \in Worker : \A k \in 1..Len(held[w]) :
        held[w][k] \in attempted <=> phase[w] = "settled" /\ k = 1

\* What is applied was attempted, and once.
AppliedApart ==
    /\ \A k \in 1..Len(applied) : applied[k] \in attempted
    /\ \A i, j \in 1..Len(applied) : i # j => applied[i] # applied[j]

\* A handler that read its entry and is not about to commit it has failed.
RefusedIsFailed ==
    \A w \in Worker : phase[w] = "dispatched" =>
        saw[w].ok \/ ~Accepted(log[InHand(w)]) \/ InHand(w) \in failed

IInv ==
    /\ Kinds
    /\ BatchesAreHandedOut
    /\ BatchesAreApart
    /\ OnlyHeadIsAttempted
    /\ AppliedApart
    /\ DroppedIsPending
    /\ RefusedIsFailed
    /\ EffectUnlessFailed

-----------------------------------------------------------------------------
(* Facts about the data                                                      *)

LEMMA OrderedInterval ==
    ASSUME NEW a \in Nat, NEW b \in Nat, a <= b
    PROVE  /\ InOrder(a..b) \in [1..(b - a + 1) -> a..b]
           /\ \A i, j \in 1..(b - a + 1) : i < j => InOrder(a..b)[i] < InOrder(a..b)[j]
  <1> DEFINE n == b - a + 1
             t == [i \in 1..n |-> a + i - 1]
  <1>1. Cardinality(a..b) = n
    BY FS_Interval
  <1>2. t \in [1..n -> a..b]
    OBVIOUS
  <1>3. \A i, j \in DOMAIN t : i < j => t[i] < t[j]
    OBVIOUS
  <1> HIDE DEF n, t
  <1>4. \E s \in [1..n -> a..b] : \A i, j \in DOMAIN s : i < j => s[i] < s[j]
    BY <1>2, <1>3
  <1>5. InOrder(a..b) = CHOOSE s \in [1..n -> a..b] : \A i, j \in DOMAIN s : i < j => s[i] < s[j]
    BY <1>1 DEF InOrder
  <1>6. /\ InOrder(a..b) \in [1..n -> a..b]
        /\ \A i, j \in DOMAIN InOrder(a..b) : i < j => InOrder(a..b)[i] < InOrder(a..b)[j]
    BY <1>4, <1>5
  <1>7. DOMAIN InOrder(a..b) = 1..n
    BY <1>6
  <1> QED BY <1>6, <1>7 DEF n

\* The batch a read hands out: entries nobody has had, in order.
LEMMA FreshBatch ==
    ASSUME Kinds, NEW n \in (delivered + 1)..Len(log)
    PROVE  LET b == InOrder(Fresh(n)) IN
           /\ b \in Seq(Nat) /\ b # <<>> /\ Len(b) = n - delivered
           /\ \A k \in 1..Len(b) : b[k] \in (delivered + 1)..n
           /\ \A i, j \in 1..Len(b) : i < j => b[i] < b[j]
  <1> DEFINE b == InOrder(Fresh(n))
             m == n - delivered
  <1>1. delivered \in Nat /\ Len(log) \in Nat
    BY LenProperties DEF Kinds
  <1>2. /\ b \in [1..m -> (delivered + 1)..n]
        /\ \A i, j \in 1..m : i < j => b[i] < b[j]
    <2>1. n - (delivered + 1) + 1 = m
      BY <1>1
    <2>2. delivered + 1 \in Nat /\ n \in Nat /\ delivered + 1 <= n
      BY <1>1
    <2>3. b = InOrder((delivered + 1)..n)
      BY DEF Fresh
    <2> HIDE DEF b, m
    <2>4. /\ InOrder((delivered + 1)..n) \in [1..(n - (delivered + 1) + 1) -> (delivered + 1)..n]
          /\ \A i, j \in 1..(n - (delivered + 1) + 1) : i < j =>
                InOrder((delivered + 1)..n)[i] < InOrder((delivered + 1)..n)[j]
      BY <2>2, OrderedInterval
    <2> QED BY <2>1, <2>3, <2>4
  <1> HIDE DEF b
  <1>3. m \in Nat /\ m > 0
    BY <1>1
  <1>4. b \in [1..m -> Nat]
    BY <1>1, <1>2
  <1>5. b \in Seq(Nat) /\ Len(b) = m
    BY <1>3, <1>4
  <1>6. b # <<>>
    BY <1>3, <1>5
  <1> QED BY <1>2, <1>5, <1>6 DEF b

\* What a worker is left with after the head of its batch.
LEMMA Rest ==
    ASSUME NEW b \in Seq(Nat), b # <<>>
    PROVE  /\ Len(b) \in Nat /\ Len(b) >= 1 /\ Head(b) = b[1]
           /\ Tail(b) \in Seq(Nat) /\ Len(Tail(b)) = Len(b) - 1
           /\ \A k \in 1..Len(Tail(b)) : k + 1 \in 1..Len(b) /\ Tail(b)[k] = b[k + 1]
           /\ Tail(b) = <<>> <=> Len(b) = 1
  <1>1. Len(b) \in Nat \ {0}
    BY EmptySeq
  <1>2. /\ Tail(b) \in Seq(Nat) /\ Len(Tail(b)) = Len(b) - 1
        /\ \A k \in 1..Len(Tail(b)) : Tail(b)[k] = b[k + 1]
    BY HeadTailProperties
  <1>3. Head(b) = b[1]
    OBVIOUS
  <1>4. Tail(b) = <<>> <=> Len(b) = 1
    <2>1. Tail(b) = <<>> => Len(Tail(b)) = 0
      BY EmptySeq
    <2>2. Tail(b) # <<>> => Len(Tail(b)) \in Nat \ {0}
      BY <1>2, EmptySeq
    <2> QED BY SMTT(30), <1>1, <1>2, <2>1, <2>2
  <1>5. \A k \in 1..Len(Tail(b)) : k + 1 \in 1..Len(b)
    BY <1>1, <1>2
  <1> QED BY <1>1, <1>2, <1>3, <1>4, <1>5

-----------------------------------------------------------------------------
(* The invariant                                                             *)

LEMMA InitHolds == Init => IInv
  <1> SUFFICES ASSUME Init PROVE IInv
    OBVIOUS
  <1>1. log = <<>> /\ Len(log) = 0 /\ applied = <<>> /\ Len(applied) = 0
    BY EmptySeq DEF Init
  <1>2. \A w \in Worker : held[w] = <<>> /\ Len(held[w]) = 0 /\ phase[w] = "down"
    BY EmptySeq DEF Init
  <1>3. Kinds
    BY <1>1, <1>2 DEF Init, Kinds, Phases, Idle
  <1>4. BatchesAreHandedOut /\ BatchesAreApart /\ OnlyHeadIsAttempted
    BY <1>2 DEF BatchesAreHandedOut, BatchesAreApart, OnlyHeadIsAttempted, Empty
  <1>5. AppliedApart
    BY <1>1 DEF AppliedApart
  <1>6. DroppedIsPending /\ RefusedIsFailed /\ EffectUnlessFailed
    BY <1>2 DEF Init, DroppedIsPending, RefusedIsFailed, EffectUnlessFailed
  <1> QED BY <1>3, <1>4, <1>5, <1>6 DEF IInv

LEMMA PublishKeeps ==
    ASSUME IInv, NEW type \in Type, NEW form \in Form, Publish(type, form)
    PROVE  IInv'
  <1> DEFINE e == [type |-> type, form |-> form]
  <1>1. /\ log' = Append(log, e) /\ delivered' = delivered /\ pending' = pending
        /\ phase' = phase /\ held' = held /\ saw' = saw /\ kpi' = kpi /\ applied' = applied
        /\ attempted' = attempted /\ failed' = failed
    BY DEF Publish, worker, database
  <1>2. Kinds /\ delivered \in Nat /\ Len(log) \in Nat
    BY LenProperties DEF IInv, Kinds
  <1>3. /\ log' \in Seq([type : Type, form : Form]) /\ Len(log') = Len(log) + 1
        /\ \A i \in 1..delivered : log'[i] = log[i]
    <2>1. e \in [type : Type, form : Form]
      OBVIOUS
    <2> QED BY <1>1, <1>2, <2>1, AppendProperties DEF Kinds
  <1>4. Kinds'
    BY <1>1, <1>2, <1>3 DEF Kinds
  <1>5. (BatchesAreHandedOut /\ BatchesAreApart /\ OnlyHeadIsAttempted /\ AppliedApart /\ DroppedIsPending)'
    BY <1>1 DEF IInv, BatchesAreHandedOut, BatchesAreApart, OnlyHeadIsAttempted, AppliedApart, DroppedIsPending
  <1>6. RefusedIsFailed'
    <2> SUFFICES ASSUME NEW w \in Worker, phase[w] = "dispatched"
                 PROVE  saw[w].ok \/ ~Accepted(log'[Head(held[w])]) \/ Head(held[w]) \in failed
      BY <1>1 DEF RefusedIsFailed, InHand
    <2>1. held[w] # <<>>
      BY DEF IInv, BatchesAreHandedOut, Empty
    <2>2. Head(held[w]) \in 1..delivered
      BY <1>2, <2>1, Rest DEF IInv, Kinds, BatchesAreHandedOut
    <2> QED BY <1>3, <2>2 DEF IInv, RefusedIsFailed, InHand
  <1>7. EffectUnlessFailed'
    <2>1. \A i \in attempted : log'[i] = log[i]
      BY <1>2, <1>3 DEF Kinds
    <2>2. Applied' = Applied
      BY <1>1 DEF Applied
    <2> QED BY <1>1, <2>1, <2>2 DEF IInv, EffectUnlessFailed
  <1> QED BY <1>4, <1>5, <1>6, <1>7 DEF IInv

LEMMA AbandonKeeps ==
    ASSUME IInv, NEW w \in Worker, NEW next \in Empty, Abandon(w, next)
    PROVE  IInv'
  <1>1. /\ held' = [held EXCEPT ![w] = <<>>] /\ phase' = [phase EXCEPT ![w] = next]
        /\ saw' = [saw EXCEPT ![w] = Idle]
        /\ log' = log /\ delivered' = delivered /\ pending' = pending /\ kpi' = kpi
        /\ applied' = applied /\ attempted' = attempted /\ failed' = failed
    BY DEF Abandon, stream, database
  <1>2. Kinds
    BY DEF IInv
  <1>3. <<>> \in Seq(Nat) /\ Len(<<>>) = 0
    BY EmptySeq
  <1>4. /\ held'[w] = <<>> /\ Len(held'[w]) = 0 /\ phase'[w] = next
        /\ \A v \in Worker : v # w => held'[v] = held[v] /\ phase'[v] = phase[v] /\ saw'[v] = saw[v]
    BY <1>1, <1>2, <1>3 DEF Kinds
  <1>5. Kinds'
    <2>1. saw' \in [Worker -> [ok : BOOLEAN, row : BOOLEAN, value : Nat]]
      BY <1>1, <1>2 DEF Kinds, Idle
    <2>2. phase' \in [Worker -> Phases] /\ held' \in [Worker -> Seq(Nat)]
      BY <1>1, <1>2, <1>3 DEF Kinds, Phases, Empty
    <2> QED BY <1>1, <1>2, <2>1, <2>2 DEF Kinds
  <1>6. BatchesAreHandedOut'
    BY <1>1, <1>4 DEF IInv, BatchesAreHandedOut
  <1>7. BatchesAreApart'
    BY <1>4 DEF IInv, BatchesAreApart
  <1>8. OnlyHeadIsAttempted'
    BY <1>1, <1>4 DEF IInv, OnlyHeadIsAttempted
  <1>9. AppliedApart' /\ DroppedIsPending' /\ EffectUnlessFailed'
    BY <1>1 DEF IInv, AppliedApart, DroppedIsPending, EffectUnlessFailed, Applied
  <1>10. RefusedIsFailed'
    BY <1>1, <1>4 DEF IInv, RefusedIsFailed, InHand, Empty
  <1> QED BY <1>5, <1>6, <1>7, <1>8, <1>9, <1>10 DEF IInv

LEMMA ReadKeeps ==
    ASSUME IInv, NEW w \in Worker, NEW n \in 1..MaxEntries, Read(w, n)
    PROVE  IInv'
  <1> DEFINE b == InOrder(Fresh(n))
  <1>1. /\ phase[w] = "reading" /\ n \in (delivered + 1)..Len(log)
        /\ delivered' = n /\ pending' = pending \union Fresh(n)
        /\ log' = log /\ saw' = saw /\ kpi' = kpi
        /\ applied' = applied /\ attempted' = attempted /\ failed' = failed
    BY DEF Read, database
  <1>2. \/ phase' = [phase EXCEPT ![w] = "holding"] /\ held' = [held EXCEPT ![w] = b]
        \/ phase' = [phase EXCEPT ![w] = "sleeping"] /\ held' = held
    BY DEF Read
  <1>3. Kinds /\ delivered \in Nat /\ Len(log) \in Nat /\ n \in Nat /\ delivered < n
    BY <1>1, LenProperties DEF IInv, Kinds
  <1>4. /\ b \in Seq(Nat) /\ b # <<>> /\ Len(b) = n - delivered
        /\ \A k \in 1..Len(b) : b[k] \in (delivered + 1)..n
        /\ \A i, j \in 1..Len(b) : i < j => b[i] < b[j]
    BY <1>1, <1>3, FreshBatch
  <1> HIDE DEF b
  <1>5. held[w] = <<>> /\ Len(held[w]) = 0
    BY <1>1, EmptySeq DEF IInv, BatchesAreHandedOut, Empty
  <1>6. /\ \A v \in Worker : v # w => held'[v] = held[v] /\ phase'[v] = phase[v]
        /\ \/ phase'[w] = "holding" /\ held'[w] = b
           \/ phase'[w] = "sleeping" /\ held'[w] = <<>>
    BY <1>2, <1>3, <1>5 DEF Kinds
  <1>7. Kinds'
    <2>1. phase' \in [Worker -> Phases] /\ held' \in [Worker -> Seq(Nat)]
      BY <1>2, <1>3, <1>4 DEF Kinds, Phases
    <2>2. attempted' \subseteq 1..delivered' /\ failed' \subseteq 1..delivered'
      BY <1>1, <1>3 DEF Kinds
    <2>3. delivered' \in 0..Len(log')
      BY <1>1, <1>3
    <2> QED BY <1>1, <1>3, <2>1, <2>2, <2>3 DEF Kinds
  <1>8. BatchesAreHandedOut'
    <2> SUFFICES ASSUME NEW v \in Worker
                 PROVE  /\ held'[v] = <<>> <=> phase'[v] \in Empty
                        /\ \A k \in 1..Len(held'[v]) : held'[v][k] \in 1..n
      BY <1>1 DEF BatchesAreHandedOut
    <2>1. CASE v # w
      <3>1. \A k \in 1..Len(held[v]) : held[v][k] \in 1..delivered
        BY DEF IInv, BatchesAreHandedOut
      <3>2. held[v] = <<>> <=> phase[v] \in Empty
        BY DEF IInv, BatchesAreHandedOut
      <3>3. 1..delivered \subseteq 1..n
        BY <1>3
      <3> QED BY <1>6, <2>1, <3>1, <3>2, <3>3
    <2>2. CASE v = w /\ held'[w] = b /\ phase'[w] = "holding"
      <3>1. \A k \in 1..Len(b) : b[k] \in 1..n
        BY <1>3, <1>4
      <3> QED BY <1>4, <2>2, <3>1 DEF Empty
    <2>3. CASE v = w /\ held'[w] = <<>> /\ phase'[w] = "sleeping"
      BY <2>3, EmptySeq DEF Empty
    <2> QED BY <1>6, <2>1, <2>2, <2>3
  <1>9. \A v \in Worker : v # w => \A i \in 1..Len(held[v]), j \in 1..Len(b) : held[v][i] # b[j]
    <2>1. \A v \in Worker : \A i \in 1..Len(held[v]) : held[v][i] \in 1..delivered
      BY DEF IInv, BatchesAreHandedOut
    <2> QED BY SMTT(30), <1>3, <1>4, <2>1
  <1>10. BatchesAreApart'
    <2>1. \A v \in Worker : \A i, j \in 1..Len(held'[v]) : i < j => held'[v][i] < held'[v][j]
      <3> SUFFICES ASSUME NEW v \in Worker
                   PROVE  \A i, j \in 1..Len(held'[v]) : i < j => held'[v][i] < held'[v][j]
        OBVIOUS
      <3>1. CASE held'[v] = held[v]
        BY <3>1 DEF IInv, BatchesAreApart
      <3>2. CASE held'[v] = b
        BY <1>4, <3>2
      <3> QED BY <1>5, <1>6, <3>1, <3>2
    <2>2. ASSUME NEW u \in Worker, NEW v \in Worker, u # v,
                 NEW i \in 1..Len(held'[u]), NEW j \in 1..Len(held'[v])
          PROVE  held'[u][i] # held'[v][j]
      <3>1. CASE held'[u] = held[u] /\ held'[v] = held[v]
        BY <2>2, <3>1 DEF IInv, BatchesAreApart
      <3>2. CASE u = w /\ held'[u] = b /\ held'[v] = held[v]
        BY <1>9, <2>2, <3>2
      <3>3. CASE v = w /\ held'[v] = b /\ held'[u] = held[u]
        BY <1>9, <2>2, <3>3
      <3> QED BY <1>5, <1>6, <2>2, <3>1, <3>2, <3>3
    <2> QED BY <2>1, <2>2 DEF BatchesAreApart
  <1>11. OnlyHeadIsAttempted'
    <2> SUFFICES ASSUME NEW v \in Worker, NEW k \in 1..Len(held'[v])
                 PROVE  held'[v][k] \in attempted <=> phase'[v] = "settled" /\ k = 1
      BY <1>1 DEF OnlyHeadIsAttempted
    <2>1. CASE v # w
      BY <1>6, <2>1 DEF IInv, OnlyHeadIsAttempted
    <2>2. CASE v = w /\ held'[w] = b /\ phase'[w] = "holding"
      BY SMTT(30), <1>3, <1>4, <2>2 DEF Kinds
    <2>3. CASE v = w /\ held'[w] = <<>>
      BY <1>5, <2>3
    <2> QED BY <1>6, <2>1, <2>2, <2>3
  <1>12. AppliedApart' /\ EffectUnlessFailed'
    BY <1>1 DEF IInv, AppliedApart, EffectUnlessFailed, Applied
  <1>13. DroppedIsPending'
    <2>1. \A i \in 1..n : i \in 1..delivered \/ i \in Fresh(n)
      BY <1>3 DEF Fresh
    <2> QED BY <1>1, <2>1 DEF IInv, DroppedIsPending
  <1>14. RefusedIsFailed'
    BY <1>1, <1>6 DEF IInv, RefusedIsFailed, InHand
  <1> QED BY <1>7, <1>8, <1>10, <1>11, <1>12, <1>13, <1>14 DEF IInv

LEMMA DispatchKeeps ==
    ASSUME IInv, NEW w \in Worker, Dispatch(w)
    PROVE  IInv'
  <1> DEFINE e == log[InHand(w)]
  <1>1. /\ phase[w] = "holding" /\ phase' = [phase EXCEPT ![w] = "dispatched"]
        /\ held' = held /\ kpi' = kpi /\ applied' = applied /\ attempted' = attempted
        /\ log' = log /\ delivered' = delivered /\ pending' = pending
    BY DEF Dispatch, stream
  <1>2. Kinds /\ delivered \in Nat /\ Len(log) \in Nat
    BY LenProperties DEF IInv, Kinds
  <1>3. held[w] # <<>>
    BY <1>1 DEF IInv, BatchesAreHandedOut, Empty
  <1>4. InHand(w) \in 1..delivered /\ InHand(w) \in 1..Len(log) /\ InHand(w) \in Nat
    BY <1>2, <1>3, Rest DEF IInv, Kinds, BatchesAreHandedOut, InHand
  <1>5. /\ saw' \in [Worker -> [ok : BOOLEAN, row : BOOLEAN, value : Nat]]
        /\ \A v \in Worker : v # w => saw'[v] = saw[v]
        /\ failed \subseteq failed' /\ failed' \subseteq failed \union {InHand(w)}
        /\ saw'[w].ok \/ ~Accepted(e) \/ InHand(w) \in failed'
    <2>1. PICK ok \in BOOLEAN :
             /\ saw' = [saw EXCEPT ![w] =
                   [ok    |-> ok,
                    row   |-> e.type \in rows,
                    value |-> CASE ok /\ e.type \in Counts -> (IF e.type \in Code THEN kpi[e.type] ELSE 0) + 1
                                [] ok /\ e.type \in Gauges -> InHand(w)
                                [] OTHER                   -> 0]]
             /\ failed' = IF ok \/ ~Accepted(e) THEN failed ELSE failed \union {InHand(w)}
      BY DEF Dispatch
    <2> DEFINE before == IF e.type \in Code THEN kpi[e.type] ELSE 0
               value == CASE ok /\ e.type \in Counts -> before + 1
                          [] ok /\ e.type \in Gauges -> InHand(w)
                          [] OTHER                   -> 0
    <2>2. before \in Nat
      BY <1>2 DEF Kinds
    <2>3. value \in Nat
      <3> HIDE DEF before
      <3> QED BY <1>4, <2>2
    <2>4. saw' = [saw EXCEPT ![w] = [ok |-> ok, row |-> e.type \in rows, value |-> value]]
      BY <2>1
    <2> HIDE DEF value, before
    <2>5. (e.type \in rows) \in BOOLEAN
      OBVIOUS
    <2>6. [ok |-> ok, row |-> e.type \in rows, value |-> value] \in [ok : BOOLEAN, row : BOOLEAN, value : Nat]
      BY <2>3, <2>5
    <2>7. saw' \in [Worker -> [ok : BOOLEAN, row : BOOLEAN, value : Nat]]
      BY <1>2, <2>4, <2>6 DEF Kinds
    <2>8. saw'[w].ok = ok /\ \A v \in Worker : v # w => saw'[v] = saw[v]
      BY <1>2, <2>4 DEF Kinds
    <2> QED BY <2>1, <2>7, <2>8
  <1>6. \A v \in Worker : phase'[v] = IF v = w THEN "dispatched" ELSE phase[v]
    BY <1>1, <1>2 DEF Kinds
  <1>7. Kinds'
    <2>1. phase' \in [Worker -> Phases]
      BY <1>1, <1>2 DEF Kinds, Phases
    <2>2. failed' \subseteq 1..delivered
      BY <1>2, <1>4, <1>5 DEF Kinds
    <2> QED BY <1>1, <1>2, <1>5, <2>1, <2>2 DEF Kinds
  <1>8. BatchesAreHandedOut' /\ BatchesAreApart'
    BY <1>1, <1>6 DEF IInv, BatchesAreHandedOut, BatchesAreApart, Empty
  <1>9. OnlyHeadIsAttempted'
    BY <1>1, <1>6 DEF IInv, OnlyHeadIsAttempted
  <1>10. AppliedApart' /\ DroppedIsPending'
    BY <1>1 DEF IInv, AppliedApart, DroppedIsPending
  <1>11. EffectUnlessFailed'
    BY <1>1, <1>5 DEF IInv, EffectUnlessFailed, Applied
  <1>12. RefusedIsFailed'
    BY <1>1, <1>5, <1>6 DEF IInv, RefusedIsFailed, InHand
  <1> QED BY <1>7, <1>8, <1>9, <1>10, <1>11, <1>12 DEF IInv

\* What Commit and Fail have in common: the session of the entry in hand ends.
LEMMA AttemptKeeps ==
    ASSUME IInv, NEW w \in Worker, phase[w] = "dispatched",
           phase' = [phase EXCEPT ![w] = "settled"],
           attempted' = attempted \union {InHand(w)},
           held' = held, saw' = saw, UNCHANGED stream,
           kpi' \in [Code -> Nat],
           failed \subseteq failed', failed' \subseteq failed \union {InHand(w)},
           \/ applied' = Append(applied, InHand(w))
           \/ applied' = applied /\ (~saw[w].ok \/ InHand(w) \in failed')
    PROVE  IInv'
  <1> DEFINE h == InHand(w)
  <1>1. log' = log /\ delivered' = delivered /\ pending' = pending
    BY DEF stream
  <1>2. Kinds /\ delivered \in Nat /\ Len(log) \in Nat /\ Len(applied) \in Nat
    BY LenProperties DEF IInv, Kinds
  <1>3. held[w] # <<>>
    BY DEF IInv, BatchesAreHandedOut, Empty
  <1>4. Len(held[w]) \in Nat /\ 1 \in 1..Len(held[w]) /\ h = held[w][1] /\ h \in 1..delivered /\ h \in Nat
    <2>1. held[w] \in Seq(Nat)
      BY <1>2 DEF Kinds
    <2>2. Len(held[w]) \in Nat /\ Len(held[w]) >= 1 /\ Head(held[w]) = held[w][1]
      BY <1>3, <2>1, Rest
    <2>3. 1 \in 1..Len(held[w])
      BY <2>2
    <2>4. held[w][1] \in 1..delivered
      BY <2>3 DEF IInv, BatchesAreHandedOut
    <2> QED BY <1>2, <2>2, <2>3, <2>4 DEF InHand
  <1>5. h \notin attempted
    BY <1>4 DEF IInv, OnlyHeadIsAttempted
  <1>6. \A v \in Worker : phase'[v] = IF v = w THEN "settled" ELSE phase[v]
    BY <1>2 DEF Kinds
  <1> HIDE DEF h
  <1>7. /\ attempted' = attempted \union {h}
        /\ \/ applied' = Append(applied, h)
           \/ applied' = applied /\ (~saw[w].ok \/ h \in failed')
        /\ failed' \subseteq failed \union {h}
    BY DEF h
  <1>8. /\ applied' \in Seq(Nat)
        /\ \/ applied' = applied
           \/ /\ Len(applied') = Len(applied) + 1 /\ applied'[Len(applied) + 1] = h
              /\ \A i \in 1..Len(applied) : applied'[i] = applied[i]
    <2>1. applied \in Seq(Nat) /\ h \in Nat
      BY <1>2, <1>4 DEF Kinds
    <2>2. /\ Append(applied, h) \in Seq(Nat) /\ Len(Append(applied, h)) = Len(applied) + 1
          /\ \A i \in 1..Len(applied) : Append(applied, h)[i] = applied[i]
          /\ Append(applied, h)[Len(applied) + 1] = h
      BY <2>1, AppendProperties
    <2> QED BY <1>7, <2>1, <2>2
  <1>9. Kinds'
    <2>1. phase' \in [Worker -> Phases]
      BY <1>2 DEF Kinds, Phases
    <2>2. attempted' \subseteq 1..delivered /\ failed' \subseteq 1..delivered
      BY <1>2, <1>4, <1>7 DEF Kinds
    <2> QED BY <1>1, <1>2, <1>8, <2>1, <2>2 DEF Kinds
  <1>10. BatchesAreHandedOut' /\ BatchesAreApart'
    BY <1>1, <1>6 DEF IInv, BatchesAreHandedOut, BatchesAreApart, Empty
  <1>11. OnlyHeadIsAttempted'
    <2> SUFFICES ASSUME NEW v \in Worker, NEW k \in 1..Len(held[v])
                 PROVE  held[v][k] \in attempted' <=> phase'[v] = "settled" /\ k = 1
      BY DEF OnlyHeadIsAttempted
    <2>1. held[v][k] \in attempted <=> phase[v] = "settled" /\ k = 1
      BY DEF IInv, OnlyHeadIsAttempted
    <2>2. CASE v # w
      <3>1. held[v][k] # h
        BY <1>4, <2>2 DEF IInv, BatchesAreApart
      <3> QED BY <1>6, <1>7, <2>1, <2>2, <3>1
    <2>3. CASE v = w /\ k # 1
      <3>1. 1 < k /\ held[w][1] < held[w][k] /\ k \in 1..Len(held[w])
        BY <1>4, <2>3 DEF IInv, BatchesAreApart
      <3>2. held[w][k] \in Nat
        BY SMTT(30), <1>2, <3>1 DEF IInv, Kinds, BatchesAreHandedOut
      <3>3. held[w][k] # h
        BY <1>4, <3>1, <3>2
      <3> QED BY <1>6, <1>7, <2>1, <2>3, <3>3
    <2>4. CASE v = w /\ k = 1
      BY <1>4, <1>6, <1>7, <2>4
    <2> QED BY <2>2, <2>3, <2>4
  <1>12. AppliedApart'
    <2>1. \A k \in 1..Len(applied) : applied[k] \in attempted /\ applied[k] # h
      BY <1>5 DEF IInv, AppliedApart
    <2>2. CASE applied' = applied
      BY <1>7, <2>2 DEF IInv, AppliedApart
    <2>3. CASE /\ Len(applied') = Len(applied) + 1 /\ applied'[Len(applied) + 1] = h
               /\ \A i \in 1..Len(applied) : applied'[i] = applied[i]
      <3>1. \A k \in 1..Len(applied') : k \in 1..Len(applied) \/ k = Len(applied) + 1
        BY <1>2, <2>3
      <3>2. \A k \in 1..Len(applied') : applied'[k] \in attempted'
        BY <1>7, <2>1, <2>3, <3>1
      <3>3. \A i, j \in 1..Len(applied') : i # j => applied'[i] # applied'[j]
        BY <2>1, <2>3, <3>1 DEF IInv, AppliedApart
      <3> QED BY <3>2, <3>3 DEF AppliedApart
    <2> QED BY <1>8, <2>2, <2>3
  <1>13. DroppedIsPending'
    BY <1>1, <1>7 DEF IInv, DroppedIsPending
  <1>14. RefusedIsFailed'
    BY <1>1, <1>6 DEF IInv, RefusedIsFailed, InHand
  <1>15. EffectUnlessFailed'
    <2>1. Applied \subseteq Applied' /\ (applied' # applied => h \in Applied')
      <3>1. DOMAIN applied = 1..Len(applied) /\ DOMAIN applied' = 1..Len(applied')
        BY <1>2, <1>8, LenProperties DEF Kinds
      <3>2. CASE applied' = applied
        BY <3>2 DEF Applied
      <3>3. CASE /\ Len(applied') = Len(applied) + 1 /\ applied'[Len(applied) + 1] = h
                 /\ \A i \in 1..Len(applied) : applied'[i] = applied[i]
        <4>1. 1..Len(applied) \subseteq 1..Len(applied') /\ Len(applied) + 1 \in 1..Len(applied')
          BY <1>2, <3>3
        <4> QED BY <3>1, <3>3, <4>1 DEF Applied
      <3> QED BY <1>8, <3>2, <3>3
    <2> SUFFICES ASSUME NEW i \in attempted' \ failed', Accepted(log[i])
                 PROVE  i \in Applied'
      BY <1>1 DEF EffectUnlessFailed, Accepted
    <2>2. CASE i \in attempted
      BY <2>1, <2>2 DEF IInv, EffectUnlessFailed
    <2>3. CASE i = h
      <3>1. saw[w].ok \/ h \in failed
        BY <2>3 DEF IInv, RefusedIsFailed, h
      <3>2. applied' = Append(applied, h)
        BY <1>7, <2>3, <3>1
      <3>3. applied' # applied
        BY <1>2, <1>4, <3>2, AppendProperties DEF Kinds
      <3> QED BY <2>1, <2>3, <3>3
    <2> QED BY <1>7, <2>2, <2>3
  <1> QED BY <1>9, <1>10, <1>11, <1>12, <1>13, <1>14, <1>15 DEF IInv

LEMMA CommitKeeps ==
    ASSUME IInv, NEW w \in Worker, Commit(w)
    PROVE  IInv'
  <1>1. /\ phase[w] = "dispatched" /\ phase' = [phase EXCEPT ![w] = "settled"]
        /\ attempted' = attempted \union {InHand(w)} /\ held' = held /\ saw' = saw
        /\ failed' = failed /\ applied' = applied \o Kept(w)
        /\ kpi' = [c \in Code |-> IF Writes(w) /\ c = CodeOf(w) THEN saw[w].value ELSE kpi[c]]
        /\ UNCHANGED stream
    BY DEF Commit
  <1>2. Kinds
    BY DEF IInv
  <1>3. saw[w].value \in Nat
    BY <1>2 DEF Kinds
  <1>4. kpi' \in [Code -> Nat]
    BY <1>1, <1>2, <1>3 DEF Kinds
  <1>5. InHand(w) \in Nat
    BY <1>1, <1>2, Rest DEF IInv, Kinds, BatchesAreHandedOut, InHand, Empty
  <1>6. CASE saw[w].ok
    <2>1. applied' = Append(applied, InHand(w))
      BY <1>1, <1>2, <1>5, <1>6, AppendIsConcat DEF Kept, Kinds
    <2> QED BY <1>1, <1>4, <2>1, AttemptKeeps
  <1>7. CASE ~saw[w].ok
    <2>1. applied' = applied
      BY <1>1, <1>2, <1>7, ConcatEmptySeq DEF Kept, Kinds
    <2> QED BY <1>1, <1>4, <1>7, <2>1, AttemptKeeps
  <1> QED BY <1>6, <1>7

LEMMA FailKeeps ==
    ASSUME IInv, NEW w \in Worker, Fail(w)
    PROVE  IInv'
  <1>1. /\ phase[w] = "dispatched" /\ phase' = [phase EXCEPT ![w] = "settled"]
        /\ attempted' = attempted \union {InHand(w)} /\ held' = held /\ saw' = saw
        /\ failed' = failed \union {InHand(w)} /\ applied' = applied /\ kpi' = kpi
        /\ UNCHANGED stream
    BY DEF Fail
  <1>2. kpi' \in [Code -> Nat]
    BY <1>1 DEF IInv, Kinds
  <1> QED BY <1>1, <1>2, AttemptKeeps

LEMMA AckKeeps ==
    ASSUME IInv, NEW w \in Worker, Ack(w)
    PROVE  IInv'
  <1> DEFINE t == Tail(held[w])
  <1>1. /\ phase[w] = "settled" /\ pending' = pending \ {InHand(w)}
        /\ \/ held' = [held EXCEPT ![w] = t] /\ phase' = [phase EXCEPT ![w] = AfterAck(w)]
           \/ held' = [held EXCEPT ![w] = <<>>] /\ phase' = [phase EXCEPT ![w] = "sleeping"]
        /\ saw' = [saw EXCEPT ![w] = Idle]
        /\ log' = log /\ delivered' = delivered /\ kpi' = kpi
        /\ applied' = applied /\ attempted' = attempted /\ failed' = failed
    BY DEF Ack, Acked, database
  <1>2. Kinds
    BY DEF IInv
  <1>3. held[w] # <<>>
    BY <1>1 DEF IInv, BatchesAreHandedOut, Empty
  <1>4. /\ Len(held[w]) \in Nat /\ 1 \in 1..Len(held[w]) /\ InHand(w) = held[w][1]
        /\ t \in Seq(Nat) /\ Len(t) \in Nat
        /\ \A k \in 1..Len(t) : k + 1 \in 1..Len(held[w]) /\ t[k] = held[w][k + 1]
        /\ t = <<>> <=> Len(held[w]) = 1
    <2>1. held[w] \in Seq(Nat)
      BY <1>2 DEF Kinds
    <2>2. /\ Len(held[w]) \in Nat /\ Len(held[w]) >= 1 /\ Head(held[w]) = held[w][1]
          /\ t \in Seq(Nat) /\ Len(t) = Len(held[w]) - 1
          /\ \A k \in 1..Len(t) : k + 1 \in 1..Len(held[w]) /\ t[k] = held[w][k + 1]
          /\ t = <<>> <=> Len(held[w]) = 1
      BY <1>3, <2>1, Rest
    <2> HIDE DEF t
    <2> QED BY <2>2 DEF InHand
  <1>5. <<>> \in Seq(Nat) /\ Len(<<>>) = 0
    BY EmptySeq
  <1> HIDE DEF t
  <1>6. /\ \A v \in Worker : v # w => held'[v] = held[v] /\ phase'[v] = phase[v] /\ saw'[v] = saw[v]
        /\ \/ held'[w] = t /\ phase'[w] = AfterAck(w)
           \/ held'[w] = <<>> /\ phase'[w] = "sleeping"
    BY <1>1, <1>2 DEF Kinds
  <1>7. Kinds'
    <2>1. saw' \in [Worker -> [ok : BOOLEAN, row : BOOLEAN, value : Nat]]
      BY <1>1, <1>2 DEF Kinds, Idle
    <2>2. held' \in [Worker -> Seq(Nat)]
      BY <1>1, <1>2, <1>4, <1>5 DEF Kinds
    <2>3. phase' \in [Worker -> Phases]
      BY <1>1, <1>2 DEF Kinds, Phases, AfterAck
    <2> QED BY <1>1, <1>2, <2>1, <2>2, <2>3 DEF Kinds
  <1>8. BatchesAreHandedOut'
    <2>1. \A k \in 1..Len(t) : t[k] \in 1..delivered
      BY <1>4 DEF IInv, BatchesAreHandedOut
    <2>2. t = <<>> <=> AfterAck(w) \in Empty
      BY <1>4 DEF AfterAck, Empty
    <2>3. /\ held'[w] = <<>> <=> phase'[w] \in Empty
          /\ \A k \in 1..Len(held'[w]) : held'[w][k] \in 1..delivered
      BY <1>5, <1>6, <2>1, <2>2 DEF Empty
    <2> QED BY <1>1, <1>6, <2>3 DEF IInv, BatchesAreHandedOut
  <1>9. \A k \in 1..Len(held'[w]) : k + 1 \in 1..Len(held[w]) /\ held'[w][k] = held[w][k + 1]
    BY <1>4, <1>5, <1>6
  <1>10. BatchesAreApart'
    <2>1. \A i, j \in 1..Len(held'[w]) : i < j => held'[w][i] < held'[w][j]
      BY <1>9 DEF IInv, BatchesAreApart
    <2>2. \A v \in Worker : v # w =>
             \A i \in 1..Len(held[v]), j \in 1..Len(held'[w]) : held[v][i] # held'[w][j]
      BY <1>9 DEF IInv, BatchesAreApart
    <2>3. \A v \in Worker : \A i, j \in 1..Len(held'[v]) : i < j => held'[v][i] < held'[v][j]
      BY <1>6, <2>1 DEF IInv, BatchesAreApart
    <2>4. ASSUME NEW u \in Worker, NEW v \in Worker, u # v,
                 NEW i \in 1..Len(held'[u]), NEW j \in 1..Len(held'[v])
          PROVE  held'[u][i] # held'[v][j]
      <3>1. CASE u = w
        BY <1>6, <2>2, <2>4, <3>1
      <3>2. CASE v = w
        BY <1>6, <2>2, <2>4, <3>2
      <3>3. CASE u # w /\ v # w
        BY <1>6, <2>4, <3>3 DEF IInv, BatchesAreApart
      <3> QED BY <3>1, <3>2, <3>3
    <2> QED BY <2>3, <2>4 DEF BatchesAreApart
  <1>11. OnlyHeadIsAttempted'
    <2>1. \A k \in 1..Len(held'[w]) : held'[w][k] \notin attempted /\ phase'[w] # "settled"
      <3>1. \A k \in 1..Len(held'[w]) : k + 1 # 1
        OBVIOUS
      <3>2. phase'[w] # "settled"
        BY <1>6 DEF AfterAck
      <3> QED BY <1>9, <3>1, <3>2 DEF IInv, OnlyHeadIsAttempted
    <2> QED BY <1>1, <1>6, <2>1 DEF IInv, OnlyHeadIsAttempted
  <1>12. DroppedIsPending'
    <2>1. InHand(w) \in attempted
      BY <1>1, <1>4 DEF IInv, OnlyHeadIsAttempted
    <2> QED BY <1>1, <2>1 DEF IInv, DroppedIsPending
  <1>13. AppliedApart' /\ EffectUnlessFailed'
    BY <1>1 DEF IInv, AppliedApart, EffectUnlessFailed, Applied
  <1>14. RefusedIsFailed'
    BY <1>1, <1>6 DEF IInv, RefusedIsFailed, InHand, AfterAck
  <1> QED BY <1>7, <1>8, <1>10, <1>11, <1>12, <1>13, <1>14 DEF IInv

LEMMA StutterKeeps == IInv /\ UNCHANGED vars => IInv'
  <1> SUFFICES ASSUME IInv, UNCHANGED vars PROVE IInv'
    OBVIOUS
  <1>1. /\ log' = log /\ delivered' = delivered /\ pending' = pending
        /\ phase' = phase /\ held' = held /\ saw' = saw /\ kpi' = kpi
        /\ applied' = applied /\ attempted' = attempted /\ failed' = failed
    BY DEF vars, stream, worker, database
  <1>2. (Kinds /\ BatchesAreHandedOut /\ BatchesAreApart /\ OnlyHeadIsAttempted)'
    BY <1>1 DEF IInv, Kinds, BatchesAreHandedOut, BatchesAreApart, OnlyHeadIsAttempted
  <1>3. (AppliedApart /\ DroppedIsPending /\ RefusedIsFailed /\ EffectUnlessFailed)'
    BY <1>1 DEF IInv, AppliedApart, DroppedIsPending, RefusedIsFailed, EffectUnlessFailed,
                Applied, InHand, Accepted
  <1> QED BY <1>2, <1>3 DEF IInv

\* Every action of the loop that lets go of the batch is an Abandon.
LEMMA LettingGo ==
    ASSUME NEW w \in Worker, RedisError(w) \/ Wake(w) \/ Stop(w) \/ Start(w)
    PROVE  \E next \in Empty : Abandon(w, next)
  BY DEF RedisError, Wake, Stop, Start, Empty

LEMMA NextKeeps == IInv /\ [Next]_vars => IInv'
  <1> SUFFICES ASSUME IInv, [Next]_vars PROVE IInv'
    OBVIOUS
  <1>1. ASSUME NEW type \in Type, NEW form \in Form, Publish(type, form) PROVE IInv'
    BY <1>1, PublishKeeps
  <1>2. ASSUME NEW w \in Worker, NEW n \in 1..MaxEntries, Read(w, n) PROVE IInv'
    BY <1>2, ReadKeeps
  <1>3. ASSUME NEW w \in Worker, Dispatch(w) PROVE IInv'
    BY <1>3, DispatchKeeps
  <1>4. ASSUME NEW w \in Worker, Commit(w) PROVE IInv'
    BY <1>4, CommitKeeps
  <1>5. ASSUME NEW w \in Worker, Fail(w) PROVE IInv'
    BY <1>5, FailKeeps
  <1>6. ASSUME NEW w \in Worker, Ack(w) PROVE IInv'
    BY <1>6, AckKeeps
  <1>7. ASSUME NEW w \in Worker, RedisError(w) \/ Wake(w) \/ Stop(w) \/ Start(w) PROVE IInv'
    BY <1>7, LettingGo, AbandonKeeps
  <1>8. CASE UNCHANGED vars
    BY <1>8, StutterKeeps
  <1> QED BY <1>1, <1>2, <1>3, <1>4, <1>5, <1>6, <1>7, <1>8 DEF Next

LEMMA InvariantHolds == Spec => []IInv
  BY InitHolds, NextKeeps, PTL DEF Spec

-----------------------------------------------------------------------------
(* Consequences                                                              *)

\* Nothing but a failure of the database swallows the effect of an entry the
\* handlers of consume_stream can read.
THEOREM EffectUnlessFailedHolds == Spec => []EffectUnlessFailed
  <1>1. IInv => EffectUnlessFailed
    BY DEF IInv
  <1> QED BY <1>1, InvariantHolds, PTL

\* An entry handed out whose session never ended stays in the pending list.
THEOREM DroppedIsPendingHolds == Spec => []DroppedIsPending
  <1>1. IInv => DroppedIsPending
    BY DEF IInv
  <1> QED BY <1>1, InvariantHolds, PTL

LEMMA Counted ==
    ASSUME NEW n \in Nat
    PROVE  IsFiniteSet(1..n) /\ Cardinality(1..n) = n
  <1>1. IsFiniteSet(1..n) /\ Cardinality(1..n) = IF 1 > n THEN 0 ELSE n - 1 + 1
    BY FS_Interval
  <1> QED BY <1>1

\* No entry takes effect twice, with any number of workers, crashes and errors
\* of Redis and of the database.
THEOREM AppliedOnceHolds == Spec => []AppliedOnce
  <1>1. IInv => AppliedOnce
    <2> SUFFICES ASSUME IInv PROVE AppliedOnce
      OBVIOUS
    <2>1. applied \in Seq(Nat) /\ Len(applied) \in Nat /\ DOMAIN applied = 1..Len(applied)
      BY LenProperties DEF IInv, Kinds
    <2>2. applied \in [1..Len(applied) -> Applied]
      BY <2>1, LenProperties DEF Applied
    <2>3. applied \in Bijection(1..Len(applied), Applied)
      <3>1. \A i, j \in 1..Len(applied) : applied[i] = applied[j] => i = j
        BY DEF IInv, AppliedApart
      <3>2. \A x \in Applied : \E k \in 1..Len(applied) : applied[k] = x
        BY <2>1 DEF Applied
      <3> QED BY <2>2, <3>1, <3>2 DEF Bijection, Injection, Surjection, IsInjective
    <2>4. ExistsBijection(1..Len(applied), Applied)
      BY <2>3 DEF ExistsBijection
    <2>5. IsFiniteSet(1..Len(applied)) /\ Cardinality(1..Len(applied)) = Len(applied)
      BY <2>1, Counted
    <2> QED BY <2>4, <2>5, FS_Bijection DEF AppliedOnce
  <1> QED BY <1>1, InvariantHolds, PTL

-----------------------------------------------------------------------------
(* The refinement of EventDelivery                                           *)

\* The entry in the hand of a worker.
LEMMA Hand ==
    ASSUME IInv, NEW w \in Worker, phase[w] \notin Empty
    PROVE  /\ InHand(w) \in HeldBy(w) /\ InHand(w) \in 1..delivered /\ InHand(w) \in Nat
           /\ InHand(w) \in attempted <=> phase[w] = "settled"
           /\ InHand(w) \in attempted <=> InHand(w) \notin InFlight
  <1>1. held[w] \in Seq(Nat) /\ held[w] # <<>> /\ delivered \in Nat
    BY LenProperties DEF IInv, Kinds, BatchesAreHandedOut
  <1>2. Len(held[w]) \in Nat /\ Len(held[w]) >= 1 /\ InHand(w) = held[w][1]
    BY <1>1, Rest DEF InHand
  <1>3. 1 \in 1..Len(held[w]) /\ DOMAIN held[w] = 1..Len(held[w])
    BY <1>1, <1>2, LenProperties
  <1>4. InHand(w) \in HeldBy(w)
    BY <1>2, <1>3 DEF HeldBy
  <1>5. InHand(w) \in 1..delivered
    BY <1>2, <1>3 DEF IInv, BatchesAreHandedOut
  <1>6. InHand(w) \in attempted <=> phase[w] = "settled"
    BY <1>2, <1>3 DEF IInv, OnlyHeadIsAttempted
  <1> QED BY <1>1, <1>4, <1>5, <1>6 DEF InFlight

\* A commit applies the entry in hand, if its handler succeeded.
LEMMA CommitApplies ==
    ASSUME IInv, NEW w \in Worker, Commit(w)
    PROVE  Applied' = Applied \union (IF saw[w].ok THEN {InHand(w)} ELSE {})
  <1>1. applied' = applied \o Kept(w) /\ phase[w] \notin Empty
    BY DEF Commit, Empty
  <1>2. applied \in Seq(Nat) /\ InHand(w) \in Nat
    BY <1>1, Hand DEF IInv, Kinds
  <1>3. Len(applied) \in Nat /\ DOMAIN applied = 1..Len(applied)
    BY <1>2, LenProperties
  <1>4. CASE saw[w].ok
    <2>1. applied' = Append(applied, InHand(w))
      BY <1>1, <1>2, <1>4, AppendIsConcat DEF Kept
    <2>2. /\ applied' \in Seq(Nat) /\ Len(applied') = Len(applied) + 1
          /\ \A i \in 1..Len(applied) : applied'[i] = applied[i]
          /\ applied'[Len(applied) + 1] = InHand(w)
      BY <1>2, <2>1, AppendProperties
    <2>3. DOMAIN applied' = 1..Len(applied')
      BY <2>2, LenProperties
    <2>4. 1..Len(applied') = 1..Len(applied) \union {Len(applied) + 1}
      BY <1>3, <2>2
    <2> QED BY <1>3, <1>4, <2>2, <2>3, <2>4 DEF Applied
  <1>5. CASE ~saw[w].ok
    <2>1. applied' = applied
      BY <1>1, <1>2, <1>5, ConcatEmptySeq DEF Kept
    <2> QED BY <1>5, <2>1 DEF Applied
  <1> QED BY <1>4, <1>5

LEMMA DeliveryInit == Init => Delivery!Init
  <1> SUFFICES ASSUME Init PROVE Delivery!Init
    OBVIOUS
  <1>1. Len(log) = 0 /\ delivered = 0 /\ DOMAIN applied = {}
    BY EmptySeq DEF Init
  <1>2. Settled = {} /\ Applied = {}
    BY <1>1 DEF Settled, Applied
  <1> QED BY <1>1, <1>2 DEF Delivery!Init

\* What a step must do to settle entries as EventDelivery has it.
LEMMA Settles ==
    ASSUME IInv, Len(log)' = Len(log), delivered <= delivered', delivered' \in 0..Len(log),
           \A i \in 1..delivered : i \in InFlight' => i \in InFlight,
           NEW kept, Applied' = Applied \union kept,
           kept \subseteq Settled' \ Settled, \A i, j \in kept : i = j
    PROVE  Delivery!Next
  <1>1. delivered \in Nat /\ Len(log) \in Nat /\ delivered' \in Nat
    BY LenProperties DEF IInv, Kinds
  <1>2. 1..delivered \subseteq 1..delivered' /\ 1..delivered' \subseteq 1..Len(log)
    BY <1>1
  <1>3. Settled \subseteq Settled' /\ Settled' \subseteq 1..Len(log)
    BY <1>2 DEF Settled
  <1> DEFINE entries == Settled' \ Settled
  <1>4. entries \in SUBSET ((1..Len(log)) \ Settled) /\ kept \in SUBSET entries
    BY <1>3
  <1>5. Settled' = Settled \union entries
    BY <1>3
  <1> HIDE DEF entries
  <1>6. Delivery!Settle(entries, kept)
    BY <1>4, <1>5 DEF Delivery!Settle
  <1> QED BY <1>4, <1>6 DEF Delivery!Next

\* The same for a step that applies nothing.
LEMMA Drops ==
    ASSUME IInv, Len(log)' = Len(log), delivered <= delivered', delivered' \in 0..Len(log),
           \A i \in 1..delivered : i \in InFlight' => i \in InFlight,
           applied' = applied
    PROVE  Delivery!Next
  <1> DEFINE kept == {}
  <1>1. Applied' = Applied \union kept
    BY DEF Applied
  <1>2. kept \subseteq Settled' \ Settled /\ \A i, j \in kept : i = j
    OBVIOUS
  <1> HIDE DEF kept
  <1> QED BY <1>1, <1>2, Settles

LEMMA AbandonSettles ==
    ASSUME IInv, NEW w \in Worker, NEW next \in Empty, Abandon(w, next)
    PROVE  Delivery!Next
  <1>1. /\ held' = [held EXCEPT ![w] = <<>>] /\ log' = log /\ delivered' = delivered
        /\ applied' = applied /\ attempted' = attempted
    BY DEF Abandon, stream, database
  <1>2. \A v \in Worker : HeldBy(v)' \subseteq HeldBy(v)
    <2>1. \A v \in Worker : held'[v] = held[v] \/ held'[v] = <<>>
      BY <1>1 DEF IInv, Kinds
    <2>2. DOMAIN <<>> = {}
      OBVIOUS
    <2> QED BY <2>1, <2>2 DEF HeldBy
  <1>3. \A i \in 1..delivered : i \in InFlight' => i \in InFlight
    BY <1>1, <1>2 DEF InFlight
  <1>4. delivered' \in 0..Len(log) /\ delivered <= delivered' /\ Len(log)' = Len(log)
    BY <1>1, LenProperties DEF IInv, Kinds
  <1> QED BY <1>1, <1>3, <1>4, Drops

LEMMA ReadSettles ==
    ASSUME IInv, NEW w \in Worker, NEW n \in 1..MaxEntries, Read(w, n)
    PROVE  Delivery!Next
  <1>1. /\ n \in (delivered + 1)..Len(log) /\ delivered' = n /\ log' = log
        /\ applied' = applied /\ attempted' = attempted
        /\ held' = [held EXCEPT ![w] = InOrder(Fresh(n))] \/ held' = held
    BY DEF Read, database
  <1>2. Kinds /\ delivered \in Nat /\ Len(log) \in Nat
    BY LenProperties DEF IInv, Kinds
  <1>3. delivered <= delivered' /\ delivered' \in 0..Len(log)
    BY <1>1, <1>2
  <1>4. \A v \in Worker : \A i \in 1..delivered : i \in HeldBy(v)' => i \in HeldBy(v)
    <2>1. \A v \in Worker : held'[v] = held[v] \/ held'[v] = InOrder(Fresh(n))
      BY <1>1, <1>2 DEF Kinds
    <2>2. /\ DOMAIN InOrder(Fresh(n)) = 1..Len(InOrder(Fresh(n)))
          /\ \A k \in 1..Len(InOrder(Fresh(n))) : InOrder(Fresh(n))[k] \in (delivered + 1)..n
      BY <1>1, <1>2, FreshBatch, LenProperties
    <2>3. \A i \in 1..delivered : i \notin (delivered + 1)..n
      BY <1>1, <1>2
    <2> QED BY <2>1, <2>2, <2>3 DEF HeldBy
  <1>5. \A i \in 1..delivered : i \in InFlight' => i \in InFlight
    BY <1>1, <1>4 DEF InFlight
  <1> QED BY <1>1, <1>3, <1>5, Drops

LEMMA AttemptSettles ==
    ASSUME IInv, NEW w \in Worker, phase[w] = "dispatched",
           log' = log, delivered' = delivered, held' = held,
           attempted' = attempted \union {InHand(w)},
           NEW kept \in SUBSET {InHand(w)}, Applied' = Applied \union kept
    PROVE  Delivery!Next
  <1>1. InHand(w) \in 1..delivered /\ InHand(w) \in InFlight
    BY Hand DEF Empty
  <1>2. delivered \in 0..Len(log) /\ delivered <= delivered
    BY LenProperties DEF IInv, Kinds
  <1>3. \A v \in Worker : HeldBy(v)' = HeldBy(v)
    BY DEF HeldBy
  <1>4. InFlight' = InFlight \ {InHand(w)}
    BY <1>3 DEF InFlight
  <1>5. InHand(w) \in Settled' \ Settled
    BY <1>1, <1>4 DEF Settled
  <1> QED BY <1>2, <1>4, <1>5, Settles

LEMMA AckSettles ==
    ASSUME IInv, NEW w \in Worker, Ack(w)
    PROVE  Delivery!Next
  <1>1. /\ held' = [held EXCEPT ![w] = Tail(held[w])] \/ held' = [held EXCEPT ![w] = <<>>]
        /\ log' = log /\ delivered' = delivered /\ applied' = applied /\ attempted' = attempted
        /\ phase[w] = "settled"
    BY DEF Ack, database
  <1>2. held[w] \in Seq(Nat) /\ held[w] # <<>>
    BY <1>1 DEF IInv, Kinds, BatchesAreHandedOut, Empty
  <1>3. {Tail(held[w])[k] : k \in DOMAIN Tail(held[w])} \subseteq HeldBy(w)
    <2>1. /\ DOMAIN Tail(held[w]) = 1..Len(Tail(held[w])) /\ DOMAIN held[w] = 1..Len(held[w])
          /\ \A k \in 1..Len(Tail(held[w])) : k + 1 \in 1..Len(held[w]) /\ Tail(held[w])[k] = held[w][k + 1]
      BY <1>2, Rest, LenProperties
    <2> QED BY <2>1 DEF HeldBy
  <1>4. \A v \in Worker : HeldBy(v)' \subseteq HeldBy(v)
    <2>1. \A v \in Worker : held'[v] = held[v] \/ held'[v] = <<>> \/ (v = w /\ held'[v] = Tail(held[w]))
      BY <1>1 DEF IInv, Kinds
    <2>2. DOMAIN <<>> = {}
      OBVIOUS
    <2> QED BY <1>3, <2>1, <2>2 DEF HeldBy
  <1>5. \A i \in 1..delivered : i \in InFlight' => i \in InFlight
    BY <1>1, <1>4 DEF InFlight
  <1>6. delivered' \in 0..Len(log) /\ delivered <= delivered' /\ Len(log)' = Len(log)
    BY <1>1, LenProperties DEF IInv, Kinds
  <1> QED BY <1>1, <1>5, <1>6, Drops

LEMMA DeliveryStep == IInv /\ [Next]_vars => [Delivery!Next]_(Delivery!vars)
  <1> SUFFICES ASSUME IInv, [Next]_vars PROVE [Delivery!Next]_(Delivery!vars)
    OBVIOUS
  <1> USE DEF Delivery!vars
  <1>1. ASSUME NEW type \in Type, NEW form \in Form, Publish(type, form) PROVE Delivery!Next
    <2>1. /\ log' = Append(log, [type |-> type, form |-> form]) /\ delivered' = delivered
          /\ held' = held /\ applied' = applied /\ attempted' = attempted
      BY <1>1 DEF Publish, worker, database
    <2>2. Len(log') = Len(log) + 1
      BY <2>1, AppendProperties DEF IInv, Kinds
    <2>3. Settled' = Settled /\ Applied' = Applied
      BY <2>1 DEF Settled, InFlight, HeldBy, Applied
    <2> QED BY <2>2, <2>3 DEF Delivery!Next, Delivery!Append
  <1>2. ASSUME NEW w \in Worker, NEW n \in 1..MaxEntries, Read(w, n) PROVE Delivery!Next
    BY <1>2, ReadSettles
  <1>3. ASSUME NEW w \in Worker, Dispatch(w) PROVE UNCHANGED Delivery!vars
    BY <1>3 DEF Dispatch, stream, Settled, InFlight, HeldBy, Applied
  <1>4. ASSUME NEW w \in Worker, Commit(w) PROVE Delivery!Next
    <2>1. /\ phase[w] = "dispatched" /\ log' = log /\ delivered' = delivered /\ held' = held
          /\ attempted' = attempted \union {InHand(w)}
      BY <1>4 DEF Commit, stream
    <2> DEFINE kept == IF saw[w].ok THEN {InHand(w)} ELSE {}
    <2>2. kept \in SUBSET {InHand(w)} /\ Applied' = Applied \union kept
      BY <1>4, CommitApplies
    <2> HIDE DEF kept
    <2> QED BY <2>1, <2>2, AttemptSettles
  <1>5. ASSUME NEW w \in Worker, Fail(w) PROVE Delivery!Next
    <2>1. /\ phase[w] = "dispatched" /\ log' = log /\ delivered' = delivered /\ held' = held
          /\ attempted' = attempted \union {InHand(w)} /\ Applied' = Applied \union {}
      BY <1>5 DEF Fail, stream, Applied
    <2> QED BY <2>1, AttemptSettles
  <1>6. ASSUME NEW w \in Worker, Ack(w) PROVE Delivery!Next
    BY <1>6, AckSettles
  <1>7. ASSUME NEW w \in Worker, RedisError(w) \/ Wake(w) \/ Stop(w) \/ Start(w) PROVE Delivery!Next
    BY <1>7, LettingGo, AbandonSettles
  <1>8. CASE UNCHANGED vars
    BY <1>8 DEF vars, stream, worker, database, Settled, InFlight, HeldBy, Applied
  <1> QED BY <1>1, <1>2, <1>3, <1>4, <1>5, <1>6, <1>7, <1>8 DEF Next

\* consume_stream implements at-most-once delivery: entries are settled once,
\* and applied at most when they are.
THEOREM ConsumerImplementsDelivery == Spec => DeliverySpec
  BY DeliveryInit, DeliveryStep, InvariantHolds, PTL DEF Spec, DeliverySpec, Delivery!Spec

-----------------------------------------------------------------------------
(* Counters                                                                  *)

Of(c) == {i \in Applied : log[i].type = c}

\* What a handler is about to write is at most one more than what has been
\* applied, however long ago it read the counter.
ValuesAreBacked ==
    \A w \in Worker :
        phase[w] = "dispatched" /\ saw[w].ok /\ CodeOf(w) \in Counts =>
            saw[w].value <= Cardinality(Of(CodeOf(w))) + 1

Backed == KpiNotAhead /\ ValuesAreBacked

LEMMA CountIsFinite ==
    ASSUME IInv, NEW c
    PROVE  IsFiniteSet(Of(c)) /\ Cardinality(Of(c)) \in Nat /\ Of(c) \subseteq 1..delivered
  <1>1. DOMAIN applied = 1..Len(applied)
    BY LenProperties DEF IInv, Kinds
  <1>2. Applied \subseteq attempted /\ attempted \subseteq 1..delivered /\ delivered \in Nat
    BY <1>1, LenProperties DEF IInv, Kinds, AppliedApart, Applied
  <1>3. Of(c) \in SUBSET (1..delivered)
    BY <1>2 DEF Of
  <1>4. IsFiniteSet(1..delivered)
    BY <1>2, FS_Interval
  <1>5. IsFiniteSet(Of(c))
    BY <1>3, <1>4, FS_Subset
  <1> QED BY <1>3, <1>5, FS_CardinalityType

\* Steps that leave the counters alone and start no handler.
LEMMA QuietBacks ==
    ASSUME IInv, Backed, kpi' = kpi, Applied' = Applied,
           \A i \in 1..delivered : log'[i] = log[i],
           \A w \in Worker : phase'[w] = "dispatched" =>
               phase[w] = "dispatched" /\ saw'[w] = saw[w] /\ held'[w] = held[w]
    PROVE  Backed'
  <1>0. \A i \in Applied : log'[i] = log[i]
    <2>1. DOMAIN applied = 1..Len(applied)
      BY LenProperties DEF IInv, Kinds
    <2> QED BY <2>1 DEF IInv, Kinds, AppliedApart, Applied
  <1>1. \A c : Of(c)' = Of(c)
    BY <1>0 DEF Of
  <1>2. KpiNotAhead'
    BY <1>1 DEF Backed, KpiNotAhead, Of
  <1>3. ValuesAreBacked'
    <2> SUFFICES ASSUME NEW w \in Worker, phase'[w] = "dispatched", saw'[w].ok, CodeOf(w)' \in Counts
                 PROVE  saw'[w].value <= Cardinality(Of(CodeOf(w)))' + 1
      BY DEF ValuesAreBacked
    <2>1. phase[w] = "dispatched" /\ saw'[w] = saw[w] /\ InHand(w)' = InHand(w)
      BY DEF InHand
    <2>2. InHand(w) \in 1..delivered
      BY <2>1, Hand DEF Empty
    <2>3. CodeOf(w)' = CodeOf(w)
      BY <2>1, <2>2 DEF CodeOf
    <2>4. Of(CodeOf(w))' = Of(CodeOf(w))
      BY <1>0, <2>3 DEF Of
    <2> QED BY <2>1, <2>3, <2>4 DEF Backed, ValuesAreBacked
  <1> QED BY <1>2, <1>3 DEF Backed

LEMMA DispatchBacks ==
    ASSUME IInv, Backed, NEW w \in Worker, Dispatch(w)
    PROVE  Backed'
  <1>1. /\ phase' = [phase EXCEPT ![w] = "dispatched"] /\ held' = held /\ kpi' = kpi
        /\ applied' = applied /\ log' = log
    BY DEF Dispatch, stream
  <1>2. PICK ok \in BOOLEAN :
           saw' = [saw EXCEPT ![w] =
              [ok    |-> ok,
               row   |-> CodeOf(w) \in rows,
               value |-> CASE ok /\ CodeOf(w) \in Counts -> (IF CodeOf(w) \in Code THEN kpi[CodeOf(w)] ELSE 0) + 1
                           [] ok /\ CodeOf(w) \in Gauges -> InHand(w)
                           [] OTHER                      -> 0]]
    BY DEF Dispatch, CodeOf
  <1>3. \A c : Of(c)' = Of(c)
    BY <1>1 DEF Of, Applied
  <1>4. \A v \in Worker : CodeOf(v)' = CodeOf(v)
    BY <1>1 DEF CodeOf, InHand
  <1>5. /\ \A v \in Worker : v # w => phase'[v] = phase[v] /\ saw'[v] = saw[v]
        /\ saw'[w].ok /\ CodeOf(w) \in Counts => saw'[w].value = kpi[CodeOf(w)] + 1
    <2>1. /\ \A v \in Worker : v # w => phase'[v] = phase[v] /\ saw'[v] = saw[v]
          /\ saw'[w].ok = ok
      BY <1>1, <1>2 DEF IInv, Kinds
    <2>2. ASSUME ok, CodeOf(w) \in Counts PROVE saw'[w].value = kpi[CodeOf(w)] + 1
      <3>1. CodeOf(w) \in Code /\ CodeOf(w) \notin Gauges
        BY <2>2 DEF Code, Counts, Gauges
      <3>2. saw' = [saw EXCEPT ![w] = [ok |-> ok, row |-> CodeOf(w) \in rows,
                                       value |-> kpi[CodeOf(w)] + 1]]
        BY <1>2, <2>2, <3>1
      <3> QED BY <3>2 DEF IInv, Kinds
    <2> QED BY <2>1, <2>2
  <1>6. KpiNotAhead'
    BY <1>1, <1>3 DEF Backed, KpiNotAhead, Of
  <1>7. ValuesAreBacked'
    <2> SUFFICES ASSUME NEW v \in Worker, phase'[v] = "dispatched", saw'[v].ok, CodeOf(v) \in Counts
                 PROVE  saw'[v].value <= Cardinality(Of(CodeOf(v))) + 1
      BY <1>3, <1>4 DEF ValuesAreBacked
    <2>1. CASE v # w
      BY <1>5, <2>1 DEF Backed, ValuesAreBacked
    <2>2. CASE v = w
      <3>1. kpi[CodeOf(w)] <= Cardinality(Of(CodeOf(w))) /\ saw'[w].value = kpi[CodeOf(w)] + 1
        BY <1>5, <2>2 DEF Backed, KpiNotAhead, Of
      <3>2. kpi[CodeOf(w)] \in Nat
        BY <2>2 DEF IInv, Kinds, Code
      <3>3. Cardinality(Of(CodeOf(w))) \in Nat
        BY CountIsFinite
      <3> QED BY <2>2, <3>1, <3>2, <3>3
    <2> QED BY <2>1, <2>2
  <1> QED BY <1>6, <1>7 DEF Backed

LEMMA CommitBacks ==
    ASSUME IInv, Backed, NEW w \in Worker, Commit(w)
    PROVE  Backed'
  <1> DEFINE h == InHand(w)
  <1>1. /\ phase[w] = "dispatched" /\ phase' = [phase EXCEPT ![w] = "settled"]
        /\ held' = held /\ saw' = saw /\ log' = log
        /\ kpi' = [c \in Code |-> IF Writes(w) /\ c = CodeOf(w) THEN saw[w].value ELSE kpi[c]]
    BY DEF Commit, stream
  <1>2. Applied' = Applied \union (IF saw[w].ok THEN {h} ELSE {})
    BY CommitApplies
  <1>3. h \notin Applied
    <2>1. DOMAIN applied = 1..Len(applied)
      BY LenProperties DEF IInv, Kinds
    <2>2. h \notin attempted
      BY <1>1, Hand DEF Empty
    <2> QED BY <2>1, <2>2 DEF IInv, AppliedApart, Applied
  <1>4. \A c : /\ Cardinality(Of(c)) \in Nat /\ Cardinality(Of(c))' \in Nat
               /\ Cardinality(Of(c)) <= Cardinality(Of(c))'
               /\ saw[w].ok /\ c = CodeOf(w) => Cardinality(Of(c))' = Cardinality(Of(c)) + 1
    <2> SUFFICES ASSUME NEW c
                 PROVE  /\ Cardinality(Of(c)) \in Nat /\ Cardinality(Of(c)') \in Nat
                        /\ Cardinality(Of(c)) <= Cardinality(Of(c)')
                        /\ saw[w].ok /\ c = CodeOf(w) => Cardinality(Of(c)') = Cardinality(Of(c)) + 1
      OBVIOUS
    <2>1. IsFiniteSet(Of(c)) /\ Cardinality(Of(c)) \in Nat
      BY CountIsFinite
    <2>2. Of(c)' = Of(c) \/ Of(c)' = Of(c) \union {h}
      BY <1>1, <1>2 DEF Of
    <2>3. h \notin Of(c)
      BY <1>3 DEF Of
    <2>4. Cardinality(Of(c) \union {h}) = Cardinality(Of(c)) + 1
      BY <2>1, <2>3, FS_AddElement
    <2>5. saw[w].ok /\ c = CodeOf(w) => Of(c)' = Of(c) \union {h}
      BY <1>1, <1>2 DEF Of, CodeOf
    <2> QED BY <2>1, <2>2, <2>4, <2>5
  <1>5. \A v \in Worker : CodeOf(v)' = CodeOf(v)
    BY <1>1 DEF CodeOf, InHand
  <1>6. KpiNotAhead'
    <2> SUFFICES ASSUME NEW c \in Counts
                 PROVE  kpi'[c] <= Cardinality(Of(c))'
      BY DEF KpiNotAhead, Of
    <2>1. c \in Code /\ kpi[c] \in Nat /\ kpi[c] <= Cardinality(Of(c))
      BY DEF IInv, Kinds, Code, Backed, KpiNotAhead, Of
    <2>2. CASE Writes(w) /\ c = CodeOf(w)
      <3>1. kpi'[c] = saw[w].value /\ saw[w].ok
        BY <1>1, <2>1, <2>2 DEF Writes
      <3>2. saw[w].value <= Cardinality(Of(c)) + 1
        BY <1>1, <2>2, <3>1 DEF Backed, ValuesAreBacked
      <3> QED BY <1>4, <2>2, <3>1, <3>2
    <2>3. CASE ~(Writes(w) /\ c = CodeOf(w))
      <3>1. kpi'[c] = kpi[c]
        BY <1>1, <2>1, <2>3
      <3>2. /\ Cardinality(Of(c)) \in Nat /\ Cardinality(Of(c))' \in Nat
            /\ Cardinality(Of(c)) <= Cardinality(Of(c))'
        BY <1>4
      <3> QED BY <2>1, <3>1, <3>2
    <2> QED BY <2>2, <2>3
  <1>7. ValuesAreBacked'
    <2> SUFFICES ASSUME NEW v \in Worker, phase'[v] = "dispatched", saw[v].ok, CodeOf(v) \in Counts
                 PROVE  saw[v].value <= Cardinality(Of(CodeOf(v)))' + 1
      BY <1>1, <1>5 DEF ValuesAreBacked
    <2>1. v # w /\ phase[v] = "dispatched"
      BY <1>1 DEF IInv, Kinds
    <2>2. saw[v].value <= Cardinality(Of(CodeOf(v))) + 1 /\ saw[v].value \in Nat
      BY <2>1 DEF IInv, Kinds, Backed, ValuesAreBacked
    <2>3. /\ Cardinality(Of(CodeOf(v))) \in Nat /\ Cardinality(Of(CodeOf(v)))' \in Nat
          /\ Cardinality(Of(CodeOf(v))) <= Cardinality(Of(CodeOf(v)))'
      BY <1>4, <1>5
    <2> QED BY <2>2, <2>3
  <1> QED BY <1>6, <1>7 DEF Backed

LEMMA BackedInit == Init => Backed
  <1> SUFFICES ASSUME Init PROVE Backed
    OBVIOUS
  <1>1. DOMAIN applied = {} /\ \A c \in Code : kpi[c] = 0
    BY DEF Init
  <1>2. \A c : Of(c) = {}
    BY <1>1 DEF Of, Applied
  <1>3. KpiNotAhead
    BY <1>1, <1>2, FS_EmptySet DEF KpiNotAhead, Of, Code
  <1>4. ValuesAreBacked
    BY DEF Init, ValuesAreBacked
  <1> QED BY <1>3, <1>4 DEF Backed

LEMMA BackedStep == IInv /\ Backed /\ [Next]_vars => Backed'
  <1> SUFFICES ASSUME IInv, Backed, [Next]_vars PROVE Backed'
    OBVIOUS
  <1>1. ASSUME NEW type \in Type, NEW form \in Form, Publish(type, form) PROVE Backed'
    <2>1. /\ log' = Append(log, [type |-> type, form |-> form]) /\ phase' = phase
          /\ held' = held /\ saw' = saw /\ kpi' = kpi /\ applied' = applied
      BY <1>1 DEF Publish, worker, database
    <2>2. \A i \in 1..delivered : log'[i] = log[i]
      <3>1. \A i \in 1..Len(log) : log'[i] = log[i]
        BY <2>1, AppendProperties DEF IInv, Kinds
      <3>2. 1..delivered \subseteq 1..Len(log)
        BY LenProperties DEF IInv, Kinds
      <3> QED BY <3>1, <3>2
    <2> QED BY <2>1, <2>2, QuietBacks DEF Applied
  <1>2. ASSUME NEW w \in Worker, NEW n \in 1..MaxEntries, Read(w, n) PROVE Backed'
    <2>1. /\ log' = log /\ saw' = saw /\ kpi' = kpi /\ applied' = applied
          /\ \A v \in Worker : v # w => phase'[v] = phase[v] /\ held'[v] = held[v]
          /\ phase'[w] # "dispatched"
      BY <1>2 DEF Read, database, IInv, Kinds
    <2> QED BY <2>1, QuietBacks DEF Applied
  <1>3. ASSUME NEW w \in Worker, Dispatch(w) PROVE Backed'
    BY <1>3, DispatchBacks
  <1>4. ASSUME NEW w \in Worker, Commit(w) PROVE Backed'
    BY <1>4, CommitBacks
  <1>5. ASSUME NEW w \in Worker, Fail(w) PROVE Backed'
    <2>1. /\ log' = log /\ saw' = saw /\ held' = held /\ kpi' = kpi /\ applied' = applied
          /\ phase' = [phase EXCEPT ![w] = "settled"]
      BY <1>5 DEF Fail, stream
    <2>2. \A v \in Worker : phase'[v] = "dispatched" => phase[v] = "dispatched"
      BY <2>1 DEF IInv, Kinds
    <2> QED BY <2>1, <2>2, QuietBacks DEF Applied
  <1>6. ASSUME NEW w \in Worker, Ack(w) PROVE Backed'
    <2>1. /\ log' = log /\ kpi' = kpi /\ applied' = applied
          /\ \A v \in Worker : v # w => phase'[v] = phase[v] /\ held'[v] = held[v] /\ saw'[v] = saw[v]
          /\ phase'[w] # "dispatched"
      BY <1>6 DEF Ack, AfterAck, database, IInv, Kinds
    <2> QED BY <2>1, QuietBacks DEF Applied
  <1>7. ASSUME NEW w \in Worker, NEW next \in Empty, Abandon(w, next) PROVE Backed'
    <2>1. /\ log' = log /\ kpi' = kpi /\ applied' = applied
          /\ \A v \in Worker : v # w => phase'[v] = phase[v] /\ held'[v] = held[v] /\ saw'[v] = saw[v]
          /\ phase'[w] # "dispatched"
      BY <1>7 DEF Abandon, stream, database, IInv, Kinds, Empty
    <2> QED BY <2>1, QuietBacks DEF Applied
  <1>8. CASE UNCHANGED vars
    <2>1. /\ log' = log /\ kpi' = kpi /\ applied' = applied
          /\ phase' = phase /\ held' = held /\ saw' = saw
      BY <1>8 DEF vars, stream, worker, database
    <2> QED BY <2>1, QuietBacks DEF Applied
  <1>9. ASSUME NEW w \in Worker, RedisError(w) \/ Wake(w) \/ Stop(w) \/ Start(w) PROVE Backed'
    BY <1>7, <1>9, LettingGo
  <1> QED BY <1>1, <1>2, <1>3, <1>4, <1>5, <1>6, <1>8, <1>9 DEF Next

\* Racing workers, duplicates and failures can make a counting KPI fall behind
\* the entries applied, never run ahead of them.
THEOREM KpiNotAheadHolds == Spec => []KpiNotAhead
  <1>1. Backed => KpiNotAhead
    BY DEF Backed
  <1> QED BY <1>1, BackedInit, BackedStep, InvariantHolds, PTL DEF Spec

-----------------------------------------------------------------------------
(* A single process that runs the consumers: an assumption of the theorems *)
(* below, which say what more holds then.                                  *)

OneWorker == \A v, w \in Worker : v = w

\* What is applied lies before every entry of a batch whose session has not ended.
AppliedIsBehind ==
    \A w \in Worker : \A i \in Applied, k \in 1..Len(held[w]) :
        i < held[w][k] \/ held[w][k] \in attempted

\* What a handler is about to write was computed from the point as it still is.
ValuesAreFresh ==
    \A w \in Worker : phase[w] = "dispatched" /\ saw[w].ok =>
        /\ CodeOf(w) \in Counts => saw[w].value = kpi[CodeOf(w)] + 1
        /\ CodeOf(w) \in Gauges => saw[w].value = InHand(w)

CountsAreExact == \A c \in Counts : kpi[c] = Cardinality(Of(c))
GaugesAreLatest == \A c \in Gauges : \A i \in Of(c) : kpi[c] >= i

OneIInv ==
    /\ AppliedInOrder
    /\ AppliedIsBehind
    /\ ValuesAreFresh
    /\ CountsAreExact
    /\ GaugesAreLatest

LEMMA Behind ==
    ASSUME IInv
    PROVE  /\ DOMAIN applied = 1..Len(applied) /\ Len(applied) \in Nat
           /\ Applied \subseteq attempted /\ Applied \subseteq 1..delivered
           /\ Applied \subseteq Nat /\ delivered \in Nat
  <1>1. DOMAIN applied = 1..Len(applied) /\ Len(applied) \in Nat
    BY LenProperties DEF IInv, Kinds
  <1>2. Applied \subseteq attempted /\ attempted \subseteq 1..delivered /\ delivered \in Nat
    BY <1>1, LenProperties DEF IInv, Kinds, AppliedApart, Applied
  <1> QED BY <1>1, <1>2

LEMMA OneInit == Init => OneIInv
  <1> SUFFICES ASSUME Init PROVE OneIInv
    OBVIOUS
  <1>1. DOMAIN applied = {} /\ \A c \in Code : kpi[c] = 0
    BY DEF Init
  <1>2. Applied = {} /\ \A c : Of(c) = {}
    BY <1>1 DEF Of, Applied
  <1>3. CountsAreExact /\ GaugesAreLatest
    BY <1>1, <1>2, FS_EmptySet DEF CountsAreExact, GaugesAreLatest, Code
  <1>4. ValuesAreFresh
    BY DEF Init, ValuesAreFresh
  <1>5. AppliedInOrder /\ AppliedIsBehind
    BY <1>1, <1>2 DEF AppliedInOrder, AppliedIsBehind
  <1> QED BY <1>3, <1>4, <1>5 DEF OneIInv

\* Steps that apply nothing: batches only shrink, or are read anew.
LEMMA QuietIsOne ==
    ASSUME IInv, OneIInv, kpi' = kpi, applied' = applied, attempted \subseteq attempted',
           \A i \in 1..delivered : log'[i] = log[i],
           \A w \in Worker : \A k \in 1..Len(held'[w]) :
               \/ held'[w][k] \in Nat /\ held'[w][k] > delivered
               \/ \E j \in 1..Len(held[w]) : held'[w][k] = held[w][j],
           \A w \in Worker : phase'[w] = "dispatched" =>
               phase[w] = "dispatched" /\ saw'[w] = saw[w] /\ held'[w] = held[w]
    PROVE  OneIInv'
  <1>0. Applied' = Applied /\ \A i \in Applied : log'[i] = log[i]
    BY Behind DEF Applied
  <1>1. \A c : Of(c)' = Of(c)
    BY <1>0 DEF Of
  <1>2. CountsAreExact' /\ GaugesAreLatest'
    BY <1>1 DEF OneIInv, CountsAreExact, GaugesAreLatest
  <1>3. ValuesAreFresh'
    <2> SUFFICES ASSUME NEW w \in Worker, phase'[w] = "dispatched", saw'[w].ok
                 PROVE  /\ CodeOf(w)' \in Counts => saw'[w].value = kpi[CodeOf(w)'] + 1
                        /\ CodeOf(w)' \in Gauges => saw'[w].value = InHand(w)'
      BY DEF ValuesAreFresh
    <2>1. phase[w] = "dispatched" /\ saw'[w] = saw[w] /\ InHand(w)' = InHand(w)
      BY DEF InHand
    <2>2. InHand(w) \in 1..delivered
      BY <2>1, Hand DEF Empty
    <2>3. CodeOf(w)' = CodeOf(w)
      BY <2>1, <2>2 DEF CodeOf
    <2> QED BY <2>1, <2>3 DEF OneIInv, ValuesAreFresh
  <1>4. AppliedInOrder'
    BY DEF OneIInv, AppliedInOrder
  <1>5. AppliedIsBehind'
    <2> SUFFICES ASSUME NEW w \in Worker, NEW i \in Applied, NEW k \in 1..Len(held'[w])
                 PROVE  i < held'[w][k] \/ held'[w][k] \in attempted'
      BY <1>0 DEF AppliedIsBehind
    <2>1. CASE held'[w][k] \in Nat /\ held'[w][k] > delivered
      <3>1. i \in 1..delivered /\ delivered \in Nat
        BY Behind
      <3> QED BY <2>1, <3>1
    <2>2. CASE \E j \in 1..Len(held[w]) : held'[w][k] = held[w][j]
      BY <2>2 DEF OneIInv, AppliedIsBehind
    <2> QED BY <2>1, <2>2
  <1> QED BY <1>2, <1>3, <1>4, <1>5 DEF OneIInv

LEMMA DispatchIsOne ==
    ASSUME IInv, OneIInv, NEW w \in Worker, Dispatch(w)
    PROVE  OneIInv'
  <1>1. /\ phase' = [phase EXCEPT ![w] = "dispatched"] /\ held' = held /\ kpi' = kpi
        /\ applied' = applied /\ log' = log /\ attempted' = attempted
    BY DEF Dispatch, stream
  <1>2. PICK ok \in BOOLEAN :
           saw' = [saw EXCEPT ![w] =
              [ok    |-> ok,
               row   |-> CodeOf(w) \in rows,
               value |-> CASE ok /\ CodeOf(w) \in Counts -> (IF CodeOf(w) \in Code THEN kpi[CodeOf(w)] ELSE 0) + 1
                           [] ok /\ CodeOf(w) \in Gauges -> InHand(w)
                           [] OTHER                      -> 0]]
    BY DEF Dispatch, CodeOf
  <1>3. Applied' = Applied /\ \A c : Of(c)' = Of(c)
    BY <1>1 DEF Of, Applied
  <1>4. \A v \in Worker : CodeOf(v)' = CodeOf(v) /\ InHand(v)' = InHand(v)
    BY <1>1 DEF CodeOf, InHand
  <1>5. /\ \A v \in Worker : v # w => phase'[v] = phase[v] /\ saw'[v] = saw[v]
        /\ saw'[w].ok /\ CodeOf(w) \in Counts => saw'[w].value = kpi[CodeOf(w)] + 1
        /\ saw'[w].ok /\ CodeOf(w) \in Gauges => saw'[w].value = InHand(w)
    <2>1. /\ \A v \in Worker : v # w => phase'[v] = phase[v] /\ saw'[v] = saw[v]
          /\ saw'[w].ok = ok
      BY <1>1, <1>2 DEF IInv, Kinds
    <2>2. ASSUME ok, CodeOf(w) \in Counts PROVE saw'[w].value = kpi[CodeOf(w)] + 1
      <3>1. CodeOf(w) \in Code /\ CodeOf(w) \notin Gauges
        BY <2>2 DEF Code, Counts, Gauges
      <3>2. saw' = [saw EXCEPT ![w] = [ok |-> ok, row |-> CodeOf(w) \in rows,
                                       value |-> kpi[CodeOf(w)] + 1]]
        BY <1>2, <2>2, <3>1
      <3> QED BY <3>2 DEF IInv, Kinds
    <2>3. ASSUME ok, CodeOf(w) \in Gauges PROVE saw'[w].value = InHand(w)
      <3>1. CodeOf(w) \notin Counts
        BY <2>3 DEF Counts, Gauges
      <3>2. saw' = [saw EXCEPT ![w] = [ok |-> ok, row |-> CodeOf(w) \in rows,
                                       value |-> InHand(w)]]
        BY <1>2, <2>3, <3>1
      <3> QED BY <3>2 DEF IInv, Kinds
    <2> QED BY <2>1, <2>2, <2>3
  <1>6. CountsAreExact' /\ GaugesAreLatest' /\ AppliedInOrder' /\ AppliedIsBehind'
    BY <1>1, <1>3 DEF OneIInv, CountsAreExact, GaugesAreLatest, AppliedInOrder, AppliedIsBehind
  <1>7. ValuesAreFresh'
    BY <1>1, <1>4, <1>5 DEF OneIInv, ValuesAreFresh
  <1> QED BY <1>6, <1>7 DEF OneIInv

LEMMA CommitIsOne ==
    ASSUME OneWorker, IInv, OneIInv, NEW w \in Worker, Commit(w)
    PROVE  OneIInv'
  <1> DEFINE h == InHand(w)
  <1>1. /\ phase[w] = "dispatched" /\ phase' = [phase EXCEPT ![w] = "settled"]
        /\ held' = held /\ saw' = saw /\ log' = log /\ attempted' = attempted \union {h}
        /\ kpi' = [c \in Code |-> IF Writes(w) /\ c = CodeOf(w) THEN saw[w].value ELSE kpi[c]]
        /\ applied' = applied \o Kept(w)
    BY DEF Commit, stream
  <1>2. Applied' = Applied \union (IF saw[w].ok THEN {h} ELSE {})
    BY CommitApplies
  <1>3. h \notin attempted /\ h \in Nat /\ h \in HeldBy(w) /\ held[w] # <<>>
    BY <1>1, Hand DEF Empty, IInv, BatchesAreHandedOut
  <1>4. /\ 1 \in 1..Len(held[w]) /\ h = held[w][1]
        /\ \A k \in 1..Len(held[w]) : k # 1 => h < held[w][k]
    <2>1. held[w] \in Seq(Nat)
      BY DEF IInv, Kinds
    <2>2. Len(held[w]) \in Nat /\ Len(held[w]) >= 1 /\ Head(held[w]) = held[w][1]
      BY <1>3, <2>1, Rest
    <2>3. \A i, j \in 1..Len(held[w]) : i < j => held[w][i] < held[w][j]
      BY DEF IInv, BatchesAreApart
    <2> QED BY <2>2, <2>3 DEF InHand
  <1>5. /\ Applied \subseteq Nat /\ h \notin Applied
        /\ \A i \in Applied : i < h
    BY <1>3, <1>4, Behind DEF OneIInv, AppliedIsBehind
  <1> HIDE DEF h
  <1>6. AppliedIsBehind'
    <2> SUFFICES ASSUME NEW i \in Applied', NEW k \in 1..Len(held[w])
                 PROVE  i < held[w][k] \/ held[w][k] \in attempted'
      BY <1>1 DEF AppliedIsBehind, OneWorker
    <2>1. CASE i \in Applied
      BY <1>1, <2>1 DEF OneIInv, AppliedIsBehind
    <2>2. CASE i = h
      BY <1>1, <1>4, <2>2
    <2> QED BY <1>2, <2>1, <2>2
  <1>7. AppliedInOrder'
    <2>1. CASE saw[w].ok
      <3>1. applied' = Append(applied, h) /\ applied \in Seq(Nat)
        BY <1>1, <1>3, <2>1, AppendIsConcat DEF Kept, IInv, Kinds, h
      <3>2. /\ Len(applied') = Len(applied) + 1 /\ applied'[Len(applied) + 1] = h
            /\ \A i \in 1..Len(applied) : applied'[i] = applied[i]
            /\ applied' \in Seq(Nat)
        BY <1>3, <3>1, AppendProperties
      <3>3. DOMAIN applied = 1..Len(applied) /\ DOMAIN applied' = 1..(Len(applied) + 1) /\ Len(applied) \in Nat
        BY <3>2, Behind, LenProperties
      <3>4. \A i \in 1..Len(applied) : applied[i] < h
        BY <1>5, <3>3 DEF Applied
      <3>5. \A i, j \in 1..Len(applied) : i < j => applied[i] < applied[j]
        BY <3>3 DEF OneIInv, AppliedInOrder
      <3>6. \A i, j \in 1..(Len(applied) + 1) : i < j => i \in 1..Len(applied) /\ (j \in 1..Len(applied) \/ j = Len(applied) + 1)
        BY <3>3
      <3> QED BY <3>2, <3>3, <3>4, <3>5, <3>6 DEF AppliedInOrder
    <2>2. CASE ~saw[w].ok
      <3>1. applied' = applied
        BY <1>1, <2>2, ConcatEmptySeq DEF Kept, IInv, Kinds
      <3> QED BY <3>1 DEF OneIInv, AppliedInOrder
    <2> QED BY <2>1, <2>2
  <1>8. ValuesAreFresh'
    <2>1. phase'[w] # "dispatched"
      BY <1>1 DEF IInv, Kinds
    <2> QED BY <2>1 DEF ValuesAreFresh, OneWorker
  <1>9. saw[w].ok => Writes(w) \/ CodeOf(w) \notin Code
    BY DEF Writes
  <1>10. \A c : \/ Of(c)' = Of(c) /\ (saw[w].ok => c # CodeOf(w))
                \/ Of(c)' = Of(c) \union {h} /\ saw[w].ok /\ c = CodeOf(w)
    BY <1>1, <1>2 DEF Of, CodeOf, h
  <1>11. \A c \in Code : \/ kpi'[c] = kpi[c] /\ ~(saw[w].ok /\ c = CodeOf(w))
                         \/ kpi'[c] = saw[w].value /\ saw[w].ok /\ c = CodeOf(w)
    BY <1>1, <1>9 DEF Writes
  <1>12. CountsAreExact'
    <2> SUFFICES ASSUME NEW c \in Counts PROVE kpi'[c] = Cardinality(Of(c)')
      BY DEF CountsAreExact
    <2>1. c \in Code /\ kpi[c] = Cardinality(Of(c)) /\ kpi[c] \in Nat
      BY DEF Code, OneIInv, CountsAreExact, IInv, Kinds
    <2>2. CASE saw[w].ok /\ c = CodeOf(w)
      <3>1. kpi'[c] = kpi[c] + 1
        BY <1>1, <1>11, <2>1, <2>2 DEF OneIInv, ValuesAreFresh
      <3>2. Of(c)' = Of(c) \union {h} /\ h \notin Of(c) /\ IsFiniteSet(Of(c))
        BY <1>5, <1>10, <2>2, CountIsFinite DEF Of
      <3> QED BY <2>1, <3>1, <3>2, FS_AddElement
    <2>3. CASE ~(saw[w].ok /\ c = CodeOf(w))
      BY <1>10, <1>11, <2>1, <2>3
    <2> QED BY <2>2, <2>3
  <1>13. GaugesAreLatest'
    <2> SUFFICES ASSUME NEW c \in Gauges, NEW i \in Of(c)' PROVE kpi'[c] >= i
      BY DEF GaugesAreLatest
    <2>1. c \in Code /\ kpi[c] \in Nat
      BY DEF Code, IInv, Kinds
    <2>2. CASE saw[w].ok /\ c = CodeOf(w)
      <3>1. kpi'[c] = h
        BY <1>1, <1>11, <2>1, <2>2 DEF OneIInv, ValuesAreFresh, h
      <3>2. i \in Applied \/ i = h
        BY <1>10 DEF Of
      <3>3. CASE i \in Applied
        <4>1. i < h /\ i \in Nat
          BY <1>5, <3>3
        <4> QED BY <1>3, <3>1, <4>1
      <3>4. CASE i = h
        BY <1>3, <3>1, <3>4
      <3> QED BY <3>2, <3>3, <3>4
    <2>3. CASE ~(saw[w].ok /\ c = CodeOf(w))
      <3>1. kpi'[c] = kpi[c] /\ i \in Of(c)
        BY <1>10, <1>11, <2>1, <2>3
      <3> QED BY <3>1 DEF OneIInv, GaugesAreLatest
    <2> QED BY <2>2, <2>3
  <1> QED BY <1>6, <1>7, <1>8, <1>12, <1>13 DEF OneIInv

LEMMA OneStep == OneWorker /\ IInv /\ OneIInv /\ [Next]_vars => OneIInv'
  <1> SUFFICES ASSUME OneWorker, IInv, OneIInv, [Next]_vars PROVE OneIInv'
    OBVIOUS
  <1>0. \A w \in Worker : held[w] \in Seq(Nat)
    BY DEF IInv, Kinds
  <1>1. ASSUME NEW type \in Type, NEW form \in Form, Publish(type, form) PROVE OneIInv'
    <2>1. /\ log' = Append(log, [type |-> type, form |-> form]) /\ phase' = phase
          /\ held' = held /\ saw' = saw /\ kpi' = kpi /\ applied' = applied /\ attempted' = attempted
      BY <1>1 DEF Publish, worker, database
    <2>2. \A i \in 1..delivered : log'[i] = log[i]
      <3>1. \A i \in 1..Len(log) : log'[i] = log[i]
        BY <2>1, AppendProperties DEF IInv, Kinds
      <3>2. 1..delivered \subseteq 1..Len(log)
        BY LenProperties DEF IInv, Kinds
      <3> QED BY <3>1, <3>2
    <2> QED BY <2>1, <2>2, QuietIsOne
  <1>2. ASSUME NEW w \in Worker, NEW n \in 1..MaxEntries, Read(w, n) PROVE OneIInv'
    <2>1. /\ log' = log /\ saw' = saw /\ kpi' = kpi /\ applied' = applied /\ attempted' = attempted
          /\ \A v \in Worker : v # w => phase'[v] = phase[v] /\ held'[v] = held[v]
          /\ phase'[w] # "dispatched"
          /\ held'[w] = held[w] \/ held'[w] = InOrder(Fresh(n))
          /\ n \in (delivered + 1)..Len(log)
      BY <1>2 DEF Read, database, IInv, Kinds
    <2>2. \A k \in 1..Len(InOrder(Fresh(n))) :
             InOrder(Fresh(n))[k] \in Nat /\ InOrder(Fresh(n))[k] > delivered
      <3>1. \A k \in 1..Len(InOrder(Fresh(n))) : InOrder(Fresh(n))[k] \in (delivered + 1)..n
        BY <2>1, FreshBatch DEF IInv
      <3>2. delivered \in Nat
        BY Behind
      <3> QED BY <3>1, <3>2
    <2>3. \A v \in Worker : \A k \in 1..Len(held'[v]) :
             \/ held'[v][k] \in Nat /\ held'[v][k] > delivered
             \/ \E j \in 1..Len(held[v]) : held'[v][k] = held[v][j]
      BY <2>1, <2>2
    <2> QED BY <2>1, <2>3, QuietIsOne
  <1>3. ASSUME NEW w \in Worker, Dispatch(w) PROVE OneIInv'
    BY <1>3, DispatchIsOne
  <1>4. ASSUME NEW w \in Worker, Commit(w) PROVE OneIInv'
    BY <1>4, CommitIsOne
  <1>5. ASSUME NEW w \in Worker, Fail(w) PROVE OneIInv'
    <2>1. /\ log' = log /\ saw' = saw /\ held' = held /\ kpi' = kpi /\ applied' = applied
          /\ phase' = [phase EXCEPT ![w] = "settled"] /\ attempted \subseteq attempted'
      BY <1>5 DEF Fail, stream
    <2>2. \A v \in Worker : phase'[v] = "dispatched" => phase[v] = "dispatched"
      BY <2>1 DEF IInv, Kinds
    <2> QED BY <2>1, <2>2, QuietIsOne
  <1>6. ASSUME NEW w \in Worker, Ack(w) PROVE OneIInv'
    <2>1. /\ log' = log /\ kpi' = kpi /\ applied' = applied /\ attempted' = attempted
          /\ \A v \in Worker : v # w => phase'[v] = phase[v] /\ held'[v] = held[v] /\ saw'[v] = saw[v]
          /\ phase'[w] # "dispatched"
          /\ held'[w] = Tail(held[w]) \/ held'[w] = <<>>
      BY <1>6 DEF Ack, AfterAck, database, IInv, Kinds
    <2>2. held[w] # <<>>
      BY <1>6 DEF Ack, IInv, BatchesAreHandedOut, Empty
    <2>3. \A k \in 1..Len(Tail(held[w])) : k + 1 \in 1..Len(held[w]) /\ Tail(held[w])[k] = held[w][k + 1]
      BY <1>0, <2>2, Rest
    <2>4. Len(<<>>) = 0
      BY EmptySeq
    <2>5. ASSUME NEW v \in Worker, NEW k \in 1..Len(held'[v])
          PROVE  \E j \in 1..Len(held[v]) : held'[v][k] = held[v][j]
      <3>1. CASE v # w
        BY <2>1, <2>5, <3>1
      <3>2. CASE v = w /\ held'[w] = Tail(held[w])
        BY <2>3, <2>5, <3>2
      <3>3. CASE v = w /\ held'[w] = <<>>
        BY <2>4, <2>5, <3>3
      <3> QED BY <2>1, <3>1, <3>2, <3>3
    <2> QED BY <2>1, <2>5, QuietIsOne
  <1>7. ASSUME NEW w \in Worker, NEW next \in Empty, Abandon(w, next) PROVE OneIInv'
    <2>1. /\ log' = log /\ kpi' = kpi /\ applied' = applied /\ attempted' = attempted
          /\ \A v \in Worker : v # w => phase'[v] = phase[v] /\ held'[v] = held[v] /\ saw'[v] = saw[v]
          /\ phase'[w] # "dispatched"
          /\ held'[w] = <<>>
      BY <1>7 DEF Abandon, stream, database, IInv, Kinds, Empty
    <2>2. Len(<<>>) = 0
      BY EmptySeq
    <2>3. \A v \in Worker : \A k \in 1..Len(held'[v]) : \E j \in 1..Len(held[v]) : held'[v][k] = held[v][j]
      BY <2>1, <2>2
    <2> QED BY <2>1, <2>3, QuietIsOne
  <1>8. CASE UNCHANGED vars
    <2>1. /\ log' = log /\ kpi' = kpi /\ applied' = applied /\ attempted' = attempted
          /\ phase' = phase /\ held' = held /\ saw' = saw
      BY <1>8 DEF vars, stream, worker, database
    <2> QED BY <2>1, QuietIsOne
  <1>9. ASSUME NEW w \in Worker, RedisError(w) \/ Wake(w) \/ Stop(w) \/ Start(w) PROVE OneIInv'
    BY <1>7, <1>9, LettingGo
  <1> QED BY <1>1, <1>2, <1>3, <1>4, <1>5, <1>6, <1>8, <1>9 DEF Next

LEMMA OneHolds == OneWorker => (Spec => []OneIInv)
  <1> SUFFICES ASSUME OneWorker PROVE Spec => []OneIInv
    OBVIOUS
  <1>1. IInv /\ OneIInv /\ [Next]_vars => OneIInv'
    BY OneStep
  <1> QED BY <1>1, OneInit, InvariantHolds, PTL DEF Spec

\* One worker applies the entries of the stream in the order in which they were
\* published, whatever it loses on the way.
THEOREM AppliedInOrderHolds == OneWorker => (Spec => []AppliedInOrder)
  <1> SUFFICES ASSUME OneWorker PROVE Spec => []AppliedInOrder
    OBVIOUS
  <1>1. OneIInv => AppliedInOrder
    BY DEF OneIInv
  <1> QED BY <1>1, OneHolds, PTL

\* With one worker a counting KPI is the number of entries applied, and one that
\* is overwritten never shows an entry older than the latest applied.
THEOREM KpiExactHolds == OneWorker => (Spec => []KpiExact)
  <1> SUFFICES ASSUME OneWorker PROVE Spec => []KpiExact
    OBVIOUS
  <1>1. OneIInv => KpiExact
    BY DEF OneIInv, KpiExact, CountsAreExact, GaugesAreLatest, Of
  <1> QED BY <1>1, OneHolds, PTL
=============================================================================
