---------------------------- MODULE EventDelivery ----------------------------
(***************************************************************************)
(* What the consumer of an event stream really promises: entries are       *)
(* appended and never removed, and each of them is settled at most once,   *)
(* by being applied to the database or by being dropped.  Nothing says     *)
(* that an entry is applied; nothing is ever applied twice or after it has *)
(* been dropped.                                                           *)
(***************************************************************************)
EXTENDS Naturals

VARIABLES
    appended,  \* how many entries the stream has
    settled,   \* entries whose fate is decided
    applied    \* entries whose effect is in the database

vars == <<appended, settled, applied>>

Init ==
    /\ appended = 0
    /\ settled = {}
    /\ applied = {}

Append ==
    /\ appended' = appended + 1
    /\ UNCHANGED <<settled, applied>>

\* Several entries can be dropped together (a batch lost in a crash); at most
\* one is applied by a commit.
Settle(entries, kept) ==
    /\ entries \subseteq (1..appended) \ settled
    /\ kept \subseteq entries
    /\ \A i, j \in kept : i = j
    /\ settled' = settled \union entries
    /\ applied' = applied \union kept
    /\ UNCHANGED appended

Next ==
    \/ Append
    \/ \E entries \in SUBSET ((1..appended) \ settled) :
          \E kept \in SUBSET entries : Settle(entries, kept)

Spec == Init /\ [][Next]_vars
=============================================================================
