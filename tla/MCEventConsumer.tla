--------------------------- MODULE MCEventConsumer ---------------------------
(* Instances of EventConsumer: a short stream and one or two workers.        *)
EXTENDS EventConsumer, TLC

\* Two workers: an AP record, a counting KPI and a type without a handler.
MCType     == {"po.approved", "hazard.reported", "equipment.fault"}
\* One worker: a counting and an overwriting KPI.
MCLiveType == {"hazard.reported", "oee.calculated"}
MCForms    == {"documented", "string"}
\* The loss of entries needs one type that is always accepted.
MCCounts   == {"hazard.reported"}
MCAccepted == {"documented"}

\* The order event as the purchase service publishes it.
MCScm      == {"po.approved"}
MCString   == {"string"}

MCSymmetry == Permutations(Worker)
=============================================================================
