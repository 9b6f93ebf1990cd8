------------------------------ MODULE MCFactory -------------------------------
(* The factory in one run: work orders, product structure, safety hazards,   *)
(* equipment and scheduling.  They share no row, so that their interleavings *)
(* add nothing: `part` says which of them moves in a behaviour, and for the  *)
(* product structure and the equipment also which of its features, so that   *)
(* each is checked with the instance it needs (three products for a          *)
(* structure, two contents for a file).                                      *)
EXTENDS WorkOrder, ProductStructure, Safety, Equipment, Scheduling, TLC

CONSTANTS w1, p1, p2, p3, m1, pl1, pl2, j1

VARIABLE part

MCOrderOf(t) == w1
MCPlanned(w) == 2
MCQty        == {0, 1, 2}

MCEcnProduct(e)  == p1
\* A line without a price, and two that differ in quantity and price.
MCItem == {[quantity |-> 2, cost |-> Unknown], [quantity |-> 1, cost |-> 2],
           [quantity |-> 3, cost |-> 1]}
MCItemFor(p) == {i \in MCItem : \/ i.cost = 2
                                \/ p = p1 /\ i.cost = Unknown
                                \/ p = p3 /\ i.cost = 1}

MCPlanFor(p)      == m1
MCIntervalDays(p) == IF p = pl1 THEN 1 ELSE 2
\* Faults one after the other, overlapping, still going on, around others, and
\* one that ends before it starts.
MCFaultSpan       == {<<0, 2>>, <<1, 3>>, <<3, Ongoing>>, <<0, 5>>, <<4, 1>>}

\* An order that took less than no time, and a station with less than no slot.
MCHours    == {-2, 0, 1, 3}
MCCapacity == {-1, 0, 1, 2}

StructureParts == {"parts", "versions", "files"}
EquipmentParts == {"upkeep", "faults"}

MCInit ==
    /\ Init
    /\ StructureInit
    /\ SafetyInit
    /\ EquipmentInit
    /\ part \in {"orders", "safety", "schedule"} \union StructureParts \union EquipmentParts
    /\ SchedulingInit
    \* One schedule is enough where nothing is scheduled.
    /\ part # "schedule" => /\ \A j \in Job : due[j] = 1 /\ hours[j] = 1
                            /\ \A s \in Station : capacity[s] = 1

\* Three lines; a second session comes in as long as there is at most one.
LinesBound ==
    /\ Cardinality(parts') <= 3
    /\ Cardinality(editing') <= 1 \/ Cardinality(parts') <= 1
    /\ \A t \in editing' : t.stage = "adding" => t.item \in MCItemFor(t.part)

\* What each part leaves alone; the bounds of the instance.
StructureBound ==
    CASE part = "parts"    -> /\ \A p \in Product : current'[p] <= 1
                              /\ LinesBound
                              /\ <<routings, ecn, objects>>' = <<routings, ecn, objects>>
      [] part = "versions" -> /\ current'[p2] <= 1 /\ current'[p3] = 0
                              /\ \A t \in editing' : t.stage = "adding" =>
                                     /\ t.item.cost = 2
                                     /\ NextNo(t.bill)' = 1
                              /\ \A b \in boms' \union routings' : b[1] = p1
                              /\ objects' = objects
      [] part = "files"    -> /\ current'[p2] = 0 /\ current'[p3] = 0
                              /\ <<boms, routings, ecn>>' = <<boms, routings, ecn>>

EquipmentBound ==
    CASE part = "upkeep" -> faults' = {} /\ alarms' = alarms /\ machine'[m1] \in {"none", "idle"}
      [] part = "faults" -> jobs' = {} /\ day' = 0 /\ Cardinality(faults') <= 3

MCNext ==
    /\ UNCHANGED part
    /\ \/ /\ part = "orders" /\ Next
          /\ UNCHANGED <<structureVars, safetyVars, equipmentVars, schedulingVars>>
       \/ /\ part \in StructureParts /\ StructureNext /\ StructureBound
          /\ UNCHANGED <<vars, safetyVars, equipmentVars, schedulingVars>>
       \/ /\ part = "safety" /\ SafetyNext
          /\ UNCHANGED <<vars, structureVars, equipmentVars, schedulingVars>>
       \/ /\ part \in EquipmentParts /\ EquipmentNext /\ EquipmentBound
          /\ UNCHANGED <<vars, structureVars, safetyVars, schedulingVars>>
       \/ /\ part = "schedule" /\ SchedulingNext
          /\ UNCHANGED <<vars, structureVars, safetyVars, equipmentVars>>

MCSpec ==
    MCInit /\ [][MCNext]_<<vars, structureVars, safetyVars, equipmentVars, schedulingVars, part>>

\* The parts use the same requests.
MCSymmetry == Permutations(Req) \union Permutations(Ticket)
=============================================================================
