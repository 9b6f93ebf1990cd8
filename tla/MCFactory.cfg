SPECIFICATION MCSpec
CONSTANTS
    w1 = w1
    p1 = p1
    p2 = p2
    p3 = p3
    m1 = m1
    pl1 = pl1
    pl2 = pl2
    j1 = j1
    Req = {r1, r2}
    Order = {w1}
    Ticket = {t1, t2}
    OrderOf <- MCOrderOf
    Planned <- MCPlanned
    WithBom = {w1}
    Qty <- MCQty
    PlmReq = {r1, r2}
    Product = {p1, p2, p3}
    Ecn = {e1}
    EcnProduct <- MCEcnProduct
    Operation = {op1}
    File = {f1}
    Content = {x1, x2}
    FirstBom = {1}
    MaxVersion = 2
    Item <- MCItem
    SafetyReq = {r1, r2}
    Danger = {h1}
    MaxOpened = 6
    PlantReq = {r1, r2}
    Machine = {m1}
    Plan = {pl1, pl2}
    PlanFor <- MCPlanFor
    IntervalDays <- MCIntervalDays
    MaxDay = 2
    FaultSpan <- MCFaultSpan
    DaySlots = 2
    Job = {j1, j2, j3}
    Station = {1, 2}
    Due = {1, 2}
    Hours <- MCHours
    Capacity <- MCCapacity
SYMMETRY MCSymmetry
INVARIANTS
    CompletedIsReported
    ReachedIsAnnounced
    StructureIsSound
    VersionsAreSound
    HazardsAreTold
    UpkeepIsSound
    ScheduleIsGreedy
CHECK_DEADLOCK FALSE
