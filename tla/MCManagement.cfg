SPECIFICATION MCSpec
CONSTANTS
    u1 = u1
    u2 = u2
    cash1 = cash1
    debt1 = debt1
    sale1 = sale1
    cost1 = cost1
    odd1 = odd1
    v1 = v1
    v2 = v2
    v3 = v3
    v4 = v4
    ap1 = ap1
    ar1 = ar1
    e1 = e1
    e2 = e2
    d1 = d1
    d2 = d2
    d3 = d3
    b1 = b1
    b2 = b2
    ta = ta
    tb = tb
    Req = {r1, r2, r3}
    User = {u1, u2}
    Instance = {i1}
    Config <- MCConfig
    FinReq = {r1, r2}
    Account = {cash1, debt1, sale1, cost1, odd1}
    Type <- MCType
    Voucher = {v1, v2, v3, v4}
    Month <- MCMonth
    Lines <- MCLines
    Bill = {ap1, ar1}
    Side <- MCSide
    Invoiced <- MCInvoiced
    Amount = {0, 1, 2}
    HrReq = {r1, r2}
    Employee = {e1, e2}
    Salary = {4000, 30000}
    Day = {d1, d2, d3}
    Period <- MCPeriod
    Batch = {b1, b2}
    Rows <- MCRows
    Overtime <- MCOvertime
    Scale = 1
    Tenant = {ta, tb}
    Task <- MCTask
    Trigger = {r3}
    SeedKpi = {k1, k2}
    MaxMoves = 1
    Process = {w1, w2}
    Watching = {w1}
    PolicyReq = {r1, r2}
    Rule <- MCRule
SYMMETRY MCSymmetry
INVARIANTS
    NoStepSkipped
    VerdictFromSteps
    NumbersAreDense
    
    PayrollIsSound
    RollupsAreWhole
    MemoryIsRulesUnlessAstray
PROPERTIES
    FinishedUnlessStale
CHECK_DEADLOCK FALSE
