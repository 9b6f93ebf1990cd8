SPECIFICATION MCSpec
CONSTANTS
    o1 = o1
    p1 = p1
    p2 = p2
    Req = {r1, r2}
    Request = {}
    Rfq = {}
    Order = {o1}
    Receipt = {c1, c2}
    Line <- MCLine
    Product <- MCProduct
    OrderOf <- MCOrderOf
    ProductOf <- MCProductOf
    Ordered <- MCOrdered
    Delivery <- MCDelivery
    MaxReceived = 2
    SourcingReq = {r1, r2}
    Supplier = {s1}
    Tier <- MCTier
    TierChange = {c1, c2}
    RatingPeriod = {q1}
    Rated = {50, 80}
    Warehouse = {"w1", "w2"}
    Place = {"z1", "a1", "b1"}
    Source <- MCSource
SYMMETRY MCSymmetry
INVARIANTS
    ReceivedIsDelivered
    ApprovedIsAnnounced
    CompleteIsClosedUnlessMisjudged
    SuppliersAreAsDecided
    MigrationIsWhole
    TreeIsSound
PROPERTIES
    ClosedByReceiptIsComplete
CHECK_DEADLOCK FALSE
