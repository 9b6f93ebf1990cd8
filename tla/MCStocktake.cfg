SPECIFICATION Spec
CONSTANTS
    Req = {r1}
    StReq = {c1, c2}
    Item = {i1, i2}
    St = {s1}
    Qty <- MCOneQty
    Actual <- MCActual
    MaxOnHand = 1
    MaxBooked = 2
SYMMETRY MCSymmetry
INVARIANTS
    NonNegative
    LedgerUnlessLost
    ReservedCoveredUnlessIssued
    AdjustedAllOrNothing
PROPERTIES
    ConfirmReachesCountUnlessMoved
