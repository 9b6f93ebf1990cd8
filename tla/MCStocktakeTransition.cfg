SPECIFICATION Spec
CONSTANTS
    Req = {}
    StReq = {c1}
    Item = {i1}
    St = {s1}
    Qty <- MCOneQty
    Actual <- MCActual
    MaxOnHand = 2
    MaxBooked = 2
SYMMETRY MCSymmetry
INVARIANTS
    ConfirmedIsAdjusted
CHECK_DEADLOCK FALSE
