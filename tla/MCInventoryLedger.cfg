SPECIFICATION InvSpec
CONSTANTS
    Req = {r1, r2}
    Item = {i1}
    Qty <- MCQty
    MaxOnHand = 3
    MaxBooked = 3
SYMMETRY MCSymmetry
INVARIANTS
    LedgerExact
