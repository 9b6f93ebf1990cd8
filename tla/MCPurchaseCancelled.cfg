SPECIFICATION Spec
CONSTANTS
    o1 = o1
    p1 = p1
    p2 = p2
    Req = {r1}
    Request = {}
    Rfq = {}
    Order = {o1}
    Receipt = {c1}
    Line <- MCLine
    Product <- MCProduct
    OrderOf <- MCOrderOf
    ProductOf <- MCProductOf
    Ordered <- MCOrdered
    Delivery <- MCFull
    MaxReceived = 2
SYMMETRY MCSymmetry
PROPERTIES
    TransitionsEnforced
CHECK_DEADLOCK FALSE
