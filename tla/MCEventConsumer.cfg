SPECIFICATION Spec
CONSTANTS
    Worker = {w1, w2}
    Type <- MCType
    Form <- MCForms
    Batch = 2
    MaxEntries = 3
SYMMETRY MCSymmetry
INVARIANTS
    EffectUnlessFailed
    KpiNotAhead
PROPERTIES
    DeliverySpec
