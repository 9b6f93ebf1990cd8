SPECIFICATION FairSpec
CONSTANTS
    Worker = {w1}
    Type <- MCLiveType
    Form <- MCForms
    Batch = 2
    MaxEntries = 3
INVARIANTS
    AppliedInOrder
    KpiExact
PROPERTIES
    EverySettled
