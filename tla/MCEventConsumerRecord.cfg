SPECIFICATION Spec
CONSTANTS
    Worker = {w1}
    Type <- MCScm
    Form <- MCString
    Batch = 2
    MaxEntries = 1
INVARIANTS
    RecordIsCreated
