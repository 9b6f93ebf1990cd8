SPECIFICATION FairSpec
CONSTANTS
    Worker = {w1}
    Type <- MCCounts
    Form <- MCAccepted
    Batch = 2
    MaxEntries = 3
PROPERTIES
    AtLeastOnce
