SPECIFICATION FairSpec
CONSTANTS
    NumSlots = 3
    Capacity = 1
    MaxUpdates = 2
    MaxPolls = 1
    MaxResizes = 0
    MaxAsks = 1
PROPERTIES
    LoopsGoOn
CHECK_DEADLOCK FALSE
