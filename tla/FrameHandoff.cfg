SPECIFICATION Spec
CONSTANTS
    NumSlots = 3
    Capacity = 1
    MaxUpdates = 4
    MaxPolls = 1
    MaxResizes = 1
    MaxAsks = 0
INVARIANTS
    SharedStateIsSound
PROPERTIES
    IsLatestFrame
CHECK_DEADLOCK FALSE
