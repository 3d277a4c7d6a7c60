\* a job, two failures and a request in a session; four works of a stream
CONSTANTS
    Jobs = {"job"}
    Modes = {"sequential", "concurrent"}
    MaxFailures = 2
    MaxRequests = 1
    Works = {"w1", "w2", "w3", "w4"}
    Nobody = "nobody"
SPECIFICATION Spec
INVARIANTS
    TornDownInOrder
    LifecycleIsTrue
    OneOwner
PROPERTIES
    IsSerialStream
    TurnsEnd
CHECK_DEADLOCK FALSE
