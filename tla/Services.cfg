\* a gamepad of five revisions; two logs, two
\* callers and a queue of one record; two adjacent owners of memory; two handles
\* over three names; a clock of 22 instants; two views and two threads; three
\* unequal groups; five machines of three CPUs that are restricted twice; three
\* instants, two drops and two watches of a runtime's pressure; two
\* builders of three slots; three threads that share a value; two
\* terminals to try and two writes; windows of two sizes, changed twice
CONSTANTS
    MaxGamepadRevision = 5
    Logs = {"x", "y"}
    Callers = {"a", "b"}
    QueueCapacity = 1
    BlocksWhenFull = FALSE
    MaxGeneration = 2
    MaxRecords = 2
    Requesters = {"a", "b"}
    Base <- MCBase
    Lengths = {3}
    MaxCount = 2
    Handles = {"g", "h"}
    Names = {1, 2, 3}
    SamplerOptions = {"near"}
    MaxTracked = 3
    MaxTime = 10
    Options <- MCOptions
    Starts <- MCStarts
    Watches = {"v1", "v2"}
    Threads = {"owner", "other"}
    Owner = "owner"
    MaxRevision = 2
    MaxDepth = 4
    NumGroups = 3
    Share <- MCShare
    Machines <- MCMachines
    Snapshots <- MCSnapshots
    Documents <- MCDocuments
    GroupNames = {"g"}
    MaxWeight = 4
    MaxPriority = 7
    MaxRestrictions = 2
    PressureWatches = {"u", "v"}
    ReportEvery = 1
    Threshold = 1
    MaxClock = 2
    MaxDrops = 2
    SlotCount = 3
    Builders = {"d", "e"}
    MaxThrows = 1
    MaxReserved = 2
    Sharers = {"s", "t", "u"}
    Values = {1, 2}
    Observers = 2
    MaxSets = 2
    MaxFailures = 1
    Emulators = 2
    MaxLooks = 2
    MaxWrites = 2
    Sizes = {1, 2}
    MonitorSize = 3
    Hosts = {"h1", "h2"}
    MaxRequests = 2
    MaxNative = 1
    MaxFaults = 2
SPECIFICATION Spec
INVARIANTS
    NoneLeftBehind
    OutputEndsClean
    MemoryIsSafe
    NativeIsAccountedFor
    GroupsGetTheirShare
    TimeIsKept
    WatchesFollow
PROPERTIES
    RevisionsInOrder
    OnTime
CHECK_DEADLOCK FALSE
