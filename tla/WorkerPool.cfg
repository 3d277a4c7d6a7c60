SPECIFICATION Spec
CONSTANTS
    Workers = {w1, w2}
    Clients = {c1}
    Jobs = {j1, j2}
    NumGroups = 2
    MaxConcurrency <- MCMaxConcurrency
    Share <- MCShare
    PrefersWorker <- MCPrefers
    Required = {1}
    Provider = TRUE
    Affinity = TRUE
    Candidates <- MCCandidates
    Placed = {1, 2}
    Reuses = {1}
    CoreOf <- MCCoreOf
    NoJob = NoJob
    NoWorker = NoWorker
    NoCpu = NoCpu
SYMMETRY Interchangeable
INVARIANTS
    Conservation
    ResourcesHeld
    NoWorkAbandoned
PROPERTIES
    ImplementsService
CHECK_DEADLOCK FALSE
