SPECIFICATION FairSpec
CONSTANTS
    Workers = {w1, w2}
    Clients = {c1, c2}
    Jobs = {j1, j2}
    NumGroups = 1
    MaxConcurrency <- MCSerial
    Share <- MCShare
    PrefersWorker = {}
    Required = {}
    Provider = FALSE
    Affinity = FALSE
    Candidates <- MCNoCandidates
    Placed = {}
    Reuses = {}
    CoreOf <- MCNoCores
    NoJob = NoJob
    NoWorker = NoWorker
    NoCpu = NoCpu
PROPERTIES
    NobodyWaitsForEver
CHECK_DEADLOCK FALSE
