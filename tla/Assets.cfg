\* a directory of seven files that is edited twice; two providers and three
\* batches; a catalogue of two keys, two producers and one watch; manifests
\* around the limits; frames of two draws
CONSTANTS
    Versions <- MCVersions
    Named <- MCNamed
    Original <- MCOriginal
    Enclosed = {"ind", "fx", "art", "v", "f", "p", "q"}
    Selections <- MCSelections
    MaxInt = 3
    MaxEdits = 2
    Providers = {"p", "q"}
    Batches <- MCBatches
    MaxPending = 1
    MaxAttempts = 2
    MaxLoads = 1
    Keys = {"k", "l"}
    Producers = {"a", "b"}
    Watches = {"w"}
    OutboxSize = 1
    MaxRevision = 3
    Entries <- MCEntries
    SamplesOf <- MCSamplesOf
    MaxSize = 8
    MaxCells = 7
    MaxDuration = 100
    Seeds = {1}
    MaxPlay = 6
    Candidates <- MCCandidates
    Geometries <- MCGeometries
    Images <- MCImages
    Styles <- MCStyles
    PassSettings <- MCPasses
    UnitLimit = 2
    Framebuffers <- MCFramebuffers
    MaxDraws = 2
SPECIFICATION Spec
INVARIANTS
    LoadedAsPrepared
    WatchFollowsCatalogue
    TilesAreSound
    DrawnAsAsked
CHECK_DEADLOCK FALSE
