\* one input context over two polls, and two focus requests that may race; two voices, of which the first plays
\* first and alone may loop, and an outbox of one record; texts of up to five scalars; three texts asked for; two
\* sessions over two records in batches of up to two, and four uploads
CONSTANTS
    Contexts = {"c"}
    Direct <- MCDirect
    Local <- MCLocal
    MaxPolls = 2
    MaxEvents = 2
    Policies <- MCPolicies
    MaxAll = 3
    Voices = {1, 2}
    Capacity = 1
    MaxSequence = 3
    MaxGeneration = 2
    Faces <- MCFaces
    Advance <- MCAdvance
    MissingAdvance = 3
    Texts <- MCTexts
    Widths = {0, 2, 3, 5}
    Directions = {TRUE, FALSE}
    GlyphSize <- MCGlyphSize
    Strings <- MCStrings
    Extents = {4, 5, 6}
    TextRequests <- MCRequests
    MaxTextRevision = 6
    Configurations <- MCConfigurations
    Groups = {"body", "other"}
    References = {"s", "t"}
    Embedded = "builtin"
    Sessions = {"a", "b"}
    Rml = {"a"}
    MaxEpoch = 2
    MaxPolled = 2
    BatchSize = 2
    Textures = {"t", "s"}
    MaxImages = 4
    Disks <- MCDisks
    Selections <- MCSelections
    Automatic <- MCAutomatic
    Builtin <- MCBuiltin
    Backends <- MCBackends
    FixedHeights <- MCHeights
    Glyphs <- MCGlyphs
    InitialSize = 16
    MaxGlyphs = 4
    TargetViews <- MCTargetViews
    Rects <- MCRects
    Scissors <- MCScissors
    Atlases = {"i"}
    Pictures = {"i", "j"}
    MaxDraws = 2
    MaxLayers = 2
    MaxHandles = 2
    MaxShapes = 1
    MaxLoads = 2
    TextFonts <- MCTextFonts
    Lowered <- MCLowered
    OwnFamilies <- MCOwnFamilies
    MaxFallbacks = 6
    Clocks = {"g", "d"}
    MaxDelta = 1
    MaxSteps = 2
    MaxFollows = 3
    Addresses = {1}
    Fractions = {1, 2}
    ParentSizes = {1, 2}
    MaxWidgets = 3
SPECIFICATION Spec
INVARIANTS
    InputIsComplete
    PlaybackIsReported
    TextIsShown
    NewestWins
    ToolkitsStayApart
CHECK_DEADLOCK FALSE
