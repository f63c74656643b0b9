SPECIFICATION FairSpec
CONSTANTS
    cfg <- BaseCfg
    Frames <- StreamFrames
    Grammar <- FramingGrammar
    MAX_HANDSHAKE = 24
    MAX_PENDING_FRAMES = 3
    MAX_FRAGMENTS = 2
    MAX_CONTROL = 1
    HsLen = 3
    HsClasses = {"ws"}
    ReadSizes = {1, 7}
    Replies = {}
    EngineErrors = FALSE
    BanEvents = FALSE
    Ticks = {}
    MaxFrames = 3
    MaxInFlight = 2
    MaxDown = 0
    MaxTime = 0
    maxFilters = 2
    maxFilterItems = 4
    maxLimit = 5
    maxFilterValue = 3
    requireNarrowing = TRUE
    Narrowing = {"kinds", "ids", "since"}
INVARIANTS
    RelayReassembles
    OnlyApprovedUpstream
    PromptDecision
    HeldBytesBounded
PROPERTIES
    EveryFrameDecided
CHECK_DEADLOCK FALSE
