SPECIFICATION Spec
CONSTANTS
    cfg <- SessionCfg
    Frames <- SessionFrames
    Grammar <- PolicyGrammar
    MAX_HANDSHAKE = 90
    MAX_PENDING_FRAMES = 1
    MAX_FRAGMENTS = 2
    MAX_CONTROL = 1
    HsLen = 2
    HsClasses = {"ws", "plain", "bare-lf"}
    ReadSizes = {}
    Replies = {"101"}
    EngineErrors = TRUE
    BanEvents = TRUE
    Ticks = {1000}
    MaxFrames = 3
    MaxInFlight = 1
    MaxDown = 1
    MaxTime = 2000
    maxFilters = 2
    maxFilterItems = 4
    maxLimit = 5
    maxFilterValue = 3
    requireNarrowing = TRUE
    Narrowing = {"kinds", "ids", "since"}
INVARIANTS
    PolicyHolds
    SubsAccounted
    RatesHold
    OneVerdictPerCut
PROPERTIES
    BanCutsWithinRecheck
CHECK_DEADLOCK FALSE
