SPECIFICATION PartsSpec
CONSTANTS
    Rate = 1
    Burst = 3
    Steps = {300, 400}
    BackSteps = {600}
    MaxTime = 1100
    MaxTakes = 4
    Alphabet = {"CR", "LF", "B", "U"}
    StreamLen = 8
    MaxOdd = 1
    maxHsReads = 3
    MAX_HANDSHAKE = 7
    MaxRequestLine = 3
    MaxHeaderBytes = 5
    MaxHeaders = 3
    MaxTailBytes = 6
    MaxTailLines = 2
    Asked = {0, 1, 2}
    MaxLog = 4
    MaxConns = 1
    maxFilters = 2
    maxFilterItems = 4
    maxLimit = 5
    maxFilterValue = 3
    requireNarrowing = TRUE
    Narrowing = {"kinds"}
    LimitNames = {"CONN_RATE", "MAX_SUBS", "MAX_CONNS_PER_NODE", "TIMEOUT"}
    MaxShown = 2
    Forever = 999
INVARIANTS
    TypeOK
    AdmissionBound
    RefusedOnlyOverRate
    SameAsWholeScan
    ReadBounded
    TailIsRecent
    AcceptsExactlyWithinBudget
    TargetUnderstood
    NothingBreaksOut
    LimitsWithTheirService
    StatusHonest
    BestCompiler
PROPERTIES
    EveryConnectionEnds
CHECK_DEADLOCK FALSE
