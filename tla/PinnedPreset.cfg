SPECIFICATION AlgSpec
CONSTANTS
    maxFilters = 2
    maxFilterItems = 4
    maxLimit = 5
    maxFilterValue = 3
    requireNarrowing = TRUE
    Narrowing = {"kinds"}
    LimitNames = {"CONN_RATE", "MAX_SUBS", "MAX_CONNS_PER_NODE", "TIMEOUT"}
    MaxShown = 2
    Forever = 999
INVARIANTS
    PinnedReportsCustom
CHECK_DEADLOCK FALSE
