SPECIFICATION WrapSpec
CONSTANTS
    Ips = {a, b}
    Procs = {p1, p2}
    Ttls = {0, 1}
    Capacity = 1
    MaxTime = 3
    MaxOps = 3
INVARIANTS
    BackendsAgree
PROPERTIES
    KeepsRegistryAlone
    FailsOnlyForCause
SYMMETRY Symmetry
CHECK_DEADLOCK FALSE
