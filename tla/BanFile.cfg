SPECIFICATION FairFileSpec
CONSTANTS
    Ips = {a, b}
    Ttls = {0, 1}
    Procs = {p1, p2}
    Sessions = {s1}
    ReadFaults = TRUE
    VolumeLoss = TRUE
    MaxTime = 2
    MaxOps = 2
    None = None
INVARIANTS
    FileTypeOK
    TmpFromCurrent
PROPERTIES
    KeepsRegistry
    ChecksAreFresh
    EveryRunEnds
CHECK_DEADLOCK FALSE
