SPECIFICATION FairSpec
CONSTANTS
    Procs = {p1}
    Timer = t
    Configs <- MCConfigs
    MaxAge = 1
    MaxTime = 3
    MaxOps = 2
    MaxFaults = 2
INVARIANTS
    NotOrphaned
    HealthMeansEnforced
PROPERTIES
    RepairKeepsThrottle
    WatchdogRepairs
