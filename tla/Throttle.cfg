SPECIFICATION Spec
CONSTANTS
    CPUs = {c1, c2}
    Configs <- Settings
    Packet = 4
    NsPerMs = 3
    Modulus = 1024
    Bans = {0, 3}
    MaxTime = 4
    MaxPackets = 4
    MaxEvicted = 1
    MaxChanges = 2
INVARIANTS
    AdmissionBound
PROPERTIES
    BanEnforced
SYMMETRY Symmetry
CHECK_DEADLOCK FALSE
