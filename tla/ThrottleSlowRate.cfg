SPECIFICATION Spec
CONSTANTS
    CPUs = {c1}
    Configs <- SlowRate
    Packet = 4
    NsPerMs = 2
    Modulus = 1024
    Bans = {}
    MaxTime = 10
    MaxPackets = 5
    MaxEvicted = 0
    MaxChanges = 0
INVARIANTS
    DroppedOnlyOverRate
CHECK_DEADLOCK FALSE
