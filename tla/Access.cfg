SPECIFICATION Spec
CONSTANTS
    ssh = ssh
    relay = relay
    web = web
    Ports = {ssh, relay, web}
    Nodes = {n}
    policy <- MCPolicy
    MaxTime = 3
    MaxConns = 4
    MaxEvicted = 1
    MaxChanges = 2
INVARIANTS
    RefusedOnlyOverOwnRate
    AcceptedBound
    MissingListIsSaid
CHECK_DEADLOCK FALSE
