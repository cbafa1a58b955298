SPECIFICATION FairSpec
CONSTANTS
    Services = {s1, s2}
    Conns = {k1}
    MAX_PENDING_OPS = 2
    MAX_ACTIVITY_STACK = 3
    MAX_SERVICES = 1
    MAX_CONNECTIONS = 2
    Apps <- MCApps
    MaxCalls = 4
CHECK_DEADLOCK FALSE
INVARIANTS SettledAtRest LocalsRooted
PROPERTIES ContractSpec LoopProgress
