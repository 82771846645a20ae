SPECIFICATION FairSpec
CONSTANTS
    Procs = {p1, p2}
    TTL = 1
    EnvDefault = TRUE
INVARIANTS MonitorOnlyHolds
PROPERTIES GateConverges
