SPECIFICATION Spec
CONSTANTS
    Procs = {p1, p2}
    TTL = 1
    EnvDefault = FALSE
PROPERTIES GateNeverFailsOpen
