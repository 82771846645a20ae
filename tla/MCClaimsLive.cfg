SPECIFICATION FairSpec
CONSTANTS
    Changes = {a, b}
    Workers = {w1, w2}
    Controllers = {k1}
    CtlOf <- MCCtlOf
    KindOf <- LiveKinds
    VmOf <- LiveVm
    StopTarget <- LiveStop
    NoVm = NoVm
    NoChange = NoChange
    a = a
    b = b
    s = s
    k1 = k1
    g1 = g1
PROPERTIES ClaimsImplementIntent ClaimEnds PendingSettles
CHECK_DEADLOCK FALSE
