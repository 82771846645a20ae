SPECIFICATION Spec
CONSTANTS
    Changes = {a, b, s}
    Workers = {w1, w2}
    Controllers = {k1}
    CtlOf <- MCCtlOf
    KindOf <- MixKinds
    VmOf <- MixVm
    StopTarget <- MixStop
    NoVm = NoVm
    NoChange = NoChange
    a = a
    b = b
    s = s
    k1 = k1
    g1 = g1
INVARIANTS NoOverlap GuestSerial BlockedIsClosable ResultIsObserved
SYMMETRY WorkerSymmetry
CHECK_DEADLOCK FALSE
