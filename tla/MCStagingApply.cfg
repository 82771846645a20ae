CONSTANTS
    q = q
    o1 = o1
    o2 = o2
    Changes = {u, p}
    Workers = {w1, w2}
    Stagers = {s1}
    Orgs = {o1, o2}
    OrgOf <- MCOrgOf
    MaxPending = 2
    HasBlob = {u}
    StableId = {p}
    Destructive = {p}
    Proxmox = {p}
    NoChange = NoChange
SYMMETRY RequestSymmetry
SPECIFICATION Spec
INVARIANTS
    AtMostOnce
    OutcomeIsTrue
    AppliedEventIsTrue
    DropIsFinal
PROPERTIES
    StatusMoves
