CONSTANTS
    q = q
    o1 = o1
    o2 = o2
    Changes = {u, a}
    Workers = {w1}
    Stagers = {s1, s2}
    Orgs = {o1}
    OrgOf <- MCOrgOf
    MaxPending = 1
    HasBlob = {u}
    StableId = {a}
    Destructive = {}
    Proxmox = {}
    NoChange = NoChange
SPECIFICATION FairSpec
PROPERTIES
    ImplementsIntent
    ApplyingResolves
