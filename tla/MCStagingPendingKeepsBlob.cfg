CONSTANTS
    q = q
    o1 = o1
    o2 = o2
    Changes = {u, q}
    Workers = {w1}
    Stagers = {s1}
    Orgs = {o1, o2}
    OrgOf <- MCOrgOf
    MaxPending = 2
    HasBlob = {u}
    StableId = {}
    Destructive = {}
    Proxmox = {}
    NoChange = NoChange
SPECIFICATION Spec
INVARIANT PendingKeepsBlob
