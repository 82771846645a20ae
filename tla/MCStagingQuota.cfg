CONSTANTS
    q = q
    o1 = o1
    o2 = o2
    Changes = {u, a, b, q}
    Workers = {}
    Stagers = {s1, s2}
    Orgs = {o1, o2}
    OrgOf <- MCOrgOf
    MaxPending = 1
    HasBlob = {u}
    StableId = {a}
    Destructive = {a}
    Proxmox = {a}
    NoChange = NoChange
SPECIFICATION Spec
INVARIANT QuotaOvershoot
