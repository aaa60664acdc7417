\* Two publishers, no crash: is what the later refresh leaves up to date?
SPECIFICATION Spec
CONSTANTS
    ca = ca
    fed = fed
    c1 = c1
    c2 = c2
    t1 = t1
    t2 = t2
    llc = llc
    corp = corp
    Federal = Federal
    BadDate = BadDate
    NoDeadline = NoDeadline
    NotRegistered = NotRegistered
    JurisdictionOf <- MCJurisdictionOf
    TenantOf <- MCTenantOf
    Tenant = {t1, t2}
    Client = {c1, c2}
    State = {ca}
    Key = {ca}
    EntityType = {llc}
    EntityOf <- MCOneEntity
    Date = {10, 12}
    Publisher = {p1, p2}
    MaxRules = 2
INVARIANTS
    RefreshedMeansCurrent
\* Ends when every rule, tenant and client the bounds allow is there.
CHECK_DEADLOCK FALSE
