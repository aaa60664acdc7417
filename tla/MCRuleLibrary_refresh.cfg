\* One publisher at a time, which may crash; new versions at any point.
SPECIFICATION FairSpec
CONSTANTS
    ca = ca
    fed = fed
    c1 = c1
    c2 = c2
    t1 = t1
    t2 = t2
    llc = llc
    corp = corp
    Federal = Federal
    BadDate = BadDate
    NoDeadline = NoDeadline
    NotRegistered = NotRegistered
    JurisdictionOf <- MCJurisdictionOf
    TenantOf <- MCTenantOf
    Tenant = {t1, t2}
    Client = {c1, c2}
    State = {ca}
    Key = {ca}
    EntityType = {llc}
    EntityOf <- MCOneEntity
    Date = {10, 12}
    Publisher = {p1}
    MaxRules = 2
INVARIANTS
    RefreshedMeansCurrent
PROPERTIES
    NeverBackToOlderRule
    OnlyPresentStatesMove
    RuleReachesItsClients
\* Ends when every rule, tenant and client the bounds allow is there.
CHECK_DEADLOCK FALSE
