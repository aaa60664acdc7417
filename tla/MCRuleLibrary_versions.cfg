\* Two publishers at once, which may crash, on two keys; unreadable dates;
\* two kinds of client.
SPECIFICATION Spec
CONSTANTS
    ca = ca
    fed = fed
    c1 = c1
    c2 = c2
    t1 = t1
    t2 = t2
    llc = llc
    corp = corp
    Federal = Federal
    BadDate = BadDate
    NoDeadline = NoDeadline
    NotRegistered = NotRegistered
    JurisdictionOf <- MCJurisdictionOf
    TenantOf <- MCTenantOf
    Tenant = {t1}
    Client = {c1}
    State = {ca}
    Key = {ca, fed}
    EntityType = {llc, corp}
    EntityOf <- MCEntityOf
    Date = {10}
    Publisher = {p1, p2}
    MaxRules = 3
SYMMETRY MCSymmetry
INVARIANTS
    TypeOK
    SupersessionChain
    DueDateComesFromItsRule
    BadDatesOnlyInClosedRows
\* Ends when every rule, tenant and client the bounds allow is there.
CHECK_DEADLOCK FALSE
