\* Two processes that fetch, ingest or add rules; one tenant and one client.
SPECIFICATION Spec
CONSTANTS
    ca = ca
    strayTax = strayTax
    stateCa = stateCa
    c1 = c1
    t1 = t1
    llc = llc
    Federal = Federal
    BadDate = BadDate
    NoDeadline = NoDeadline
    NotRegistered = NotRegistered
    NoText = NoText
    NoSource = NoSource
    Key <- MCKey
    State = {ca}
    JurisdictionOf <- MCJurisdictionOf
    EntityType = {llc}
    Client = {c1}
    EntityOf <- MCEntityOf
    Tenant = {t1}
    TenantOf <- MCTenantOf
    Date = {10, 12}
    Publisher = {p1, p2}
    MaxRules = 2
    Text <- MCText
    Command <- MCCommand
    Value <- MCValue
    KeyIn <- MCKeyIn
    EntitiesIn <- MCEntitiesIn
    DateIn <- MCDateIn
    Absent = Absent
    Empty = Empty
    Registry = {stateCa}
    Source = {stateCa, unknown}
    StateSource <- MCStateSource
    MaxReviews = 1
SYMMETRY MCSymmetry
INVARIANTS
    TypeOK
    NoTwoFetchesShare
    RecordedMeansRefreshed
    IncompleteTextsAreReviewed
PROPERTIES
    FetchedAgainMovesNothing
\* Ends when every rule, review, tenant and client the bounds allow is there.
CHECK_DEADLOCK FALSE
