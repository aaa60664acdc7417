\* Two dispatchers at once.
SPECIFICATION FairSpec
CONSTANTS
    t1 = t1
    t2 = t2
    r1 = r1
    r2 = r2
    r3 = r3
    mail = mail
    slack = slack
    None = None
    Tenant = {t1, t2}
    TenantOf <- MCTenantOf
    RouteTenant <- MCRouteTenant
    Channel = {mail}
    ChannelOf <- MCChannelOf
    Reminder = {r1, r2}
    Route = {mail}
    Dispatcher = {p1, p2}
    MaxCrashes = 1
INVARIANTS
    SentMeansHandedOver
    SendsAreBounded
PROPERTIES
    DispatchSettlesItsList
