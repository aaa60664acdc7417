\* One dispatcher that may die twice, two tenants.
SPECIFICATION Spec
CONSTANTS
    t1 = t1
    t2 = t2
    r1 = r1
    r2 = r2
    r3 = r3
    mail = mail
    slack = slack
    None = None
    Tenant = {t1, t2}
    TenantOf <- MCTenantOf
    RouteTenant <- MCRouteTenant
    Channel = {mail, slack}
    ChannelOf <- MCChannelOf
    Reminder = {r1, r2, r3}
    Route = {mail, slack}
    Dispatcher = {p1}
    MaxCrashes = 2
INVARIANTS
    TypeOK
    ListedIsPending
    OnlyRecordedIsSent
PROPERTIES
    SentIsFinal
