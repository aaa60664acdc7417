\* Two tenants, one route, one dispatcher that may die, one rollback.
SPECIFICATION Spec
CONSTANTS
    d1 = d1
    t1 = t1
    t2 = t2
    d2 = d2
    mail = mail
    Deadline = {d1, d2}
    Tenant = {t1, t2}
    TenantOf <- MCTenantOf
    Date <- MCDate
    Offset <- MCOffset
    Instant <- MCInstant
    Resumer = {p1}
    NoDate = NoDate
    MaxEvents <- MCMaxEvents
    Route = {mail}
    RouteTenant <- MCRouteTenant
    Channel = {mail}
    ChannelOf <- MCChannelOf
    Dispatcher = {s1}
    None = None
    MaxCrashes = 1
    MaxBuilds <- MCMaxBuilds
    MaxRollbacks = 1
INVARIANTS
    TextFitsItsReminder
    StaleTextIsOfAnEarlierBuild
    EventsMatchTriggers
PROPERTIES
    NoMessageIsWrittenWhenClosed
    ImplementsNotifications
