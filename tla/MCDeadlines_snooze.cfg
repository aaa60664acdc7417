\* Do reminders keep coming while their deadline is snoozed?
SPECIFICATION Spec
CONSTANTS
    d1 = d1
    d2 = d2
    t1 = t1
    t2 = t2
    p1 = p1
    p2 = p2
    Deadline = {d1}
    Tenant = {t1}
    TenantOf <- MCTenantOf
    Date <- MCDate
    Offset <- MCOffset
    Instant <- MCInstant
    Resumer = {p1}
    NoDate = NoDate
    MaxEvents <- MCMaxEvents
PROPERTIES
    SnoozeDefersReminders
