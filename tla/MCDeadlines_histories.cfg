\* Two deadlines of two tenants, two concurrent runs of resume_due_snoozes.
SPECIFICATION Spec
CONSTANTS
    d1 = d1
    d2 = d2
    t1 = t1
    t2 = t2
    p1 = p1
    p2 = p2
    Deadline = {d1, d2}
    Tenant = {t1, t2}
    TenantOf <- MCTenantOf
    Date <- MCDate
    Offset <- MCOffset
    Instant <- MCInstant
    Resumer = {p1, p2}
    NoDate = NoDate
    MaxEvents <- MCMaxEvents
SYMMETRY MCSymmetry
INVARIANTS
    TypeOK
    ClosedDeadlinesAreQuiet
    RemindersFollowDueDate
    NoReminderIsLost
    TransitionLogExplainsStatus
    AuditExplainsDueDate
    LogsAgree
    OverrideSticks
PROPERTIES
    SettledRemindersStay
    ImplementsBoard
