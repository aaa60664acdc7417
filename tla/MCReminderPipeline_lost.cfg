\* One worker dies once, and a run is made every hour: is a planned reminder sent?
SPECIFICATION FairSpec
CONSTANTS
    r1 = r1
    r2 = r2
    At <- MCAt
    Window = 4
    Hour = 2
    MaxTime = 6
    Reminder = {r1}
    Worker = {w1}
    MaxCrashes = 1
PROPERTIES
    PlannedRemindersAreTriggered
