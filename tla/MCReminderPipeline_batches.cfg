\* Two overlapping workers, of which one may die in the middle of a run.
SPECIFICATION FairSpec
CONSTANTS
    r1 = r1
    r2 = r2
    At <- MCAt
    Window = 2
    Hour = 2
    MaxTime = 6
    Reminder = {r1, r2}
    Worker = {w1, w2}
    MaxCrashes = 1
INVARIANTS
    ClaimedJobsAreInHand
    CompletedJobsAreDone
    NoJobInTwoHands
PROPERTIES
    TriggeredUnlessARunDies
    TriggeredInTime
