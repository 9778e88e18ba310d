SPECIFICATION Spec
CONSTANTS
    t1 = t1
    t2 = t2
    t3 = t3
    t4 = t4
    t5 = t5
    Tasks = {t1, t2, t3, t4, t5}
    SignedReview = {t2}
    PilotTask = t3
    Conflicts <- SomeConflicts
    MaxWorkers <- TwoWorkers
    MaxCorrections = 1
    MaxWakeups = 3
    MaxRuns = 3
    MaxPilots = 1
    MaxCommits = 2
CONSTRAINT
    OneOrAll
INVARIANTS
    TypeOK
    ApprovalsEarned
    OneHolder
    Exclusive
    AdmittedOnce
PROPERTIES
    FencedOut
    PublishesReviewed
