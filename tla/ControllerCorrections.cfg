SPECIFICATION Spec
CONSTANTS
    t1 = t1
    t2 = t2
    t3 = t3
    t4 = t4
    t5 = t5
    Tasks = {t2}
    SignedReview = {t2}
    PilotTask = t3
    Conflicts <- SomeConflicts
    MaxWorkers <- TwoWorkers
    MaxCorrections = 1
    MaxWakeups = 4
    MaxRuns = 4
    MaxPilots = 0
    MaxCommits = 0
INVARIANTS
    CorrectionsLimited
