SPECIFICATION Spec
CONSTANTS
    t1 = t1
    t2 = t2
    t3 = t3
    t4 = t4
    t5 = t5
    Tasks = {t1}
    SignedReview = {}
    PilotTask = t3
    Conflicts <- SomeConflicts
    MaxWorkers <- TwoWorkers
    MaxCorrections = 1
    MaxWakeups = 1
    MaxRuns = 1
    MaxPilots = 0
    MaxCommits = 0
PROPERTIES
    ExpiredRunsStop
