SPECIFICATION Spec
CONSTANTS
    t1 = t1
    t2 = t2
    c1 = c1
    c2 = c2
    Tasks = {t1, t2}
    NoTask = NoTask
    Callers = {c1, c2}
    MaxCycles = 2
    MaxHeads = 2
    MaxRoles = 3
CONSTRAINT Bounds
INVARIANTS
    MergedAsReviewed
    PushedWasValidated
    CorrectionsEarned
CHECK_DEADLOCK FALSE
