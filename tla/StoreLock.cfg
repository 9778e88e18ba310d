SPECIFICATION Spec
CONSTANTS
    d = d
    e = e
    p1 = p1
    p2 = p2
    p3 = p3
    NoProc = NoProc
    Procs = {d, e, p1, p2, p3}
    LockLeftBy = d
    MarkerLeftBy = e
    MaxCalls = 2
    MaxDraws = 2
CHECK_DEADLOCK FALSE
SYMMETRY Symmetry
INVARIANTS
    TypeOK
    MutualExclusion
    NoLostUpdate
PROPERTIES
    RemovedByOwner
