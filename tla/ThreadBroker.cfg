SPECIFICATION Spec
CONSTANTS
    w1 = w1
    w2 = w2
    p1 = p1
    p2 = p2
    p3 = p3
    p4 = p4
    b1 = b1
    NoProc = NoProc
    Workers = {w1}
    Batches = {b1}
    Procs = {p1, p2, p3, p4}
    BatchOf <- OneBatch
    Limit = 2
SYMMETRY Symmetry
INVARIANTS
    TypeOK
    StartedOnce
    StartsRemembered
    StoreLoads
    Capacity
PROPERTIES
    OwnersOwn
CHECK_DEADLOCK FALSE
