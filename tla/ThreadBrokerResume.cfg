SPECIFICATION Spec
CONSTANTS
    w1 = w1
    w2 = w2
    p1 = p1
    p2 = p2
    b1 = b1
    NoProc = NoProc
    Workers = {w1}
    Batches = {b1}
    Procs = {p1, p2}
    BatchOf <- OneBatch
    Limit = 1
SYMMETRY Symmetry
INVARIANTS
    MappedWorkerResumes
CHECK_DEADLOCK FALSE
