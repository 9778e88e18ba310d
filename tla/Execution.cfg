SPECIFICATION Spec
CONSTANTS
    a = a
    b = b
    c = c
    p1 = p1
    p2 = p2
    Tasks = {a, b, c}
    Bundles <- SomeBundles
    NoBundle = NoBundle
    Procs = {p1, p2}
    NoProc = NoProc
    MaxParallel = 2
    MaxClaims = 2
INVARIANTS
    DependenciesFirst
    OverlapsSerialized
    PublishableIsDone
PROPERTIES
    ImplementsTaskGraph
    EveryExecutionEnds
CHECK_DEADLOCK FALSE
