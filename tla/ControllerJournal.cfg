SPECIFICATION Spec
CONSTANTS
    p1 = p1
    p2 = p2
    h1 = h1
    h2 = h2
    h3 = h3
    Procs = {p1, p2}
    NoProc = NoProc
    Orphan = Orphan
    Humans = {h1, h2, h3}
    NoHuman = NoHuman
    MaxGrants = 3
CONSTRAINT InOrder
INVARIANTS
    JournalReplays
    RotatedGrantsKept
    RotationsWhole
PROPERTIES
    ImplementsPilotLedger
    EveryCallEnds
CHECK_DEADLOCK FALSE
