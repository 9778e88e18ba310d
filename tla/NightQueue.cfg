SPECIFICATION FairSpec
CONSTANTS
    b1 = b1
    b2 = b2
    s1 = s1
    s2 = s2
    Batches = {b1, b2}
    Services = {s1, s2}
    Steady = {s2}
    NoBatch = NoBatch
    Lease = 2
    Expiry = 2
    MaxLag = 1
INVARIANTS
    StoreValid
    HeadOfLine
    OutcomeByLastClaim
PROPERTIES
    OnlyStaleClaimsEnd
    ImplementsSerialQueue
    EverySubmissionSettles
