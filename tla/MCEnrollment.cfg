SPECIFICATION Spec
CONSTANTS
    e1 = e1
    e2 = e2
    i1 = i1
    i2 = i2
    Edges = {e1, e2}
    Ids = {i1, i2}
    IdOf <- TwoEdges
    NoId = NoId
    FixedToken = {e2}
    HasTokenFile = {e1}
    FaultKinds = {"edge", "timeout", "console", "script", "wizard"}
    MaxFaults = 2
    MaxGen = 2
    MaxRejects = 1
INVARIANTS
    TypeOK
    OnePendingPerId
    ApprovedHasClient
    HoldsOwnToken
PROPERTY
    UsedIsForever
