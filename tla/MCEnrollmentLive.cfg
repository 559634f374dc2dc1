SPECIFICATION FairSpec
CONSTANTS
    e1 = e1
    e2 = e2
    i1 = i1
    i2 = i2
    Edges = {e1}
    Ids = {i1}
    IdOf <- OneEdge
    NoId = NoId
    FixedToken = {e1}
    HasTokenFile = {e1}
    FaultKinds = {"edge", "timeout"}
    MaxFaults = 3
    MaxGen = 0
    MaxRejects = 0
PROPERTIES
    
    PendingUntilApproved
