SPECIFICATION FairSpec
CONSTANTS
    e1 = e1
    e2 = e2
    i1 = i1
    i2 = i2
    Edges = {e1}
    Ids = {i1}
    IdOf <- OneEdge
    NoId = NoId
    FixedToken = {}
    HasTokenFile = {e1}
    FaultKinds = {"edge"}
    MaxFaults = 1
    MaxGen = 3
    MaxRejects = 0
PROPERTY EveryEdgeServes
