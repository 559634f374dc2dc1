SPECIFICATION FairSpec
CONSTANTS
    Certificates <- MCCertificates
    RouteFiles <- MCRouteFiles
    ServerNames <- MCNames
    RouteRequests <- MCRequests
    NoName <- none
    MaxBytes = 2
    Window = 1
    MaxParts = 2
INVARIANTS
    HandlerTypeOK
    StreamsIntact
    
    EndIsWhole
    FirstThatCovers
    
PROPERTIES
    
    GoroutineEnds
