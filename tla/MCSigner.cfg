SPECIFICATION Spec
CONSTANTS
    c1 = c1
    c2 = c2
    t1 = t1
    t2 = t2
    Clients = {c1, c2}
    Handlers = {h1, h2}
    Tokens = {t1, t2}
    SharedToken = t1
    NoToken = NoToken
    FileContents <- Files
    Modes = {TRUE, FALSE}
    AppendMayFail = FALSE
    Shared = Shared
    NoClient = NoClient
    MaxMinute = 2
    MaxRequests = 4
INVARIANTS
    TypeOK
    CountersExact
    OvershootBounded
    OverThresholdIsBarred
    BarSurvivesRestart
PROPERTIES
    BarredDrains
    ImplementsGate
