SPECIFICATION HostSpec
CONSTANTS
    c1 = c1
    c2 = c2
    t1 = t1
    t2 = t2
    Clients = {c1, c2}
    Handlers = {h1}
    Tokens = {t1, t2}
    SharedToken = NoToken
    NoToken = NoToken
    FileContents <- TwoClients
    Modes = {TRUE}
    AppendMayFail = FALSE
    Shared = Shared
    NoClient = NoClient
    MaxMinute = 1
    MaxRequests = 2
    Admins = {a1, a2}
    NoAdmin = NoAdmin
    ConsoleMayCrash = TRUE
    MaxActions = 3
CHECK_DEADLOCK FALSE
INVARIANTS
    HostTypeOK
    
    ReadableFileIsCurrent
