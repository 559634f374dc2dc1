SPECIFICATION HostSpec
CONSTANTS
    c1 = c1
    c2 = c2
    t1 = t1
    t2 = t2
    Clients = {c1, c2}
    Handlers = {h1}
    Tokens = {t1, t2}
    SharedToken = NoToken
    NoToken = NoToken
    FileContents <- TwoClients
    Modes = {TRUE}
    AppendMayFail = FALSE
    Shared = Shared
    NoClient = NoClient
    MaxMinute = 1
    MaxRequests = 3
    Admins = {a1}
    NoAdmin = NoAdmin
    ConsoleMayCrash = FALSE
    MaxActions = 1
INVARIANT SelfRevocationIsDurable
