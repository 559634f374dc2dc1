SPECIFICATION Spec
CONSTANTS
    c1 = c1
    c2 = c2
    t1 = t1
    t2 = t2
    Clients = {c1, c2}
    Handlers = {h1, h2}
    Tokens = {t1, t2}
    SharedToken = NoToken
    NoToken = NoToken
    FileContents <- OneFile
    Modes = {TRUE}
    AppendMayFail = FALSE
    Shared = Shared
    NoClient = NoClient
    MaxMinute = 2
    MaxRequests = 3
PROPERTY RevokedOnlyOverThreshold
