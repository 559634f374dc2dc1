SPECIFICATION Spec
CONSTANTS
    Browsers = {b1, b2}
    Accounts = {u1}
    Handlers = {h1, h2}
    NoKey = NoKey
    NoCookie = NoCookie
    NoCall = NoCall
    MaxLogins = 2
    Shared <- MCShared
    MaxRuns = 2
    MaxEdits = 2
SYMMETRY Interchangeable
INVARIANTS
    TypeOK
    SignedInByChoice
    SuccessIsComplete

    
    
