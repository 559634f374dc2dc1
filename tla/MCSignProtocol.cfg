SPECIFICATION Spec
CONSTANTS
    c1 = c1
    c2 = c2
    t1 = t1
    t2 = t2
    k1 = k1
    dk = dk
    ka = ka
    kb = kb
    s1 = s1
    s2 = s2
    s3 = s3
    Clients = {c1, c2}
    Tokens = {t1, t2}
    KeyIds = {k1}
    NoKeyId = NoKeyId
    Keys = {dk, ka, kb}
    NoKey = NoKey
    DefaultKey = dk
    Files <- AllFiles
    Signers = {s1, s2, s3}
    TokenOf <- TokenMap
    KeyIdOf <- KeyIdMap
    Inputs <- Asked
    BodyLimit = 64
INVARIANTS
    TypeOK
    
    KeysStayApart
    RequestsSurvive
