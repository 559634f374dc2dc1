SPECIFICATION FairSpec
CONSTANTS
    k1 = k1
    k2 = k2
    k3 = k3
    Workers = {w1, w2}
    Nobody = Nobody
    Keys = {k1, k2, k3}
    Outgoing <- Same
    Requests <- Mixed
    Responses <- Varied
    Absent = Absent
    TTL = 1
    MaxBytes = 2
    MaxObject = 3
    Second = 1
    Width = 8
    MaxTime = 1
INVARIANTS
    TypeOK
    IndexAgrees
    BytesExact
PROPERTIES
    HitsAreFresh
    ImplementsLru
    LockReleased
