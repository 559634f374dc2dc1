SPECIFICATION Spec
CONSTANTS
    k1 = k1
    k2 = k2
    k3 = k3
    Workers = {w1}
    Nobody = Nobody
    Keys = {k1, k2, k3}
    Outgoing <- Same
    Requests <- Gets
    Responses <- Varied
    Absent = Absent
    TTL = 1
    MaxBytes = 3
    MaxObject = 2
    Second = 1
    Width = 8
    MaxTime = 1
INVARIANT BodyIsWhole
