SPECIFICATION InfoSpec
CONSTANTS
    t1 = t1
    t2 = t2
    t3 = t3
    v1 = v1
    v2 = v2
    v3 = v3
    Asker = {t1, t2, t3}
    Version = {v1, v2, v3}
    Capacity = 2
    MaxRequests = 5
INVARIANTS
    SingleRequest
PROPERTIES
    RequestsEnd
CHECK_DEADLOCK FALSE
