SPECIFICATION Spec
CONSTANTS
    p1 = p1
    p2 = p2
    k1 = k1
    reader = reader
    navigator = navigator
    c1 = c1
    c2 = c2
    Pods = {p1, p2}
    Keys = {k1}
    Calls = {c1, c2}
    Roles = {reader, navigator}
    RolesOf <- OneRole
    Capacity <- CapsFull
    Refill <- Refills
    FallbackCapacity = 1
    FallbackRefill = 1
    Costs = {1, 2}
    Ttl = 2
    BurstLimit = 2
    RateLimit = 1
    MaxSkew = 0
    MaxDelay = 2
    MaxTime = 2
    MaxCalls = 5
    MaxLosses = 0
SYMMETRY Interchangeable
CHECK_DEADLOCK FALSE
INVARIANT LimitAcrossPods
