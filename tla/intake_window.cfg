\* ReplayTtl > MaxAge, as the settings comment asks, and a SET dated ahead.
SPECIFICATION Spec
CONSTANTS
    s1 = s1
    s2 = s2
    w1 = w1
    w2 = w2
    w3 = w3
    p1 = p1
    p2 = p2
    redis = redis
    NoSet = NoSet
    Sets = {s1}
    Iats = {0, 2}
    Workers = {w1}
    Pods = {p1}
    PodOf <- OnePod
    Stores = {redis}
    StoreOf <- SharedStore
    Volatile = {}
    MaxAge = 2
    Skew = 2
    ReplayTtl = 3
    MaxStall = 0
    Faults = {}
    MaxTime = 6
    MaxPosts = 3
    MaxCrashes = 0
INVARIANTS
    AtMostOnce
CHECK_DEADLOCK FALSE
