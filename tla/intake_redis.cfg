\* Two pods share Redis; verification and store calls may fail or hang, pods may crash.
SPECIFICATION FairSpec
CONSTANTS
    s1 = s1
    s2 = s2
    w1 = w1
    w2 = w2
    w3 = w3
    p1 = p1
    p2 = p2
    redis = redis
    NoSet = NoSet
    Sets = {s1}
    Iats = {0, 2}
    Workers = {w1, w2, w3}
    Pods = {p1, p2}
    PodOf <- TwoPods
    Stores = {redis}
    StoreOf <- SharedStore
    Volatile = {}
    MaxAge = 2
    Skew = 1
    ReplayTtl = 5
    MaxStall = 1
    Faults = {"verify", "store", "hang"}
    MaxTime = 5
    MaxPosts = 3
    MaxCrashes = 1
INVARIANTS
    OnceUnlessOverlap
    ProcessedStaysMarked
PROPERTIES
    ReplayDropIsHonest
    EveryTaskEnds
CHECK_DEADLOCK FALSE
