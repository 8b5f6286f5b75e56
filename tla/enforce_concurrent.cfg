\* Two threads and the iRule; the fast path may be off; store calls may hang.
SPECIFICATION FairSpec
CONSTANTS
    a1 = a1
    a2 = a2
    ax = ax
    b1 = b1
    w1 = w1
    w2 = w2
    alice = alice
    bob = bob
    NoSid = NoSid
    NoSubject = NoSubject
    Sids = {a1, ax, b1}
    BadIds = {ax}
    Subjects = {alice, bob}
    Owner <- Owners
    Catalog <- Mixed
    Workers = {w1, w2}
    Faults = {"hang"}
    MaxSets = 2
    MaxStarts = 2
    MaxExpired = 0
INVARIANTS
    NoStaleMapping
PROPERTIES
    PurgeDropsEveryTarget
    FastEventsCostNoOther
    TargetsEnd
CHECK_DEADLOCK FALSE
