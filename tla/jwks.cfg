\* Two verifying threads; registrations, key rotations and outages.
SPECIFICATION JwksSpec
CONSTANTS
    u1 = u1
    u2 = u2
    k1 = k1
    k2 = k2
    t1 = t1
    t2 = t2
    NoUri = NoUri
    Uris = {u1, u2}
    Keys = {k1, k2}
    InitialKeys <- Serving
    Threads = {t1, t2}
    Ttl = 1
    JwksMaxTime = 2
    MaxEvents = 3
PROPERTIES
    ServedKeyResolves
    WithdrawnKeyDies
    OldRegistrationDies
CHECK_DEADLOCK FALSE
