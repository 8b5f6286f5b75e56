\* Two concurrent requests on two pods; replies get lost and pods restart.
SPECIFICATION AdminSpec
CONSTANTS
    h1 = h1
    h2 = h2
    p1 = p1
    p2 = p2
    base = base
    other = other
    Handlers = {h1, h2}
    Pods = {p1, p2}
    Audiences = {base, other}
    NoPod = NoPod
    NoAudience = NoAudience
    EmptyAudience = EmptyAudience
    DefaultAudience = base
    Faults = {"lost", "crash"}
    MaxStreams = 2
INVARIANTS
    RegistryAndKeysAgree
    AudienceOfStream
    StreamIsServed
SYMMETRY Symmetry
CHECK_DEADLOCK FALSE
