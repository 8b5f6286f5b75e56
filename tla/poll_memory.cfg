\* poll_once on the event loop next to two pool threads; two faults of any kind.
SPECIFICATION Spec
CONSTANTS
    Jtis = {"a", "r", "c"}
    Polled = {"a", "r"}
    Refused = {"r"}
    Threads = {loop, pool1, pool2}
    pool1 = pool1
    pool2 = pool2
    Poll = loop
    MaxAge = 1
    MaxEvents = 2
    Ttl = 1
    MaxTime = 2
    MaxFaults = 2
    MaxPushes = 2
SYMMETRY MCSymmetry
INVARIANTS
    DroppedWasDispatched
PROPERTIES
    MarkedAgainOnlyIfLapsed
    CycleLeavesOnlyRefused
CHECK_DEADLOCK FALSE
