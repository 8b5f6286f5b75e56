\* Every failure but an unheeded answer: stores, transport, lost and reordered calls.
SPECIFICATION Spec
CONSTANTS
    a1 = a1
    a2 = a2
    ax = ax
    b1 = b1
    w1 = w1
    w2 = w2
    alice = alice
    bob = bob
    NoSid = NoSid
    NoSubject = NoSubject
    Sids = {a1, ax}
    BadIds = {ax}
    Subjects = {alice, bob}
    Owner <- Owners
    Catalog <- Several
    Workers = {w1, w2}
    Faults = {"status", "transport", "store", "hang", "lost", "reorder"}
    MaxSets = 2
    MaxStarts = 2
    MaxExpired = 1
INVARIANTS
    LiveStaysMapped
    ReportAddsUp
CHECK_DEADLOCK FALSE
