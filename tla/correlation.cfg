\* The event loop and a pool thread share either store; calls to Redis may break off.
SPECIFICATION StoreSpec
CONSTANTS
    s1 = s1
    s2 = s2
    s3 = s3
    alice = alice
    bob = bob
    loop = loop
    pool = pool
    NoSid = NoSid
    NoSubject = NoSubject
    Sids = {s1, s2}
    Subjects = {alice}
    Owner <- Owners
    SubjectsOf <- OneSubjectEach
    Threads = {loop, pool}
    Api = {loop}
    Ttl = 2
    MaxTime = 4
    Faults = {"break"}
    MemoryTtl = 1
    MemoryMaxTime = 2
    MaxRegisters = 3
INVARIANTS
    RegisteredIsFound
    OverlooksOnlyUnindexed
    ExpiresUnlessRenewed
    RecordsRemovable
    RegisteredUnlessRaced
    NoErrorUnlessOverlapped
PROPERTIES
    NoExpiredAnswer
    EitherImplementsDirectory
CHECK_DEADLOCK FALSE
