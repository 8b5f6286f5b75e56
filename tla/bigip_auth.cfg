\* Two threads share the token; logins fail, tokens are refused, revoked and expire.
SPECIFICATION FairSpec
CONSTANTS
    t1 = t1
    t2 = t2
    Threads = {t1, t2}
    Modes = {"token", "basic"}
    Timeout = 3
    Margin = 2
    MaxStall = 1
    Faults = {"denied", "login", "tokenless"}
    MaxTime = 4
    MaxCalls = 2
    MaxRevokes = 2
INVARIANTS
    RetryIsFresh
    NoExpiredToken
    NullHeaderOnlyIfCleared
PROPERTIES
    EveryCallEnds
CHECK_DEADLOCK FALSE
