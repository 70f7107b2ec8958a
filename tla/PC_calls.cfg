SPECIFICATION FairSpec
CONSTANTS
    t1 = t1
    t2 = t2
    t3 = t3
    a1 = a1
    a2 = a2
    Tasks = {t1, t2, t3}
    Addrs = {a1, a2}
    Calls <- MCCalls
    Shards = {1}
    Workers = 2
    MaxOpen = 1
    RetryTimes = 1
CHECK_DEADLOCK FALSE
INVARIANTS
    TypeOK
    ConnectionsBounded
    GivesUpAfterEveryAddress
    AtMostOncePerAttempt
PROPERTIES
    EveryCallEnds
