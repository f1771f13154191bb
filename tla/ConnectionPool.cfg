\* More threads than connections: threads wait for each other.
SPECIFICATION FairSpec
CONSTANTS
    Threads = {t1, t2, t3}
    PoolSize = 2
    MaxCalls = 2
INVARIANTS
    Exclusive
    Accounting
    NoLostWakeup
PROPERTIES
    AcquireReturns
