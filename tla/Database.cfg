\* Two threads on two connections; each call is a transaction or one statement.
SPECIFICATION Spec
CONSTANTS
    Threads = {t1, t2}
    Connections = {c1, c2}
    None = None
    MaxJobs = 3
    MaxStatements = 2
CHECK_DEADLOCK FALSE
INVARIANTS
    Atomicity
    ReturnedIsDurable
    ThrownIsRolledBack
    CleanInPool
