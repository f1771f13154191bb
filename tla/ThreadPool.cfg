\* A pool shaped like files_: two workers, two posters, a queue of one slot,
\* an explicit shutdown followed by the destructor's.
SPECIFICATION FairSpec
CONSTANTS
    Workers = {w1, w2}
    Posters = {p1, p2}
    Cap = 1
    MaxPosts = 2
    MaxShutdowns = 2
    NoJob = NoJob
INVARIANTS
    DrainedOnReturn
    NoLostWakeup
PROPERTIES
    PostReturns
    ShutdownReturns
    ImplementsExecutor
