\* A basic group and a channel, with one id and with two; two titles and usernames,
\* one group polled per alarm; updates and answers in any order.
SPECIFICATION Spec
CONSTANTS
    BasicGroups = {b1}
    Supergroups = {s1}
    Channels = {s1}
    Titles = {t1, t2}
    Usernames = {n1, n2}
    Abouts = {d1}
    AdminLists = {{u1}}
    None = None
    Batch = 1
    MaxMiss = 2
    MaxInFlight = 2
CHECK_DEADLOCK FALSE
INVARIANTS
    EmittedIsCurrent
    NothingBeforeChat
    OneAlarm
    QueueHoldsTracked
PROPERTIES
    EvictedForMisses
    PolledForever
