\* A message in a steady environment and one that may be deleted from the cache
\* and come back; each may reply to the other.
SPECIFICATION Spec
CONSTANTS
    PrivateMessages = {pm1, pm2}
    GroupMessages = {}
    Forwarded = {pm1}
    Contents = {a, b}
    Blank = Blank
    FileIds = {f1}
    None = None
    NoRow = NoRow
    MaxTime = 2
    SameSecondEdits = {}
    CacheDeletes = {pm2}
CHECK_DEADLOCK FALSE
INVARIANTS
    HistoryComplete
    FlagIsExact
    LinksSurvive
    ReferencesResolve
