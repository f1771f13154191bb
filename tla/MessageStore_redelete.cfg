\* TDLib may report deletions that are not permanent, hence more than one for the
\* same message.
SPECIFICATION Spec
CONSTANTS
    PrivateMessages = {pm1}
    GroupMessages = {}
    Forwarded = {pm1}
    Contents = {a, b, c}
    Blank = Blank
    FileIds = {f1}
    None = None
    NoRow = NoRow
    MaxTime = 2
    SameSecondEdits = {}
    CacheDeletes = {pm1}
CHECK_DEADLOCK FALSE
INVARIANTS
    ContentKept
