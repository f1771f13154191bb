\* Two workers and four downloads of one content.  Everything may fail, and the
\* daemon may be killed once.
SPECIFICATION Spec
CONSTANTS
    Workers = {w1, w2}
    Contents = {c1}
    Exts = {"jpg", "png"}
    Names = {"", "x"}
    NoRow = NoRow
    NoFile = NoFile
    NoWorker = NoWorker
    MaxStores = 4
    MaxCrashes = 1
    Failures = TRUE
CHECK_DEADLOCK FALSE
INVARIANTS
    RecordedIsStored
    RecordedIsBeingCopied
    HitsAreExact
PROPERTIES
    NameIsKept
    StoreReturns
