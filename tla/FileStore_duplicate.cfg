\* Two workers with one content; nothing fails.
SPECIFICATION Spec
CONSTANTS
    Workers = {w1, w2}
    Contents = {c1}
    Exts = {"jpg"}
    Names = {""}
    NoRow = NoRow
    NoFile = NoFile
    NoWorker = NoWorker
    MaxStores = 2
    MaxCrashes = 0
    Failures = FALSE
CHECK_DEADLOCK FALSE
INVARIANT
    UpsertReturnsId
