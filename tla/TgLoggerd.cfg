\* Two file workers, queues of one slot.
SPECIFICATION FairSpec
CONSTANTS
    FileWorkers = {f1, f2}
    SerialWorker = s1
    QueueMax = 1
    Entities = {e1, e2}
    Groups = {e1}
    MaxUpdates = 3
    NoJob = NoJob
INVARIANTS
    RowBeforeLink
    LinkIsAccepted
    DrainedOnReturn
PROPERTIES
    StopReturns
