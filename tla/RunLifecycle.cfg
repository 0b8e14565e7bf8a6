SPECIFICATION FairSpec
CONSTANTS
    Cells = {c1, c2}
    Batches = {b1, b2}
    Requests = {{c1, c2}, {c1}}
    Concurrency = 1
    MaxRuns = 3
    MaxRequests = 2
    MaxCrashes = 1
    MaxFaults = 1
    None = None
INVARIANTS
    LockCoversRun
    EveryRunAccounted
    CompletedWasSampled
    EndedBatchSettled
PROPERTIES
    BatchEnds
CHECK_DEADLOCK FALSE
