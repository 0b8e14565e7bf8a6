SPECIFICATION FairSpec
CONSTANTS
    Items = {1, 2}
    MaxBusy = 1
    MaxCancels = 2
    MaxBreaks = 1
    MaxCrashes = 2
    Nothing = Nothing
INVARIANTS
    LockSpansJob
    VerdictRight
PROPERTIES
    BatchEnds
CHECK_DEADLOCK FALSE
