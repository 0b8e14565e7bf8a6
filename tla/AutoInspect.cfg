SPECIFICATION FairSpec
CONSTANTS
    Items = {1, 2}
    Structural = {2}
    Workers = {w1, w2}
    Cells <- FoundCells
    MaxVersion = 2
    MaxFailures = 1
    MaxBusy = 1
    MaxCancels = 1
    MaxFaults = 1
    MaxCrashes = 2
    MaxTrouble = 2
    NoOne = NoOne
INVARIANTS
    WorkUnderLock
    EndedSweepSettled
    VerdictsJustified
PROPERTIES
    SweepEnds
CHECK_DEADLOCK FALSE
