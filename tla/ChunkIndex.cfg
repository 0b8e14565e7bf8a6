SPECIFICATION Spec
CONSTANTS
    Workers <- MCWorkers
    Place <- MCPlace
    Md5s = {"cur", "old"}
    Current = "cur"
    MaxIndex = 3
    MaxRuns = 1
    MaxCalls = 2
    MaxFail = 1
    None = None
INVARIANTS
    IndexesAgree
    OnlyOutrunOrMissedMislead
PROPERTIES
    ResumeNeverOverwrites
CHECK_DEADLOCK FALSE
