SPECIFICATION FairSpec
CONSTANTS
    Queues = {q1, q2}
    Items = {1, 2}
    Slots = 1
    MaxRetries = 2
    MaxTrouble = 2
    Watched = {q1}
    None = None
INVARIANTS
    CountersNeverOverstate
    BothReturned
PROPERTIES
    OnlyOwedWorkIsDone
    QueueEnds
CHECK_DEADLOCK FALSE
