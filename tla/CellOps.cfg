SPECIFICATION Spec
CONSTANTS
    b1 = b1
    q1 = q1
    q2 = q2
    a1 = a1
    g1 = g1
    d1 = d1
    d2 = d2
    k1 = k1
    m1 = m1
    c1 = c1
    c2 = c2
    c3 = c3
    r1 = r1
    r2 = r2
    r3 = r3
    BatchWorkers = {b1}
    QueueWorkers = {q1, q2}
    MayAbandon = {q2}
    Adhoc = {a1}
    Generators = {g1}
    Deleters = {d1, d2}
    Cleaners = {k1}
    ManualCleaners = {m1}
    Casts <- AllCasts
    Threads = {b1, q1, q2, a1, g1, d1, d2, k1, m1}
    GlobalOps = {"disk_cleanup"}
    Free = Free
    Cells = {c1, c2, c3}
    Runs = {r1, r2, r3}
    MaxChunk = 3
    Keep = 1
    Past = Past
    Absent = Absent
    NoRun = NoRun
    NoInfo = NoInfo
    NoCell = NoCell
INVARIANTS
    LocksReturned
    ReportInputPresent
    HolderExclusion
PROPERTIES
    RetentionQuota
    NoLiveDataLost
SYMMETRY Symmetric
