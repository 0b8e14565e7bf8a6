SPECIFICATION Spec
CONSTANTS
    t1 = t1
    t2 = t2
    t3 = t3
    variant = variant
    underlying = underlying
    Threads = {t1, t2, t3}
    Servers = {s1}
    Cells = {c1}
    Features = {x1, x2}
    Configs = {u1, u2}
    Rows <- MCRows
    Keys <- MCKeys
    Owner <- MCOwner
    Ops = {"add", "update", "delete", "default", "retention", "tuning", "lock", "unlock", "readLocks", "merge", "readStatic", "import", "halls", "readHalls", "refresh", "scan", "check", "upload"}
    MaxRequests = 3
    MaxMd5 = 2
    None = None
SYMMETRY Symmetric
INVARIANTS
    RmwLosesNothing
    SequentialEditsStay
CHECK_DEADLOCK FALSE
