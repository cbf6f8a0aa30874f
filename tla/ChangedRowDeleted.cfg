SPECIFICATION Spec
CONSTANTS
    Procs = {p1}
    Sessions = {s1, s2}
    Tenants = {t1}
    Keys = {k1}
    Digests = {d1}
    RowIds = {r1, r2}
    Parent <- ChildR2
    Dataset <- ParentChild
    GenIds = {g1, g2}
    LockIds <- OwnLockIds
    AdvisoryKey <- OwnLock
    AppOps = {"insert", "update", "delete"}
    ClientOps = {"post", "delete"}
    Refusal <- NoRefusal
    RetryAttempts = 2
    d1 = d1
    d2 = d2
    r1 = r1
    r2 = r2
    r3 = r3
    None = None
    App = App
SYMMETRY Symmetry
PROPERTIES
    DeletesOnlyOwnRows
CHECK_DEADLOCK FALSE
