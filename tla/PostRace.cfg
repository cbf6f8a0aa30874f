SPECIFICATION Spec
CONSTANTS
    Procs = {p1, p2}
    Sessions = {s1, s2, s3}
    Tenants = {t1}
    Keys = {k1}
    Digests = {d1, d2}
    RowIds = {r1, r2}
    Parent <- ChildR2
    Dataset <- ParentChild
    GenIds = {g1, g2, g3}
    LockIds <- OwnLockIds
    AdvisoryKey <- OwnLock
    AppOps = {"insert"}
    ClientOps = {"post"}
    Refusal <- NoRefusal
    RetryAttempts = 2
    d1 = d1
    d2 = d2
    r1 = r1
    r2 = r2
    r3 = r3
    None = None
    App = App
SYMMETRY Symmetry
INVARIANTS
    TypeOK
    AnswersAreTrue
    RefusedPostIsGone
PROPERTIES
    ConflictIsNotAReplay
    ImplementsStore
CHECK_DEADLOCK FALSE
