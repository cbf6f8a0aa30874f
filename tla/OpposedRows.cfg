SPECIFICATION FairSpec
CONSTANTS
    Procs = {p1, p2}
    Sessions = {s1, s2}
    Tenants = {t1}
    Keys = {k1, k2}
    Digests = {d1, d2}
    RowIds = {r1, r2}
    Parent <- NoParent
    Dataset <- Opposed
    GenIds = {g1, g2}
    LockIds <- OwnLockIds
    AdvisoryKey <- OwnLock
    AppOps = {}
    ClientOps = {"post"}
    Refusal <- NoRefusal
    RetryAttempts = 1
    d1 = d1
    d2 = d2
    r1 = r1
    r2 = r2
    r3 = r3
    None = None
    App = App
INVARIANTS
    CommittedRowsArePresent
    LedgerIsDataset
PROPERTIES
    EveryRequestEnds
CHECK_DEADLOCK FALSE
