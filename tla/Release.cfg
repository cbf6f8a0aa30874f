SPECIFICATION Spec
CONSTANTS
    Jobs = {j1, j2}
    DocJobs = {d1}
    j1 = j1
    j2 = j2
    d1 = d1
    Submissions <- VersionSubmissions
    MaxCommits = 4
    MaxBuilds <- VersionBuilds
    None = None
INVARIANTS
    TypeOK
    ReleaseIsBound
    ReleasesAgree
PROPERTIES
    NeverMoved
    RerunsFinish
SYMMETRY JobSymmetry
CHECK_DEADLOCK FALSE
