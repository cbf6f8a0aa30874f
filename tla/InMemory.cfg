SPECIFICATION Spec
CONSTANTS
    Procs = {p1, p2}
    Tenants = {t1}
    Keys = {k1, k2}
    GenIds = {g1, g2}
    Providers <- Tabular
    Scenes <- AllScenes
    None = None
    App = App
SYMMETRY Symmetry
INVARIANTS
    TypeOK
    OrderlyContractsGenerate
    KeyIsBound
    RowsAreDatasets
    UntouchedIsDeletable
    InsertsAgree
    DeletesAgree
PROPERTIES
    AcceptedFits
    DeletionIsExact
CHECK_DEADLOCK FALSE
