SPECIFICATION Spec
CONSTANTS
    Procs = {p1}
    Images <- AllImages
    AdoptingImages <- HistoricalAndCurrent
    CheckFlags = {TRUE, FALSE}
    Supported = {TRUE, FALSE}
    InitialSchemas <- Drifted
    InitialLedgers <- AnyPrefix
    OperatorSteps = 2
SYMMETRY Symmetry
INVARIANTS
    TypeOK
    ExitZeroIsCurrent
PROPERTIES
    ImplementsHistory
