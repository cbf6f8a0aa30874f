SPECIFICATION FairSpec
CONSTANTS
    Procs = {p1, p2}
    Images <- HistoricalAndCurrent
    AdoptingImages <- HistoricalAndCurrent
    CheckFlags = {TRUE, FALSE}
    Supported = {TRUE}
    InitialSchemas <- Released
    InitialLedgers <- AnyPrefix
    OperatorSteps = 0
INVARIANTS
    AppliedOnce
PROPERTIES
    MigratedIsConsistent
    ImplementsHistory
    EveryInvocationEnds
