SPECIFICATION Spec
CONSTANTS
    Procs = {p1, p2}
    Images <- OnlyCurrent
    AdoptingImages <- OnlyCurrent
    CheckFlags = {TRUE, FALSE}
    Supported = {TRUE}
    InitialSchemas <- Drifted
    InitialLedgers <- AnyPrefix
    OperatorSteps = 0
SYMMETRY Symmetry
INVARIANTS
    CheckPredictsApply
