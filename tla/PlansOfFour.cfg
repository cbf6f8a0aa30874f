SPECIFICATION FairSpec
CONSTANTS
    RecordTypes = {a, b, c, d}
    Sorted <- Four
    Orders <- OtherOrders
    a = a
    b = b
    c = c
    d = d
    None = None
INVARIANTS
    TypeOK
    AcceptedIsPlanned
PROPERTIES
    ImplementsOrder
    PlanningEnds
CHECK_DEADLOCK FALSE
