SPECIFICATION Spec
CONSTANTS
    Baskets = {b1}
    NumLegs = 3
    AdapterSetsOrderId = TRUE
    Nobody = Nobody
INVARIANTS
    LegsPlacedOnce
    NothingAfterFailure
    VerdictIsTrue
    RollbackIsExact
PROPERTIES
    CallsEnd
\* The calls end.
CHECK_DEADLOCK FALSE
