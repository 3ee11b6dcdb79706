SPECIFICATION Spec
CONSTANTS
    Baskets = {b1}
    NumLegs = 2
    AdapterSetsOrderId = FALSE
    Nobody = Nobody
INVARIANT RollbackIsComplete
CHECK_DEADLOCK FALSE
