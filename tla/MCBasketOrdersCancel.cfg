SPECIFICATION Spec
CONSTANTS
    Baskets = {b1}
    NumLegs = 2
    AdapterSetsOrderId = TRUE
    Nobody = Nobody
PROPERTY CancelledIsFinal
CHECK_DEADLOCK FALSE
