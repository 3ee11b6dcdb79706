CONSTANTS
    Orders = {o1}
    Clients = {c1}
    Statuses = {"OPEN", "PARTIALLY_FILLED", "FILLED"}
    MayMiss = FALSE
SPECIFICATION Spec
INVARIANT FollowedUntilFinal
CHECK_DEADLOCK FALSE
