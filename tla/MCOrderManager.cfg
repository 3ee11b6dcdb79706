CONSTANTS
    Orders = {o1, o2}
    Clients = {c1, c2}
    Statuses = {"OPEN", "FILLED"}
    MayMiss = TRUE
SPECIFICATION Spec
INVARIANTS RegistryIsExact EndIsShown
PROPERTIES RoundReachesAll StopEndsTasks FinalIsNoticed
\* The service may be stopped.
CHECK_DEADLOCK FALSE
