SPECIFICATION Spec
CONSTANTS
    Actions = {a1, a2}
    Users = {u1, u2}
    Handlers = {h1, h2}
    Cleaner = Cleaner
    Nobody = Nobody
INVARIANTS
    OneOrderPerAction
    OrdersAreApproved
    ApprovalsHaveOutcomes
PROPERTIES
    DecisionsStand
    RequestsAreAnswered
    PendingIsDecided
    ImplementsApproval
\* The service may be stopped.
CHECK_DEADLOCK FALSE
