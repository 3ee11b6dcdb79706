CONSTANTS
    Handlers = {h1}
    Beats = {t1, t2}
    Adapters = {c1}
    Stopper = Stopper
    MaxAttempts = 2
    NoBeat = NoBeat
    NoAdapter = NoAdapter
SPECIFICATION Spec
PROPERTIES RetriesUntilMax
\* The service may be stopped.
CHECK_DEADLOCK FALSE
