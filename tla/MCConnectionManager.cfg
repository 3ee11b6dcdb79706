CONSTANTS
    Handlers = {h1, h2}
    Beats = {t1, t2}
    Adapters = {c1, c2}
    Stopper = Stopper
    MaxAttempts = 1
    NoBeat = NoBeat
    NoAdapter = NoAdapter
SPECIFICATION Spec
INVARIANTS ConnectedIsWatched ReconnectIsNotCut
PROPERTIES ReconnectConnects StopEndsAll
\* The service may be stopped.
CHECK_DEADLOCK FALSE
