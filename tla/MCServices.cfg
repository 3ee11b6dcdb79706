SPECIFICATION ServicesSpec
CONSTANTS
    Requests = {p1, p2}
    MaxVersions = 2
    Rejected = {2}
    Fallible = {"pre_screener", "technical", "earnings_analysis", "bear_research", "final_trader"}
    RecursionLimit = 25
    MaxBars = 4
    MaxPositions = 2
    Slip = 1
    Fee = 1
    Capital = 1000
    Jobs = {p1, p2}
    Tier = 1
    MaxRuns = 2
    MaxDebt = 1
    Splits = {s1}
    Total = 1000
    Display = 370
    NumChunks = 3
    Factors = {9, 10, 11}
    SmartRequests = {p1, p2, p3}
    Quantities = {5, 10}
    Windows = {1, 2}
    MaxPosition = 5
    Oldest = 2
    Nobody = Nobody
    Hooks = {p1, p2}
    PerMinute = 1
    Calls = {p1, p2, p3}
    FailureThreshold = 2
    HalfOpenMaxCalls = 2
    SuccessThreshold = 2
    MaxCount = 3
    Events = {p1, p2, p3}
    Critical = 2
    NumRules = 1
    MaxPerHour = 1
    MaxHours = 1
    NumChannels = 2
    MaxRetries = 2
    Sockets = {p1, p2}
    Alerts = {a1}
    NoSocket = NoSocket
    Readers = {r1, r2}
    Feed = r1
    Viewers = {p1, p2}
    TTL = 2
    MaxTime = 2
    Tracks = {p1, p2, p3}
    Posts = {p1, p2, p3}
    Periods = {m1, m2}
SYMMETRY Symmetry
INVARIANTS
    TypesOK
    CompiledIsValid
    AnalysisIsSound
    SlotsAreHonest
    WebhooksAreKept
    BreakerProtects
    AnomaliesAreTold
    AlertsAreDelivered
    PricesAreFresh
    RewardsAddUp
PROPERTIES
    LiveIsEarnedOrAskedFor
    AmountsAddUp
    SplitsAreTrue
    DuplicatesAreBlocked
\* A pipeline, a backtest or an order comes to its end.
CHECK_DEADLOCK FALSE
