SPECIFICATION Spec
CONSTANTS
    GTTs = {g1, g2}
    Symbols = {s1}
    Prices = {1}
    BadTriggers = {text}
    MaxConditions = 2
    MaxValidity = 365
    Validities = {30}
    Unknown = Unknown
    Other = g2
PROPERTY
    SweepExpiresLate
\* The service may be stopped.
CHECK_DEADLOCK FALSE
