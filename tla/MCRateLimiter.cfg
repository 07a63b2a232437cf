SPECIFICATION Spec
CONSTANTS
    Requests = {1, 2, 3, 4, 5}
    Callers <- MCCallers
    ConfiguredLimit = 2
    ConfiguredWindow = 2
    DefaultWindow = 120
    Second = 2
    MaxTime = 4
    NoCaller = NoCaller
    NoCounter = NoCounter
CONSTRAINT Numbered
INVARIANTS
    SlidingQuota
    WindowsInOrder
PROPERTIES
    RetryAfterSuffices
    RejectedOnlyWhenExhausted
CHECK_DEADLOCK FALSE
