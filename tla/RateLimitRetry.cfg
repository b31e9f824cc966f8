\* The clock is bounded and users need not send requests: the run may stop.
CHECK_DEADLOCK FALSE
SPECIFICATION Spec
CONSTANTS
    q1 = q1
    q2 = q2
    q3 = q3
    q4 = q4
    Requests = {q1, q2, q3, q4}
    Tier <- MCFree
    RateLimits <- MCRateLimits
    MayFail = {}
    WindowSeconds = 2
    Second = 2
    MaxDelay = 0
    MaxTime = 8
SYMMETRY Symmetry
INVARIANTS RetryAfterSuffices
