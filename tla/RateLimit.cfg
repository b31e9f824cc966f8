\* The clock is bounded and users need not send requests: the run may stop.
CHECK_DEADLOCK FALSE
SPECIFICATION Spec
CONSTANTS
    q1 = q1
    q2 = q2
    q3 = q3
    q4 = q4
    Requests = {q1, q2, q3, q4}
    Tier <- MCTier
    RateLimits <- MCRateLimits
    MayFail = {q1}
    WindowSeconds = 2
    Second = 2
    MaxDelay = 1
    MaxTime = 7
SYMMETRY Symmetry
INVARIANTS TypeOK WindowBound RefusedOverLimit RetryAfterInRange
