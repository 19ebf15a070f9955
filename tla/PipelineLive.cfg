SPECIFICATION LiveSpec
CONSTANTS
    w1 = w1
    w2 = w2
    c1 = c1
    c2 = c2
    a = a
    b = b
    NoTask = NoTask
    Infinite <- MinusOne
    Worker = {w1, w2}
    Client = {c1}
    Offered <- Timed
    RetuneTo <- ToTwo
    MaxConcurrent = 2
    CacheSize = 1
    MaxHandle = 2
    MaxFollowUps = 2
    Throttling = FALSE
    Failures = FALSE
CHECK_DEADLOCK FALSE
INVARIANTS
    CachedNeverApplied
    LinkedAreTracked
    TimedHaveRemover
PROPERTIES
    UntuneEffective
    TimedRequestsExpire
