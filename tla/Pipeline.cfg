SPECIFICATION Spec
CONSTANTS
    w1 = w1
    w2 = w2
    c1 = c1
    c2 = c2
    a = a
    b = b
    NoTask = NoTask
    Infinite <- MinusOne
    Worker = {w1, w2}
    Client = {c1}
    Offered <- Mixed
    RetuneTo <- ToLonger
    MaxConcurrent = 1
    CacheSize = 1
    MaxHandle = 2
    MaxFollowUps = 2
    Throttling = TRUE
    Failures = TRUE
CHECK_DEADLOCK FALSE
SYMMETRY WorkerSymmetry
INVARIANTS
    TypeOK
    BooksAgree
    QueuedTunesAlive
    CapacityRespected
PROPERTIES
    LifecycleSpec
