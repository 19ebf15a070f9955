SPECIFICATION Spec
CONSTANTS
    a = a
    b = b
    c = c
    Process = {a, b, c}
    Ignored = {c}
    CGroup = {"focused", "companions", "unknown"}
    Focused = "focused"
    Companion <- MCCompanion
    Configured = {"focused", "companions"}
    Unopenable = {"focused", "home"}
    QueueSize = 1
    SocketSize = 1
    MaxConcurrent = 2
    Mortal = {a}
    MaxExecs = 3
CHECK_DEADLOCK FALSE
INVARIANTS
    MovesInEffect
PROPERTIES
    NewestServed
