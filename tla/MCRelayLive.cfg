\* Two workers, a drain or stop at any time, one failing call.
CONSTANTS
    RetryLoop = RetryLoop
    Bundle = {1}
    Client = {c1}
    ClientOf <- MCClientOf
    Priority <- MCPriority
    Handlers = {h1}
    Workers = {w1, w2}
    QueueDepth = 1
    MaxRetries = 2
    MaxInFlightPerClient = 1
    MaxFaults = 1
    LostReplies = TRUE
    MayStop = TRUE
SPECIFICATION Spec
PROPERTIES
    DecidedIsSealed
    RetryResolves
    StopEnds
CHECK_DEADLOCK FALSE
