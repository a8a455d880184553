CONSTANTS
    RetryLoop = RetryLoop
    Bundle = {1}
    Client = {c1}
    ClientOf <- MCClientOf
    Priority <- MCPriority
    Handlers = {h1}
    Workers = {w1}
    QueueDepth = 1
    MaxRetries = 1
    MaxInFlightPerClient = 1
    MaxFaults = 0
    LostReplies = FALSE
    MayStop = FALSE

SPECIFICATION Spec
INVARIANTS
    QueuedHasOwner
CHECK_DEADLOCK FALSE
