\* Two submissions at a time, two workers, one failing call, whose effect may have taken place.
CONSTANTS
    RetryLoop = RetryLoop
    Bundle = {1, 2}
    Client = {c1}
    ClientOf <- MCClientOf
    Priority <- MCPriority
    Handlers = {h1, h2}
    Workers = {w1, w2}
    QueueDepth = 1
    MaxRetries = 2
    MaxInFlightPerClient = 2
    MaxFaults = 1
    LostReplies = TRUE
    MayStop = FALSE
VIEW FaultView
SYMMETRY ThreadSymmetry
SPECIFICATION Spec
INVARIANTS
    OneOwner
    RecordStaysPut
PROPERTIES
    TrailsTell
    ImplementsLedger
CHECK_DEADLOCK FALSE
