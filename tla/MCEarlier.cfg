CONSTANTS
    c1 = c1  w1 = w1
    Bundles = {b1, b2, b3}
    Clients = {c1}
    ClientOf <- ClientOfBundle
    Workers = {w1}
    QueueDepth = 1
    MaxInFlightPerClient = 2
    MaxRetries = 1
    MaxFaults = 1
    MaxCrashes = 1
    NoBundle = NoBundle
    None = None
    BlockGas = 4
    MaxHead = 2
    Pools <- PoolAnswers
    BaseFee <- BaseFees
    Configs <- Settings
    MaxRuns = 3
    MaxGraphNode = 3
    MaxCapacity = 2
    MaxLeaves = 5
    Bundle = {1, 2}
    Worker = {w1}
    QueueCap = 1
    InFlightCap = 2
    RetryCap = 1
    MaxErrors = 1
SYMMETRY BundleSymmetry
SPECIFICATION EarlierSpec
INVARIANTS
    SlotsBalance
    AckedIsDurable
    WorkHasOwner
    RunsReproduce
    AlgorithmsMeetDefinitions
    SelectionIsGreedy
PROPERTIES
    V2KeepsTheLedger
CHECK_DEADLOCK FALSE
