CONSTANTS
    flushEvery = 3
    maxEntries = 2
    MaxAppends = 6
    MaxCrashes = 1
    MaxErrors = 1
SPECIFICATION Spec
INVARIANT EvidenceIsDurable
CHECK_DEADLOCK FALSE
