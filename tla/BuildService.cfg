SPECIFICATION Spec
CONSTANTS
    Key = {k1, k2}
    Client = {c1, c2}
    Worker = {w1, w2}
    QueueSize = 1
    MaxRetainedJobs = 1
    MaxRetainedSnap = 1
    MaxSnapshots = 2
    MaxHead = 1
    MaxSubmits = 2
    MaxExpiries = 1
CHECK_DEADLOCK FALSE
INVARIANTS LiveJobIsHeld ResultsAreSound ArtifactsBounded
PROPERTIES JobsAreDecided
