SPECIFICATION MCSpec
CONSTANTS
    Events = {e1, e2}
    Working = {e1}
    Requests = {r1, r2}
    Drainers = {d1, d2}
    MaxFaults = 2
    None = None
INVARIANTS CommitsChain AnswersHold WorkKept
PROPERTIES RequestsReturn
