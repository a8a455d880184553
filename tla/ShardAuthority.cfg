CONSTANTS
    Process = {p1, p2}
    Bundle = {b1}
    LeaseTTL = 1
    MaxNow = 1
    MaxStarts = 3
SPECIFICATION Spec
INVARIANTS
    OneHolder
PROPERTIES
    OrphansStayFrozen
    AloneGetsAuthority
CHECK_DEADLOCK FALSE
