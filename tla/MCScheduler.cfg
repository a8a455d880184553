\* The queue: two pushers, two poppers, capacity 2.
CONSTANTS
    Nobody = Nobody
    Pushers = {p1, p2}
    Poppers = {w1, w2}
    Item <- MCItem
    Cap = 2
    MaxTime = 2
SPECIFICATION Spec
INVARIANTS
    TokenBalance
    ClosedMeansDrained
PROPERTIES
    OnlyBestOrWorstLeave
    TokenIsRedeemed
    CloseEndsPoppers
CHECK_DEADLOCK FALSE
