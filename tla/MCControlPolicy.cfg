SPECIFICATION LiveSpec
CONSTANTS
    Situations <- SomeSituations
    Offers <- SomeOffers
    QueueCap = 4
    Second = 10
    RequestTimeout = 20
    MaxQueueAge = 30
    MinDeadlineSlack = 5
    RetryBackoff = 5
    MinNetValue = 0
    WorkCost = 20
    MaxRestarts = 1
INVARIANTS UnsafeAdmitsNothing
PROPERTIES PolicySettles DegradedRecovers
CHECK_DEADLOCK FALSE
