SPECIFICATION FairSpec
CONSTANTS
    a = a  b = b  d1 = d1  d2 = d2
    Tasks = {a, b}
    Dispatchers = {d1, d2}
    Batch = 2
    Workers = 1
    MaxRetry = 2
    MaxFailures = 2
INVARIANTS TypeOK ClaimedOnce
PROPERTIES RetryNeverDecreases ImplementsRelay EventuallyDelivered EventuallySent
CHECK_DEADLOCK FALSE
