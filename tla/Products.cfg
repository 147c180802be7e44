SPECIFICATION FairSpec
CONSTANTS
    None = None  i1 = i1  i2 = i2  a = a  b = b
    Instances = {i1, i2}
    Callers = {a, b}
    L1TTL = 1
    L2TTL = 2
    NullTTL = 1
    Jitter = 1
    MaxLoad = 1
    MaxVersion = 2
    MaxFailures = 1
INVARIANTS TypeOK StaleBounded
PROPERTIES EventuallyFresh EveryCallReturns
