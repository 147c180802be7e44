SPECIFICATION Spec
CONSTANTS
    o1 = o1  o2 = o2  o3 = o3  u1 = u1  u2 = u2
    c1 = c1  c2 = c2  k1 = k1  k2 = k2  t1 = t1  t2 = t2
    NoOrder = NoOrder
    Orders <- ThreeOrders
    Users <- TwoUsers
    UserOf <- OneBuysTwice
    Consumers = {c1, c2}
    Checkers = {k1}
    Expirers = {t1}
    TotalStock = 1
    Faults <- AllFaults
    MaxFailures = 1
SYMMETRY Goroutines
INVARIANTS TypeOK NoOversell OneOrderPerUser
PROPERTIES SettledIsFinal KeepsOrderBook
CHECK_DEADLOCK FALSE
