SPECIFICATION FairSpec
CONSTANTS
    o1 = o1  o2 = o2  o3 = o3  u1 = u1  u2 = u2
    c1 = c1  c2 = c2  k1 = k1  k2 = k2  t1 = t1  t2 = t2
    NoOrder = NoOrder
    Orders <- TwoOrders
    Users <- TwoUsers
    UserOf <- EachItsUser
    Consumers = {c1}
    Checkers = {k1}
    Expirers = {t1}
    TotalStock = 1
    Faults = {"after_commit"}
    MaxFailures = 1
PROPERTIES UnpaidEnds
CHECK_DEADLOCK FALSE
