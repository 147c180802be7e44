SPECIFICATION Spec
CONSTANTS
    u1 = u1  u2 = u2  i1 = i1  i2 = i2  r1 = r1  r2 = r2
    Nobody = Nobody  Nowhere = Nowhere
    Users = {u1, u2}
    Instances = {i1, i2}
    Requests = {r1, r2}
    SoldOutTTL = 2
    UserLimitTTL = 1
    MaxDelay = 1
    MaxStock = 1
SYMMETRY Alike
INVARIANTS TypeOK
PROPERTIES RefusalIsRecent OpenAfterWarmUp
