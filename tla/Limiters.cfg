SPECIFICATION Spec
CONSTANTS
    u1 = u1  ip = ip  r1 = r1  r2 = r2
    l1 = l1  l2 = l2  l3 = l3  l4 = l4
    None = None
    Users = {u1}
    Ips = {ip}
    Requests = {r1, r2}
    Limiters = {l1, l2, l3, l4}
    UserRps = 1
    UserBurst = 2
    IpRps = 1
    IpBurst = 2
    TTL = 2
    MaxLives = 3
SYMMETRY Alike
INVARIANTS TypeOK RateKeptInLife ExcessBounded
PROPERTIES RefusedOnlyOverRate
