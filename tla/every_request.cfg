SPECIFICATION Spec
CONSTANTS
    d1 = d1  d2 = d2  c1 = c1  c2 = c2  h1 = h1  h2 = h2  h3 = h3  w1 = w1  w2 = w2
    Free = Free
    Hashes = {h1, h2, h3}
    Drivers = {w1, w2}
    Deliveries = {d1, d2}
    Contracts = {c1, c2}
    Calls = {k1, k2}
    Monitors = {m1}
    Profiles <- EveryRequest
    TTL = 1
    FundWindow = 1
    MaxTime = 1
    MaxFaults = 1
    LocksExpire = FALSE
INVARIANTS RecordsAreSound MutualExclusion
PROPERTIES ScansRespectLateWrites
SYMMETRY Symmetry
