SPECIFICATION Spec
CONSTANTS
    Drivers = {v1, v2}
    Loads = {x1, x2}
    Near = {v1}
    Dispatchers = {r1}
    Sweep = Sweep
    Pooler = Pooler
    Admins = {ad}
    NoDriver = NoDriver
    NoDelivery = NoDelivery
    Free = Free
    ExpansionSteps = 1
    MaxCalls = 2
    MaxTurns = 1
    PoolCandidates = 3
    LastPlace = 3
    Proximity = 1
    MaxPoolSize = 2
    Applications = {a1, a2}
    Proofs = {b1, b2}
    NoProof = NoProof
    NoApplication = NoApplication
    MaxProofAttempts = 1
    Owner = Owner
    FleetUsers = {u1, u2}
    FleetCalls = {c1, c2}
    MaxFleetCalls = 4
    MaxInvitations = 2
    DisputeCalls = {e1, e2}
    Urls = {g1, g2}
    MaxDisputes = 2
    MaxDisputeCalls = 3
    Users = {m1, m2}
    Emails = {ea, eb}
    Wallets = {wa}
    Parcels = {y1}
    Nothing = Nothing
    AccountCalls = {k1, k2}
    MaxAccountCalls = 2
    MaxFiles = 2
    Tracking = {n1, n2}
    Importers = {i1, i2}
    MaxRows = 2
    MaxText = 5
    NoImport = NoImport
    Requests = {q1, q2, q3}
    Nobody = Nobody
    MaxFaults = 2
    d1 = d1  d2 = d2  w1 = w1  w2 = w2  w3 = w3  w4 = w4
    Deliveries = {d1, d2}
    Writers = {w1, w2, w3, w4}
    Target <- MCTarget
    MaxAttempts = 2
    CanFail = TRUE
    Updates = {t1, t2}
    Syncs = {z1, z2}
    Spots = {s1}
    MaxAt = 2
    BatchLimit = 2
    MaxFixes = 3
    MaxRedisFaults = 1
    Customer = Customer
    ChatDrivers = {h1, h2}
    MaxTabs = 2
    MaxChat = 2
    MaxChatCalls = 4
    PushUsers = {p1, p2}
    NoUser = NoUser
    Registrations = {f1, f2, f3}
    Notices = {o1, o2}
    MaxClaimAttempts = 2
    MaxPushCalls = 3
    MaxPushFaults = 1
    SyncRequests = {j1, j2}
    Others = {l1}
    NoHash = NoHash
    MaxOthers = 1
    MaxChainEvents = 2
    MaxSyncs = 2
    MaxSyncFaults = 1
INVARIANTS TypeOK OneDeliveryPerDriver StrandedOnlyByRace PoolsAreFeasible OnboardingIsAllOrNothing
    NoMemberIsLost EvidenceIsKept KeysHaveFiles ReportIsExact SyncReportIsTrue RunsOnce SettledIsNotRerun
    HeardOnceInOrder KeptIsStored ChatIsOnRecord OneOwnerSurvives
PROPERTIES LogIsAppendOnly
CHECK_DEADLOCK FALSE
