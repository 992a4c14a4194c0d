CONSTANTS
    p1 = p1  p2 = p2  w1 = w1  w2 = w2  b0 = b0  b1 = b1  b2 = b2  n1 = n1  n2 = n2
    Projects = {p1, p2}
    Warehouses = {w1, w2}
    Buckets = {b0, b1, b2}
    Names = {n1, n2}
    Estate = b0
    None = None
    Requests = {1, 2}
    MaxObjects = 6
    Offers <- MCOffers
    Parts = {"estate", "drift", "key", "view"}
    a1 = a1  a2 = a2  a3 = a3  drop = drop  rename = rename
    Attempts = {a1, a2, a3}
    Endpoints = {drop, rename}
    Namings <- MCNamings
    NoAttempt = NoAttempt
    Lease = 1
    MaxTime = 2
    MaxLosses = 1
    Waiters = {a, b}
    Writers = {x, y}
    Tables = {t, u}
    LIMIT = 1
    MaxWrites = 2
    MaxStarts = 1
SPECIFICATION MCSpec
SYMMETRY AlikeThreads
CHECK_DEADLOCK FALSE
INVARIANTS
    TenantsStayApart
    EstateStaysWhole
    CleanMeansClean
    OneOutcomePerKey
    NoViewFromBeforeOwnWrite
PROPERTIES
    LifecycleIsKept
    StandingKeepsGrants
    TicksSpareWhatStands
