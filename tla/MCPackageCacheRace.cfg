SPECIFICATION Spec
CONSTANTS
    alice = alice
    bob = bob
    carol = carol
    Callers = {c1, c2}
    Configs = {alice, bob}
    PackageIds = {p, q}
    Fetches = {f1, f2, f3}
    NoFetch = NoFetch
    BaseUrl <- MCBaseUrl
    ApiKey <- MCApiKey
    TtlMs <- MCTtlMs
    MaxCachedPackages <- MCMaxCachedPackages
    DefaultMaxEntries = 1
    MaxTime = 1
    MaxClears = 1
SYMMETRY Symmetry
INVARIANTS
    TypeOK
    SingleFlight
    ClearBarrier
    OwnCredentialOnly
    NoDeadRegistration
    LruInclusion
PROPERTIES
    StoredWithinCap
CHECK_DEADLOCK FALSE
