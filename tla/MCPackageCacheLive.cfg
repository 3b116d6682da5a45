SPECIFICATION FairSpec
CONSTANTS
    alice = alice
    bob = bob
    carol = carol
    Callers = {c1, c2}
    Configs = {alice, carol}
    PackageIds = {p}
    Fetches = {f1, f2}
    NoFetch = NoFetch
    BaseUrl <- MCBaseUrl
    ApiKey <- MCApiKey
    TtlMs <- MCTtlMs
    MaxCachedPackages <- MCMaxCachedPackages
    DefaultMaxEntries = 1
    MaxTime = 1
    MaxClears = 1
INVARIANTS
    HitWithinTtl
PROPERTIES
    EveryCallAnswered
    ReadsThrough
