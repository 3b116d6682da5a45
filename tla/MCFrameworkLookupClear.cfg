SPECIFICATION Spec
CONSTANTS
    alice = alice
    bob = bob
    Callers = {c1, c2}
    Configs = {alice}
    Titles = {t1}
    PackageIds = {p1, p2}
    Fetches = {f1, f2}
    NoFetch = NoFetch
    NoEntry = NoEntry
    BaseUrl <- MCBaseUrl
    ApiKey <- MCApiKey
    TitleTtl = 2
    ListingTtl = 1
    MaxTime = 1
    MaxClears = 1
SYMMETRY Symmetry
CHECK_DEADLOCK FALSE
INVARIANTS
    TitleClearBarrier
