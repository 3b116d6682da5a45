SPECIFICATION FairSpec
CONSTANTS
    Identifiers = {d1, d2, d3}
    PageSize = 2
    MaxPages = 3
    Totals <- MCTotals
INVARIANTS
    TypeOK
    ListingIsComplete
    RequestsPayOff
PROPERTIES
    ListingEnds
CHECK_DEADLOCK FALSE
