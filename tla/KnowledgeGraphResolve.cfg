SPECIFICATION FairSpec
CONSTANTS
    Transaction <- MCTransaction
    Spelling <- MCSpelling
    VendorName <- MCVendorName
    Normalize <- MCNormalize
    Blank <- MCBlank
    Request = {r1, r2}
    None = None
INVARIANTS
    TypeOK
    ResolutionReachesGraph
    KnownNamesReused
PROPERTIES
    EveryRequestAnswered
CHECK_DEADLOCK FALSE
