CONSTANTS
    Catalogue <- LookupModules
    MaxRequests = 2
    AskedServices <- MCAskedServices
SPECIFICATION LookupSpec
INVARIANTS
    HitsSurvive
    ReportIsEarned
    FeedersFirst
PROPERTIES
    FrozenOnceReported
    Returns
CHECK_DEADLOCK FALSE
