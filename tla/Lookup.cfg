SPECIFICATION LookupFairSpec
CONSTANTS
    Callers = {c1, c2}
    Domains = {d1}
    universal = universal
    registry = registry
    Order <- TwoServers
    Second = universal
    Leads <- ToRegistry
    Authoritative <- Registry
    None = None
    Liars <- BothMayLie
    Rescue = TRUE
    ServerThreshold = 1
    GlobalThreshold = 1
    Attempts = 2
    BucketSize = 1
    QueueSize = 1
    MaxCalls = 2
    MaxAges = 1
INVARIANTS
    SurvivorsAreFree
    OneFetchPerName
    AvailableIsRecent
PROPERTIES
    LookupsEnd
