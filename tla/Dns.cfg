SPECIFICATION FairSpec
CONSTANTS
    Callers = {c1, c2}
    Domains = {d1}
    Taken = {d1}
    Hosts = {1, 2}
    None = None
    MaxFailures = 2
    MinHealthy = 1
    Quorum = 1
    MaxEvents = 3
INVARIANTS
    PurgedStaysPurged
    PassedIsProven
PROPERTIES
    LaxIsNoticed
    UpIsUsed
