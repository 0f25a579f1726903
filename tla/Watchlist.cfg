SPECIFICATION FairSpec
CONSTANTS
    Replicas = {r1, r2}
    Pollers = {p1, p2}
    MaxJobs = 2
    MaxFaults = 1
INVARIANTS
    TypeOK
    TickIsFired
PROPERTIES
    DropIsAnnounced
