SPECIFICATION Spec
CONSTANTS
    Replicas = {r1, r2}
    Adders = {a1, a2}
    Plans = {"pro", "team"}
    Known = {"team"}
    Limit <- Limits
    Overrides = {"pro"}
    None = None
    Faults = {"store", "answer", "release", "crash"}
    MaxFaults = 1
    MaxEvents = 2
    Reported = {"past_due"}
    Months = 2
INVARIANTS
    AppliedOnce
    GrantWasPaid
    WithinALimit
    MeterCoversTracked
    NoOrphanClaim
SYMMETRY
    Symmetric
