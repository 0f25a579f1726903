SPECIFICATION Spec
CONSTANTS
    Calls = {c1, c2, c3}
    Backends = {"sqlite", "postgres"}
    MaxBids = 2
    MaxAdds = 3
    MaxRemovals = 2
    MaxFaults = 1
CHECK_DEADLOCK FALSE
INVARIANTS
    OneOutcome
    WonIsBooked
    PaidIsTracked
