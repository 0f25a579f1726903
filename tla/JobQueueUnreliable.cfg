SPECIFICATION Spec
CONSTANTS
    Workers = {w1}
    FirstWorkers = {w1}
    NoWorker = NoWorker
    Payloads = {p1}
    NoPayload = NoPayload
    High = {}
    MaxJobs = 2
    MaxClaims = 2
    MaxAttempts = 1
    MaxDrops = 1
    Concurrency = 2
    MaxDepth = 2
    SingleWriter = FALSE
    HeartbeatsLand = FALSE
    AnswersArrive = FALSE
    OperatorRetries = TRUE
INVARIANTS
    NothingLost
    WithinConcurrency
