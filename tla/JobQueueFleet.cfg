SPECIFICATION FairSpec
CONSTANTS
    Workers = {w1, w2}
    FirstWorkers = {w1}
    NoWorker = NoWorker
    Payloads = {p1, p2}
    NoPayload = NoPayload
    High = {p1}
    MaxJobs = 2
    MaxClaims = 3
    MaxAttempts = 2
    MaxDrops = 1
    Concurrency = 1
    MaxDepth = 2
    SingleWriter = TRUE
    HeartbeatsLand = TRUE
    AnswersArrive = TRUE
    OperatorRetries = FALSE
INVARIANTS
    SingleExecution
    ExecutionHoldsRow
    MapMatchesExecutions
    OneLetterPerJob
PROPERTIES
    CompletedIsFinal
    ImplementsLedger
    EveryPayloadEnds
    ShutdownEnds
