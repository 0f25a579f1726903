SPECIFICATION Spec
CONSTANTS
    Candidates = {c1, c2}
    LastStage = 3
    MaxExecs = 2
    MaxAttempts = 2
    MinBatch = 1
    InitialBatch = 1
    MaxBatch = 2
CHECK_DEADLOCK FALSE
INVARIANT
    PersistsAll
