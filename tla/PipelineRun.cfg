SPECIFICATION FairSpec
CONSTANTS
    Candidates = {c1}
    LastStage = 3
    MaxExecs = 2
    MaxAttempts = 2
    MinBatch = 1
    InitialBatch = 1
    MaxBatch = 2
CHECK_DEADLOCK FALSE
INVARIANTS
    CleanRunIsComplete
    RecommendedIsVetted
    JobAndRowAgree
PROPERTIES
    EveryRunEnds
