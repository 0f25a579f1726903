SPECIFICATION FairSpec
CONSTANTS
    Procs = {p1, p2, p3}
    Nobody = Nobody
    Runs = {r1}
    Stages = {1, 2}
    Backends = {"postgres", "sqlite"}
    SamePid = FALSE
    Ttl = 4
    MaxTokens = 5
    AnswersArrive = TRUE
    Timely = TRUE
INVARIANTS
    MutualExclusion
    HoldsWhileWorking
PROPERTIES
    LocksComeBack
