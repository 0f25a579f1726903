SPECIFICATION Spec
CONSTANTS
    Procs = {p1, p2}
    Nobody = Nobody
    Runs = {r1, r2}
    Stages = {1}
    Backends = {"redis", "sqlite"}
    SamePid = FALSE
    Ttl = 2
    MaxTokens = 2
    AnswersArrive = FALSE
    Timely = FALSE
PROPERTIES
    OnlyHolderReleases
