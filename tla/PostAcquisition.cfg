SPECIFICATION Spec
CONSTANTS
    Runs = {r1, r2, r3}
    NoRun = NoRun
    NSteps = 2
    MaxResets = 1
    MaxFaults = 1
CHECK_DEADLOCK FALSE
PROPERTIES
    DoneIsNotRepeated
    DoneStays
    CalledRuns
