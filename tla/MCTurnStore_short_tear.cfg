CONSTANTS
    Payloads = {p1}
    MaxTurns = 3
    MaxContexts = 2
    MaxFaults = 3
    TornLens = {4}
    WriteErrors = FALSE
    StrayAppends = FALSE
SPECIFICATION Spec
INVARIANT AckedHeadsDurable
CHECK_DEADLOCK FALSE
