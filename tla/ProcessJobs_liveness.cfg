\* Two jobs, a server that may crash or restart once, no failing transaction.
CONSTANTS
    Instances = {i1, i2}
    Jobs = {j1, j2}
    Keys = {}
    None = None
    MaxConcurrent = 1
    MaxQueued = 1
    MaxRetained = 1
    Overlap = FALSE
    LeaseMayLapse = FALSE
    RenewalRaces = FALSE
    StoreMayFail = FALSE
    CrossCancel = FALSE
SPECIFICATION FairSpec
PROPERTIES
    EveryJobEnds
