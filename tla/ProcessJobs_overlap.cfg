\* Two overlapping instances, heartbeats in time, transactions that may throw.
CONSTANTS
    Instances = {i1, i2}
    Jobs = {j1, j2}
    Keys = {k1}
    None = None
    MaxConcurrent = 1
    MaxQueued = 1
    MaxRetained = 1
    Overlap = TRUE
    LeaseMayLapse = FALSE
    RenewalRaces = FALSE
    StoreMayFail = TRUE
    CrossCancel = FALSE
SYMMETRY Symmetry
SPECIFICATION Spec
INVARIANTS
    TypeOK
    OneJobPerKey
    NoFalseOrphan
PROPERTIES
    NoLaunchWhileStopping
