\* Two overlapping instances that never miss a heartbeat.
CONSTANTS
    Instances = {i1, i2}
    Jobs = {j1}
    Keys = {}
    None = None
    MaxConcurrent = 1
    MaxQueued = 1
    MaxRetained = 1
    Overlap = TRUE
    LeaseMayLapse = FALSE
    RenewalRaces = TRUE
    StoreMayFail = FALSE
    CrossCancel = FALSE
SYMMETRY Symmetry
SPECIFICATION Spec
INVARIANT NoFalseOrphan
