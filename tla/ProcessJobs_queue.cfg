\* A full queue: three jobs, one slot to run and one to wait, no keys.
CONSTANTS
    Instances = {i1, i2}
    Jobs = {j1, j2, j3}
    Keys = {}
    None = None
    MaxConcurrent = 1
    MaxQueued = 1
    MaxRetained = 1
    Overlap = FALSE
    LeaseMayLapse = FALSE
    RenewalRaces = FALSE
    StoreMayFail = FALSE
    CrossCancel = FALSE
SYMMETRY Symmetry
SPECIFICATION Spec
INVARIANTS
    MemoryAgreesWithRecord
    
    
