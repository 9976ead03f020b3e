\* One job and every fault there is: overlapping instances, lapsed and renewed leases,
\* failing transactions, cancellation through the other instance.
CONSTANTS
    Instances = {i1, i2}
    Jobs = {j1}
    Keys = {k1}
    None = None
    MaxConcurrent = 1
    MaxQueued = 1
    MaxRetained = 1
    Overlap = TRUE
    LeaseMayLapse = TRUE
    RenewalRaces = TRUE
    StoreMayFail = TRUE
    CrossCancel = TRUE
SYMMETRY Symmetry
SPECIFICATION Spec
PROPERTIES
    ImplementsLedger
