\* Two clients and two tools that ask first, with one restart, crash or torn file.
CONSTANTS
    Clients = {c1, c2}
    Args = {a1, a2}
    Limit = 2
    Window = 2
    Ttl <- TtlOf
    MaxRecords <- RecordsOf
    MaxIssues = 2
    RestartMax = 2
    RestartWindow = 1
    MaxTriggers = 1
    MaxCrashes = 1
    MaxTime = 2
    MaxEvents = 6
SYMMETRY Symmetry
SPECIFICATION Spec
INVARIANTS
    TypeOK
    
    ForgottenAreOld
PROPERTIES
    ApprovedOnce
