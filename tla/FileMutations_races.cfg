\* Two operations on the same files at once, one stage; patches; and two clients
\* with stages.
CONSTANTS
    p = p
    q = q
    s1 = s1
    s2 = s2
    s3 = s3
    ann = ann
    bob = bob
    Owners = {ann, bob}
    Stages = {s1, s2, s3}
    StageLimit = 2
    OwnerLimit = 3
    OwnerStages = 2
    Ops = {o1, o2, o3}
    Paths = {p, q}
    Scenarios <- ScenariosOf
SYMMETRY Symmetry
SPECIFICATION PatchSpec
INVARIANTS
    PatchTypeOK
    StageAsSent
PROPERTIES
    
    PreviewsAreKept
