\* A split, a merge of its parts and recover(), with two crashes, a fault and an edit.
CONSTANTS
    split = split
    merge = merge
    recovery = recovery
    source = source
    left = left
    right = right
    Calls = {split, merge, recovery}
    Reads <- ReadsOf
    Writes <- WritesOf
    MaxEdits = 1
    MaxFaults = 1
    MaxCrashes = 2
SPECIFICATION Spec
INVARIANTS
    TypeOK
    OnePending
PROPERTIES
    AllOrNothing
    NothingLost
    RollbackRepeats
