\* The same calls: two mutations run at once.
CONSTANTS
    Indexers = {i1}
    Editors = {e1}
    Readers = {r1}
    Capacity = 1
    MaxReplaced = 1
    MaxFaults = 2
SPECIFICATION FairSpec
INVARIANTS
    OneMutation
