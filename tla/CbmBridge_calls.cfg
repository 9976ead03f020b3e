\* An indexing, an edit of the ADR and a read that takes the only slot.
CONSTANTS
    Indexers = {i1}
    Editors = {e1}
    Readers = {r1}
    Capacity = 1
    MaxReplaced = 1
    MaxFaults = 2
SPECIFICATION FairSpec
INVARIANTS
    TypeOK
    NothingLeaks
PROPERTIES
    
    
    AdrPreserved
