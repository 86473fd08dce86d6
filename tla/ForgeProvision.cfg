SPECIFICATION Spec
CONSTANTS
    s1 = s1
    s2 = s2
    None = None
    Streams <- MCStreams
SYMMETRY Symmetry
CHECK_DEADLOCK FALSE
INVARIANTS
    
    LinkedIsSaved
