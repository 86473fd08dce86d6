SPECIFICATION Spec
CONSTANTS
    Streams = {s1}
    Readers = {r1, r2}
    MaxStatus = 1
    MaxCancels = 1
CHECK_DEADLOCK FALSE
INVARIANTS
    SentInOrder
    ClosedKnowsOutcome
    OneOutcome
    EntryIsTruthful
    
PROPERTIES
    WatchersAreTold
    EntrySettles
    
