SPECIFICATION Spec
CONSTANTS
    Streams = {s1}
    Readers = {}
    MaxStatus = 0
    MaxCancels = 0
CHECK_DEADLOCK FALSE
INVARIANTS
    BlockedIsNotDone
