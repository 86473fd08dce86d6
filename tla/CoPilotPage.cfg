SPECIFICATION Spec
CONSTANTS
    h1 = h1
    h2 = h2
    None = None
    Handlers <- MCHandlers
    MaxOpens = 2
CHECK_DEADLOCK FALSE
INVARIANTS
    
    SpinnerHasHandler
PROPERTIES
    SpinnerStops
