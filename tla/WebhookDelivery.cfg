SPECIFICATION Spec
CONSTANTS
    t1 = t1
    t2 = t2
    h1 = h1
    h2 = h2
    h3 = h3
    h4 = h4
    r1 = r1
    r2 = r2
    d1 = d1
    None = None
    Triggers <- MCTriggers
    Handles <- MCHandles
    Deliveries <- MCDeliveries
    Requests <- MCRequests
SYMMETRY Symmetry
CHECK_DEADLOCK FALSE
INVARIANTS
    NeverInvokedTwice
    DeliveredIsTrue
    
PROPERTIES
    OutcomeIsFinal
    KeepsLedger
