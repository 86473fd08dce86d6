SPECIFICATION Spec
CONSTANTS
    alpha = alpha
    beta = beta
    Skills = {alpha, beta}
    Owned <- MCOwned
    Builds = {b1}
    Messages = {m1, m2}
CHECK_DEADLOCK FALSE
INVARIANTS
    DoneHasSkills
    IterationsInOrder
    
PROPERTIES
    NoCallAfterCancel
    LoopsEnd
