SPECIFICATION Spec
CONSTANTS
    p1 = p1
    p2 = p2
    sp1 = sp1
    sp2 = sp2
    Requests <- MCRequests
    Specialists <- MCSpecialists
    Targets <- MCTargets
    MaxBuilds = 1
SYMMETRY Symmetry
INVARIANTS
    
    StageIsUnlocked
