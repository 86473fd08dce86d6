SPECIFICATION Spec
CONSTANTS
    v1 = v1
    v2 = v2
    u1 = u1
    r1 = r1
    r2 = r2
    r3 = r3
    r4 = r4
    None = None
    MaxListings = 2
    MaxEdits = 1
    Versions <- MCVersions
    DefaultVersion = v1
    Users <- MCUsers
    Requests <- MCRequests
SYMMETRY Symmetry
INVARIANT InstallIsItsVersion
INVARIANT OrphansAreExplained
INVARIANT CountsRealInstalls
CHECK_DEADLOCK FALSE
