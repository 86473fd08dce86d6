SPECIFICATION SetupSpec
CONSTANT
    Manifests <- MCManifests
CHECK_DEADLOCK FALSE
INVARIANTS
    VerdictsAgree
    NothingDropped
