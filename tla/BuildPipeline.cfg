SPECIFICATION Spec
CONSTANTS
    Planned <- MCPlanned
    Files <- MCFiles
    ScaffoldFiles <- MCScaffoldFiles
    Expected <- MCExpected
    Calls <- MCCalls
    Looped <- MCLooped
INVARIANTS
    DoneHasFiles
    ShipReadyMeansAllDone
    ProgressCounts
PROPERTIES
    NoWorkAfterCancel
    EarlyCancelIsFinal
    BuildEnds
    KeepsPromise
