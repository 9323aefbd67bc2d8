SPECIFICATION FairSpec
CONSTANTS
    ITEMS = 5
    JOBS = 3
INVARIANTS
    RunOnce
    PanicWaits
PROPERTIES
    MapsInOrder
    CallEnds
