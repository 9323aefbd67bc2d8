SPECIFICATION Spec
CONSTANTS
    Procs = {p1, p2, p3}
    Artifacts = {a1, a2}
    Nothing = Nothing
    Half = Half
    Unrecorded = Unrecorded
    STARTS = 4
    CRASHES = 2
    FAULTS = 1
CHECK_DEADLOCK FALSE
INVARIANTS
    TypeOK
    NeverHalf
    NothingLost
    PutBackOnFailure
PROPERTIES
    EveryFetchEnds
