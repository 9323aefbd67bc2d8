SPECIFICATION EdgeSpec
CONSTANTS
    Places = {r1, r2, s1, s2, s3}
    Slots = {s1, s2, s3}
    Scratch = Scratch
    Second = Second
CHECK_DEADLOCK FALSE
INVARIANTS
    Parallel
    ScratchFree
    FewestExtra
    EdgeDone
PROPERTIES
    EdgeEnds
