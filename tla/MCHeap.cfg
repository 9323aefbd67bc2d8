SPECIFICATION Spec
CONSTANTS
    Threads = {t1, t2}
    Sizes = {1, 2}
    LARGEST = 2
    REGION = 10
    REGIONS = 2
    BEGINS = 3
    BITS = 12
    NoThread = NoThread
    NoCap = NoCap
SYMMETRY Interchangeable
CONSTRAINT OneStamp
INVARIANTS
    TypeOK
    NoFalseRefusal
    BlocksAccounted
    RunsAreInstances
    SweepFindsLive
    Ladder
    Refound
    WasteCapped
    BlockFits
PROPERTIES
    Lifetimes
    ChecksDivide
