SPECIFICATION Spec
CONSTANTS
    Threads = {t1, t2}
    PAGES = 3
    GRAINS = 2
    ADOPTED = 1
    MAPS = 2
    CARVES = 2
    INSTANCES = 3
SYMMETRY Interchangeable
CHECK_DEADLOCK FALSE
CONSTRAINT Sound
INVARIANTS
    PlaneTells
    PlacedFree
    RangeKept
    ArenaReached
    NoneRefused
