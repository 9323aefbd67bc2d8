SPECIFICATION SharedSpec
CONSTANTS
    CLOCKS = 4
    THREADS = 2
    Threads = {t1, t2}
    RWLocks = {l}
    Semaphores = {s}
    Atomics = {a}
    Keys = {l, s, a}
    Words = {w1}
    POSTS = 2
    OBJECTS = 1
    Whole = FALSE
    NoKey = NoKey
    NoThread = NoThread
    NoWord = NoWord
    Continues = FALSE
    EDGES = 3
    PROBES = 3
    Home <- LastHome
SYMMETRY Interchangeable
INVARIANTS
    NoFalseReport
    HandedOnIsCovered
