SPECIFICATION SharedSpec
CONSTANTS
    CLOCKS = 4
    THREADS = 2
    Threads = {t1, t2}
    RWLocks = {l}
    Semaphores = {}
    Atomics = {}
    Keys = {l}
    Words = {w1}
    OBJECTS = 1
    POSTS = 2
    Whole = TRUE
    NoKey = NoKey
    NoThread = NoThread
    NoWord = NoWord
    Continues = FALSE
    EDGES = 2
    PROBES = 2
    Home <- LastHome
SYMMETRY Interchangeable
INVARIANTS
    NoFalseReport
