SPECIFICATION Spec
CONSTANTS
    CLOCKS = 2
    THREADS = 1
    Threads = {t1, t2}
    Keys = {m1, m2, m3}
    Words = {w1}
    NoKey = NoKey
    NoThread = NoThread
    NoWord = NoWord
    Continues = FALSE
    EDGES = 2
    PROBES = 2
    Home <- LastHome
SYMMETRY Interchangeable
INVARIANTS
    TypeOK
    OneCellPerKey
