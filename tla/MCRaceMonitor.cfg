SPECIFICATION Spec
CONSTANTS
    CLOCKS = 4
    THREADS = 2
    Threads = {t1, t2}
    Keys = {m1, m2}
    Words = {w1}
    NoKey = NoKey
    NoThread = NoThread
    NoWord = NoWord
    Continues = FALSE
    EDGES = 2
    PROBES = 2
    Home <- LastHome
SYMMETRY Interchangeable
INVARIANTS
    NoFalseReport
    EdgesCarry
PROPERTIES
    PublicationsAdvance
