SPECIFICATION BirthsSpec
CONSTANTS
    CLOCKS = 5
    THREADS = 4
    Threads = {main, a, b, c}
    Main = main
    Spawners = {main, b}
    Writers = {a}
    Fails = FALSE
    Quits = FALSE
    Gaps = TRUE
    BIRTHS = 3
    Keys = {k1, k2, k3}
    Words = {w1}
    NoKey = NoKey
    NoThread = NoThread
    NoWord = NoWord
    NoSlot = NoSlot
    Continues = FALSE
    EDGES = 2
    PROBES = 2
    Home <- LastHome
INVARIANTS
    NoFalseReport
SYMMETRY Interchangeable
