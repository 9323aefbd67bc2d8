SPECIFICATION BirthsSpec
CONSTANTS
    CLOCKS = 3
    THREADS = 4
    Threads = {main, a, b, c}
    Main = main
    Spawners = {main, a}
    Writers = {main, a, b, c}
    Fails = TRUE
    Quits = TRUE
    Gaps = FALSE
    BIRTHS = 1
    Keys = {k1, k2, k3}
    Words = {w1}
    NoKey = NoKey
    NoThread = NoThread
    NoWord = NoWord
    NoSlot = NoSlot
    Continues = FALSE
    EDGES = 2
    PROBES = 2
    Home <- LastHome
INVARIANTS
    NoFalseReport
    SlotsAccounted
    BornAsAsked
SYMMETRY Interchangeable
