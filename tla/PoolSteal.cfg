SPECIFICATION Spec
CONSTANTS
    a = a
    b = b
    c = c
    d = d
    e = e
    f = f
    NThreads = 2
    Items = {a, b, c, d}
    Roots = {a}
    HereItems = {}
    HereId <- NoHere
    Spawns <- Fan4
    Swappable = {a, b, c, d}
    MayFail = {b}
    Props <- AllStealing
    Settings <- None
    StartMayFail = FALSE
    SwapMayFail = FALSE
    Spurious = TRUE
    LteCounts = {}
    MaxStarts = 1
    CountBound = 0
    Main = Main
    Free = Free
    Token = Token
    NoItem = NoItem
INVARIANTS
    TypeOK
    CountersExact
    NoLostWork
    NoForgottenThread
    NoForgottenMain
PROPERTIES
    ImplementsWorkPool
