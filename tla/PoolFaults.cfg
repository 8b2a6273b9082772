SPECIFICATION FairSpec
CONSTANTS
    a = a
    b = b
    c = c
    d = d
    e = e
    f = f
    NThreads = 2
    Items = {a, b}
    Roots = {b}
    HereItems = {a}
    HereId <- HereZero
    Spawns <- Flat
    Swappable = {a, b}
    MayFail = {b}
    Props <- Plain
    Settings <- Reconfigure
    StartMayFail = TRUE
    SwapMayFail = TRUE
    Spurious = FALSE
    LteCounts = {}
    MaxStarts = 2
    CountBound = 2
    Main = Main
    Free = Free
    Token = Token
    NoItem = NoItem
INVARIANTS
    StatisticsExact
PROPERTIES
    ImplementsWorkPool
    HangsOnlyWhenStuck
CHECK_DEADLOCK FALSE
