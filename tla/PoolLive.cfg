SPECIFICATION StealingFairSpec
CONSTANTS
    a = a
    b = b
    c = c
    d = d
    e = e
    f = f
    NThreads = 2
    Items = {a, b, c}
    Roots = {a, c}
    HereItems = {}
    HereId <- NoHere
    Spawns <- Chain
    Swappable = {a, b, c}
    MayFail = {b}
    Props <- AllLive
    Settings <- None
    StartMayFail = FALSE
    SwapMayFail = FALSE
    Spurious = FALSE
    LteCounts = {1}
    MaxStarts = 1
    CountBound = 0
    Main = Main
    Free = Free
    Token = Token
    NoItem = NoItem
PROPERTIES
    CallsReturn
    WorkIsProcessed
    
    
