SPECIFICATION Spec
CONSTANTS
    Threads = {t1, t2, t3}
    r = r
    x = x
    y = y
    p = p
    q = q
    z = z
    Dirs = {r, x, y, p, q, z}
    Roots = {r}
    RootLevel = 0
    Subdirs <- Tree
    MinLevel = 1
    MaxLevel = 2
    MayNotOpen = {y}
    MayNotStat = {y}
    MayNotDescend = {q}
    MayStop = {x}
    Nobody = Nobody
    Destroyed = Destroyed
INVARIANTS
    NoUseAfterFree
    SubtreeIsDone
PROPERTIES
    AscendsUnlessHung
    NothingLeaks
