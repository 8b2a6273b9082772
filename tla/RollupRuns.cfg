SPECIFICATION Spec
CONSTANTS
    r = r
    a = a
    b = b
    c = c
    Dirs = {r, a, b, c}
    Root = r
    Subdirs <- Tree
    Perms <- Assignments
    Files <- FileCounts
    Options <- CommandLines
    MaxRuns = 3
    MaxFaults = 1
    Threads = {t1, t2}
    NoJob = NoJob
    NoDir = NoDir
CHECK_DEADLOCK FALSE
INVARIANTS
    QueryComplete
    UnrollupRestores
    RolledUpLegally
    TreeSummaryExact
