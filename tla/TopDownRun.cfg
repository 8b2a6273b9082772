SPECIFICATION Spec
CONSTANTS
    r = r
    a = a
    b = b
    c = c
    d = d
    e = e
    Dirs = {r, a, b, c, d, e}
    Root = r
    Subdirs <- Tree
    Perms <- Assignments
    Files <- FileCounts
    Options <- CommandLines
    External = {c}
    N = 2
    MaxRuns = 2
    MaxFaults = 1
    NoDir = NoDir
CHECK_DEADLOCK FALSE
INVARIANTS
    OneWriterPerDb
    
PROPERTIES
    Finishes
