SPECIFICATION Spec
CONSTANTS
    a = a
    b = b
    k1 = k1
    k2 = k2
    c1 = c1
    c2 = c2
    None = None
    IDs = {a, b}
    Vals = {k1, k2}
    Cfgs = {c1}
    Creates = {}
    Bases <- OneBase
    MaxRun = 1
    Fsync = "none"
    MaxBatch = 2
    MaxJournal = 3
INVARIANTS
    ReplayNeverPoisoned
