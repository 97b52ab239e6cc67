SPECIFICATION PSpec
CONSTANTS
    a = a
    b = b
    k1 = k1
    k2 = k2
    c1 = c1
    c2 = c2
    None = None
    IDs = {a}
    Vals = {k1}
    Cfgs = {c1}
    Creates = {}
    Bases <- OneBase
    MaxRun = 2
    Fsync = "every"
    MaxBatch = 1
    MaxJournal = 2
INVARIANTS
    FullDurability
