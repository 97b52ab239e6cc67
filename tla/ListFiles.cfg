SPECIFICATION MCSpec
CONSTANTS
    a = a
    b = b
    k1 = k1
    k2 = k2
    c1 = c1
    c2 = c2
    None = None
    IDs = {a, b}
    Vals = {k1, k2}
    Cfgs = {c1, c2}
    Creates = {c2}
    Bases <- OneBase
    MaxRun = 2
    Fsync = "every"
    MaxBatch = 2
    MaxJournal = 2
    NoList = NoList
    Pack <- SomePack
    MaxMuts = 2
    MaxFolds = 1
    MaxShips = 2
    MaxRestarts = 1
INVARIANTS
    AckedSurvivesPowerLoss
    PutIsAtomic
    IndexFitsBase
    AckedIsKept
PROPERTY
    WholeBundleServed
