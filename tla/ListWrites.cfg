SPECIFICATION MCSpec
CONSTANTS
    a = a
    b = b
    k1 = k1
    k2 = k2
    c1 = c1
    c2 = c2
    None = None
    IDs = {a, b}
    Vals = {k1, k2}
    Cfgs = {c1, c2}
    Creates = {c2}
    Bases <- OneBase
    MaxRun = 2
    Fsync = "every"
    MaxBatch = 2
    MaxJournal = 2
    w1 = w1
    w2 = w2
    Bad = Bad
    Writers = {w1, w2}
    Names = {1, 2, 3}
    Ids = {1, 2, 3}
    Asked <- SomeAsked
    Bundles <- SomeBundles
    Starts <- SomeStarts
    MaxTotalKeys = 3
    MaxLists = 1
    BatchSize = 1
    MaxCommits = 3
    MaxObjects = 4
    r1 = r1
    r2 = r2
    Probes = {r1, r2}
    MaxVer = 2
    MaxObj = 2
    Healthy = {1}
    Failures = {FALSE, TRUE}
SYMMETRY Symmetric
INVARIANTS
    TypeOK
    RestartServesAcked
    StampDeterminesContent
    CompactCrashSafe
    TypesOK
    OneGeneration
    AuditIsTrue
    QuotasAreSoft
    StaleNeedsReturn
PROPERTY
    DamageContained
    PromiseKept
