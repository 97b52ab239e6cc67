SPECIFICATION MCSpec
CONSTANTS
    p1 = p1
    p2 = p2
    f1 = f1
    f2 = f2
    x1 = x1
    x2 = x2
    people = people
    codes = codes
    Names = {people, codes}
    Procs = {p1, p2}
    Folders = {f1, f2}
    Closers = {x1, x2}
    Threshold = 1
    MaxMuts = 1
    FoldsFail = TRUE
    acme = acme
    beta = beta
    k1 = k1
    Tenants = {acme, beta}
    Clients = {k1}
    Failures = {FALSE, TRUE}
    MaxGen = 2
    MaxOps = 2
    MaxEdits = 2
INVARIANTS
    TypeOK
    NothingRunsAfterClose
    ReloadTypeOK
    NothingLost
PROPERTY
    CallsReturn
    SignalIsHonoured
