SPECIFICATION FairSpec
CONSTANTS
    p1 = p1
    p2 = p2
    f1 = f1
    f2 = f2
    f3 = f3
    x1 = x1
    x2 = x2
    people = people
    codes = codes
    Names = {people}
    Procs = {p1, p2}
    Folders = {f1, f2}
    Closers = {}
    Threshold = 1
    MaxMuts = 1
    FoldsFail = FALSE
PROPERTY
    OverlayIsFolded
CHECK_DEADLOCK FALSE
