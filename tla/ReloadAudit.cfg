SPECIFICATION UploadSpec
CONSTANTS
    w1 = w1
    w2 = w2
    Bad = Bad
    Writers = {w1, w2}
    Names = {1}
    Ids = {1, 2}
    Asked <- SomeAsked
    Bundles <- SomeBundles
    Starts <- SomeStarts
    MaxTotalKeys = 0
    MaxLists = 0
    BatchSize = 1
    MaxCommits = 2
    MaxObjects = 2
INVARIANT
    ReloadAuditIsTrue
CHECK_DEADLOCK FALSE
