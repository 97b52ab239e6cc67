SPECIFICATION MCSpec
CONSTANTS
    acme = acme
    beta = beta
    q1 = q1
    q2 = q2
    q3 = q3
    node = node
    Tenants = {acme}
    Queries = {q1, q2, q3}
    Node = node
    NodeBudget = 4
    Quotas = {0, 3}
    Charges = {2, 5}
    MaxMade = 2
    Grams <- SomeGrams
    Ulp = 31
    Letters = {"a", "b", "c"}
    Configs <- SomeConfigs
    Bases <- SomeBases
    Batches <- SomeBatches
    Asks <- SomeAsks
    MaxMutations = 2
    Ords = {1, 2, 3, 4, 5}
    Scores = {60, 90}
    Ids = {1, 2, 3, 4, 5}
    Ks = {0, 1, 3}
    MaxOffers = 5
    Meaning <- SomeMeaning
    Spellings = {"1", "0.10e1", "-2", "-15e-1", "-0", "0e3", "1e3", "true"}
    Declared <- SomeDeclared
    Requests <- SomeRequests
    Keys = {"a", "b"}
    Scalars = {"0.10e1", "null"}
    Junk = "junk"
    MaxAlternatives = 2
    MaxSignificant = 2
    MaxExponent = 2
    MaxTokens = 9
INVARIANTS
    TypesOK
    BudgetIsCeiling
    TenantIsolation
    AnswerIsRight
    ChargeCoversWork
    BestAreKept
    OneFormPerMeaning
    VerdictIsRight
PROPERTY
    WaitersAdmitted
