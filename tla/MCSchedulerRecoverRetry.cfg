\* recover-retry after the worker reported late.
CONSTANTS
    r1 = r1  r2 = r2  r3 = r3  c1 = c1  c2 = c2
    Runs = {r1}
    Candidates = {c1}
    None = None
    IdRank <- Rank
    RunBudget <- NoRunBudget
    HomeOf <- TwoHomes
    ModelOf <- OneModel
    HomeLimit <- OnePerHome
    ModelLimit <- TwoPerModel
    MaxActive = 2
    MaxLease = 2
    Specs <- RetrySpecs
    Usages = {0}
    Extensions = {1}
    WorktreeRuns = {}
    FailStatuses = {"cancelled"}
    MaxTime = 2
    MaxAttempts = 1
    MaxDeps = 1
SPECIFICATION Spec
INVARIANTS
    RecoverRetryApplies
CHECK_DEADLOCK FALSE
