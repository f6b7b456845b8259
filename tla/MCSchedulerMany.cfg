\* Three Runs, of which any may depend on two others, compete for two Homes; Attempts
\* are also started outside the scheduler.
CONSTANTS
    r1 = r1  r2 = r2  r3 = r3  c1 = c1  c2 = c2
    Runs = {r1, r2, r3}
    Candidates = {c1, c2}
    None = None
    IdRank <- Rank
    RunBudget <- NoRunBudget
    HomeOf <- TwoHomes
    ModelOf <- TwoModels
    HomeLimit <- MixedHomeLimit
    ModelLimit <- MixedModelLimit
    MaxActive = 2
    MaxLease = 2
    Specs <- OneShot
    Usages = {0}
    Extensions = {}
    WorktreeRuns = {}
    FailStatuses = {"failed"}
    MaxTime = 0
    MaxAttempts = 1
    MaxDeps = 2
SPECIFICATION Spec
INVARIANTS
    DependenciesKept
PROPERTIES
    ConcurrencyRespected
CHECK_DEADLOCK FALSE
