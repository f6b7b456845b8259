\* Two jobs of two priorities, dispatched with and without a job id, and a
\* supervisor that keeps ticking.
CONSTANTS
    r1 = r1  r2 = r2  r3 = r3  c1 = c1  c2 = c2
    Runs = {r1, r2}
    Candidates = {c1}
    None = None
    IdRank <- Rank
    RunBudget <- NoRunBudget
    HomeOf <- TwoHomes
    ModelOf <- OneModel
    HomeLimit <- OnePerHome
    ModelLimit <- TwoPerModel
    MaxActive = 2
    MaxLease = 2
    Specs <- QueueSpecs
    Usages = {0}
    Extensions = {}
    WorktreeRuns = {}
    FailStatuses = {"cancelled"}
    MaxTime = 1
    MaxAttempts = 0
    MaxDeps = 0
SPECIFICATION FairSpec
PROPERTIES
    ExpiredLeaseNoticed
CHECK_DEADLOCK FALSE
