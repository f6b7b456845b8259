\* One job through leases, recovery, retries and budgets.
CONSTANTS
    r1 = r1  r2 = r2  r3 = r3  c1 = c1  c2 = c2
    Runs = {r1}
    Candidates = {c1, c2}
    None = None
    IdRank <- Rank
    RunBudget <- LeaseRunBudget
    HomeOf <- TwoHomes
    ModelOf <- OneModel
    HomeLimit <- OnePerHome
    ModelLimit <- TwoPerModel
    MaxActive = 2
    MaxLease = 2
    Specs <- LeaseSpecs
    Usages = {0, 1}
    Extensions = {1, 2}
    WorktreeRuns = {r1}
    FailStatuses = {"failed", "timed_out"}
    MaxTime = 2
    MaxAttempts = 2
    MaxDeps = 1
SPECIFICATION Spec
INVARIANTS
    TypeOK
    AttemptsAreDispatched
    SingleClaim
    ActiveOnlyUnderLease
    TerminalTogether
    JobLimitsKept
    RetryLineage
    JobTimeGoesForward
PROPERTIES
    LeaseDiscipline
    ImplementsClaims
CHECK_DEADLOCK FALSE
