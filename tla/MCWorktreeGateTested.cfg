\* One record of each kind.  The model stops when the Run ends.
SPECIFICATION Spec
CHECK_DEADLOCK FALSE
CONSTANTS
    Collectors = {c1}
    Checkers = {k1}
    Attempts = {a1}
    Responsible = a1
    Homes = {worker, reviewer}
    ResponsibleHome = worker
    EvidenceIds = {e1}
    MaxTree = 2
    Passing = {1}
    Targets = {0, 1, 2}
    Conflicting <- SomeConflicts
    MaxEvidence = 1
    MaxReviews = 1
    MaxChecks = 1
INVARIANT CompletesTestedWork
