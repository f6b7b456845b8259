\* One commit and the base, an Attempt beside the responsible one, and two records
\* of evidence and checks, while the target moves.  The model stops when the Run ends.
SPECIFICATION Spec
CHECK_DEADLOCK FALSE
CONSTANTS
    Collectors = {c1}
    Checkers = {k1}
    Attempts = {a1, a2}
    Responsible = a1
    Homes = {worker, reviewer}
    ResponsibleHome = worker
    EvidenceIds = {e1, e2}
    MaxTree = 1
    Passing = {1}
    Targets = {0, 1, 2}
    Conflicting <- SomeConflicts
    MaxEvidence = 2
    MaxReviews = 2
    MaxChecks = 2
INVARIANTS
    TypeOK
PROPERTIES
    CompletesReviewedWork
SYMMETRY SameIds
