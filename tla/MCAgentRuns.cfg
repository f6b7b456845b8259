\* Scopes of at most the listed events each.  The model stops when the events are used up.
SPECIFICATION Spec
CHECK_DEADLOCK FALSE
CONSTANTS
    None = None
    Tasks = {t1}
    MaxRuns = 2
    MaxAttempts = 3
    MaxPieces = 2
    Times = {1, 2}
    Threads = {x1}
    Artifacts = {f1}
    Commits = {1, 2}
    Identities <- People
    MaxCount = 5
    Scopes <- SomeScopes
INVARIANTS
    TypeOK
    AcceptedIsReported
    SummaryMatchesRuns
    ContinuationsAreSound
PROPERTIES
    ClosedRunsStay
