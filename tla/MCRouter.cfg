\* Two candidates, seven reports that may come in any order.  The model stops when the
\* events are used up.
SPECIFICATION Spec
CHECK_DEADLOCK FALSE
CONSTANTS
    None = None
    Policy <- SomePolicy
    Requests <- SomeRequests
    Registries <- SomeRegistries
    Callers = {k1}
    Attempts = {t1, t2}
    Reports <- SomeReports
    Durations = {8}
    Times = {2}
    MaxLabels = 64
    MaxCount = 10000
    MaxEvents = 3
INVARIANTS
    TypeOK
    EligibleExactly
    NoneAsGoodScoresLower
    DecisionsAreRecordable
PROPERTIES
    DispatchWithinCapacity
