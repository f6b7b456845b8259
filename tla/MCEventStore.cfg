\* Two processes, batches of up to two events, a log of up to four.
SPECIFICATION FairSpec
CONSTANTS
    Procs = {p1, p2}
    MaxBatch = 2
    MaxEvents = 4
INVARIANTS
    TypeOK
    ReadsAreSound
    AcknowledgedIsDurable
PROPERTIES
    ImplementsEventLog
    LockReturned
