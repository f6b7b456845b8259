\* Two calls, one after the other or beside each other, on an isolated runtime where
\* the user works at the place of its Skill, and on a project.  The model stops when
\* the calls are made.
SPECIFICATION Spec
CHECK_DEADLOCK FALSE
CONSTANTS
    None = None
    MaxTokens = 10
    MaxCount = 20
    Digest <- SomeDigest
    Inputs <- SomeInputs
    Kinds <- SomeKinds
    Parts = {1}
    UserTargets <- UserPlaces
    MaxCalls = 2
    MaxWorks = 1
    MaxVersion = 1
    MaxAbsent = 1
INVARIANTS
    TypeOK
    MarkedIsWhole
PROPERTIES
    FailedApplyRestores
    AppliedIsProjected
    
