\* Two processes prepare worktrees of two Runs on two paths,
\* beside a user.  When every branch is left over nothing can be planned.
SPECIFICATION Spec
CHECK_DEADLOCK FALSE
CONSTANTS
    None = None
    User = User
    r1 = r1
    r2 = r2
    a1 = a1
    a2 = a2
    p1 = p1
    p2 = p2
    Preparers = {p1, p2}
    Runs = {r1, r2}
    Attempts = {a1, a2}
    RunOf <- TwoRuns
    Paths = {t1, t2}
    MaxLeft = 2
    UserPaths = {t2}
INVARIANT TypeOK
PROPERTY PreparingIsClean
SYMMETRY Same
