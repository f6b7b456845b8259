\* Two processes that create, import and clone on two paths, of which they share
\* one, and a user.
SPECIFICATION Spec
CONSTANTS
    p1 = p1
    p2 = p2
    h1 = h1
    h2 = h2
    a = a
    b = b
    Procs = {p1, p2}
    Paths = {h1, h2}
    Aliases = {a, b}
    Skeleton <- ShortSkeleton
    Calls <- SomeCalls
    UserPaths = {h1, h2}
    User = User
    None = None
SYMMETRY SameAliases
INVARIANTS
    TypeOK
PROPERTIES
    RegistryGrows
    HomesAreWhole
