--------------------------- MODULE MCHomeRegistry ---------------------------
\* Instances of HomeRegistry for TLC.
EXTENDS HomeRegistry, TLC

CONSTANTS p1, p2, h1, h2, a, b

\* Two of the four parts.
ShortSkeleton == <<"skills", "config">>

CallOf(kind, alias, path, from, copy) ==
    [kind |-> kind, alias |-> alias, path |-> path, from |-> from, copy |-> copy]

Create(alias, path) == CallOf("create", alias, path, None, FALSE)
Import(alias, path) == CallOf("import", alias, path, None, FALSE)
Clone(alias, path, from) == CallOf("clone", alias, path, from, TRUE)

\* Both build on h1; p1 alone builds on h2, a clone, and p2 may import either.
SomeCalls ==
    [p \in Procs |->
        UNION {IF p = p1
               THEN {Create(alias, h1), Clone(alias, h2, h1)}
               ELSE {Create(alias, h1), Clone(alias, h1, h2),
                     Import(alias, h1), Import(alias, h2)} : alias \in Aliases}]

SameAliases == Permutations(Aliases)
=============================================================================
