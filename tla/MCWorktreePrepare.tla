------------------------- MODULE MCWorktreePrepare -------------------------
\* An instance of WorktreePrepare for TLC.
EXTENDS WorktreePrepare, TLC

CONSTANTS r1, r2, a1, a2, p1, p2

TwoRuns     == a1 :> r1 @@ a2 :> r2

\* The processes are alike, and so are the Runs with their Attempts.
SwapRuns    == r1 :> r2 @@ r2 :> r1 @@ a1 :> a2 @@ a2 :> a1
SameCallers == Permutations({p1, p2})
Same        == SameCallers \cup {f @@ SwapRuns : f \in SameCallers}
=============================================================================
