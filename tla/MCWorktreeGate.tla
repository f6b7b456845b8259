--------------------------- MODULE MCWorktreeGate ---------------------------
\* Instances of WorktreeGate for TLC.
EXTENDS WorktreeGate, TLC

\* Tree 1 merges with the second of the three commits of the target only.
SomeConflicts == {<<0, 1>>, <<2, 1>>}

SameIds == Permutations(EvidenceIds)

=============================================================================
