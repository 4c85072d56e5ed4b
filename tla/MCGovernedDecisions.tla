------------------------- MODULE MCGovernedDecisions --------------------------
EXTENDS GovernedDecisions, TLC

CONSTANT s1

\* All documents are in one project.
MCProjectOf == [q \in Paths |-> s1]

Symmetry ==
    Permutations(Ops) \cup Permutations(Actors) \cup Permutations(Paths)
    \cup Permutations(Ids) \cup Permutations(Texts)
=============================================================================
