-------------------------- MODULE MCProjectLifecycle --------------------------
EXTENDS ProjectLifecycle, TLC
\* Interchangeable identifiers; sound for the safety runs only.
Symmetry ==
    Permutations(Ops) \cup Permutations(Callers) \cup Permutations(Actors)
    \cup Permutations(Approvals) \cup Permutations(Bodies) \cup Permutations(Selectors)
    \cup Permutations(Projects) \cup Permutations(Writers)
=============================================================================
