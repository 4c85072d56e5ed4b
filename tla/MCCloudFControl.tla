--------------------------- MODULE MCCloudFControl ---------------------------
EXTENDS CloudFControl, TLC
\* Operation identifiers, processes and actors are interchangeable.
Symmetry == Permutations(Ops) \cup Permutations(Callers) \cup Permutations(Actors)
=============================================================================
