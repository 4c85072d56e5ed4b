--------------------------- MODULE MCIngestPipeline ---------------------------
EXTENDS IngestPipeline, TLC
CONSTANTS f1, f2, p1, p2
\* Both files start in one project and the classifier gives them one name.
MCDropped == f1 :> p1 @@ f2 :> p1
MCKinds == {f1 :> "extracted" @@ f2 :> "moved", f1 :> "xlsx" @@ f2 :> "image"}
Symmetry == Permutations(Ids) \cup Permutations(Tasks)
=============================================================================
