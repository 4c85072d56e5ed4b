---------------------------- MODULE MCPullRequests ----------------------------
EXTENDS PullRequests, TLC
CONSTANTS t1, t2
\* The pull request of the first task closes the second one.
MCMentions == t1 :> {t2} @@ t2 :> {}
MCInitial == t1 :> "in_progress" @@ t2 :> "approved"
\* Every diff of the first task touches what its required checks watch; the
\* second commit of the second task takes back what the first one touched.
MCTouches == t1 :> {<<0, 1>>, <<0, 2>>, <<1, 2>>} @@ t2 :> {<<0, 1>>, <<1, 2>>}
Symmetry == Permutations(Prs)
=============================================================================
