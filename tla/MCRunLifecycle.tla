--------------------------- MODULE MCRunLifecycle ---------------------------
(***************************************************************************)
(* Small instances of RunLifecycle for TLC.                                *)
(***************************************************************************)
EXTENDS RunLifecycle, TLC

CONSTANTS w1, w2, r1, r2, repo1, repo2, h1, h2, h3, n1, n2, c1, c2

\* Which run belongs to which wave and works on which repository.
OneWaveOneRun == r1 :> w1
OneWaveTwoRuns == r1 :> w1 @@ r2 :> w1
TwoWaves == r1 :> w1 @@ r2 :> w2
OneRepo == r1 :> repo1
SameRepo == r1 :> repo1 @@ r2 :> repo1
TwoRepos == r1 :> repo1 @@ r2 :> repo2

\* Handlers and nodes are interchangeable.
Symmetry == Permutations(Handlers) \cup Permutations(Nodes)
=============================================================================
