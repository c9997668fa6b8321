------------------------ MODULE MCFinalizationQueue ------------------------
(***************************************************************************)
(* Instances of FinalizationQueue for TLC: workers that race for the jobs  *)
(* of one meeting, a client's POSTs, and one forced regeneration.          *)
(***************************************************************************)
EXTENDS FinalizationQueue, TLC

CONSTANTS w1, w2, c1, j1, j2, force1

OneWorker == {w1}
TwoWorkers == {w1, w2}
OneClient == {c1}
TwoJobs == {j1, j2}
NoForce == {}
OneForce == {force1}
OfRuns == {"run"}
OfBeats == {"beat"}
Symmetry == Permutations(TwoWorkers) \cup Permutations(TwoJobs)
=============================================================================
