-------------------------- MODULE MCExperimentJobs --------------------------
(* Small instances of ExperimentJobs for TLC. *)
EXTENDS ExperimentJobs, TLC

CONSTANTS e1, e2, w1, w2, x1, x2, none

OneExperiment == {e1}
TwoExperiments == {e1, e2}
OneWorker == {w1}
TwoWorkers == {w1, w2}
OneExample == {x1}
TwoExamples == {x1, x2}

\* Workers and examples are interchangeable; used for safety only.
Symmetric == Permutations({w1, w2}) \cup Permutations({x1, x2})
=============================================================================
