SPECIFICATION FairSpec
CONSTANTS
  e1 = e1
  e2 = e2
  w1 = w1
  w2 = w2
  x1 = x1
  x2 = x2
  none = none
  NoWorker <- none
  Experiments <- TwoExperiments
  Workers <- OneWorker
  Examples <- OneExample
  MaxAttempts = 2
  Concurrency = 1
  MaxCrashes = 0
  MaxFaults = 0
INVARIANT FinalStatusAgrees
PROPERTY ExperimentSettles
CHECK_DEADLOCK FALSE
