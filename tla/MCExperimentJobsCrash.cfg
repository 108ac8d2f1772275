SPECIFICATION FairSpec
CONSTANTS
  e1 = e1
  e2 = e2
  w1 = w1
  w2 = w2
  x1 = x1
  x2 = x2
  none = none
  NoWorker <- none
  Experiments <- OneExperiment
  Workers <- TwoWorkers
  Examples <- OneExample
  MaxAttempts = 2
  Concurrency = 1
  MaxCrashes = 1
  MaxFaults = 0
PROPERTY JobSettles
CHECK_DEADLOCK FALSE
