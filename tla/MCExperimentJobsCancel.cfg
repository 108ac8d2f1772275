SPECIFICATION Spec
CONSTANTS
  e1 = e1
  e2 = e2
  w1 = w1
  w2 = w2
  x1 = x1
  x2 = x2
  none = none
  NoWorker <- none
  Experiments <- OneExperiment
  Workers <- OneWorker
  Examples <- OneExample
  MaxAttempts = 1
  Concurrency = 1
  MaxCrashes = 0
  MaxFaults = 0
PROPERTY CanceledIsFinal
CHECK_DEADLOCK FALSE
