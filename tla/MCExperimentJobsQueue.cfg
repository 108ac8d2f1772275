SPECIFICATION Spec
CONSTANTS
  e1 = e1
  e2 = e2
  w1 = w1
  w2 = w2
  x1 = x1
  x2 = x2
  none = none
  NoWorker <- none
  Experiments <- OneExperiment
  Workers <- TwoWorkers
  Examples <- TwoExamples
  MaxAttempts = 2
  Concurrency = 2
  MaxCrashes = 1
  MaxFaults = 1
INVARIANT TypeOK
INVARIANT PendingJobIsFree
INVARIANT OneRunPerJob
INVARIANT StrandedOnlyByCrash
INVARIANT SummaryCoversResults
PROPERTY ImplementsLifecycle
SYMMETRY Symmetric
CHECK_DEADLOCK FALSE
