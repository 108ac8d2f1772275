SPECIFICATION FairSpec
CONSTANTS
  c1 = c1
  p1 = p1
  t1 = t1
  t2 = t2
  s1 = s1
  s2 = s2
  Clients <- OneClient
  Partitions <- OnePartition
  Traces <- TwoTraces
  Spans <- TwoSpans
  Messages <- TwoMessages
  MaxBatch = 2
  MaxLog = 3
  MaxFaults = 2
  MaxRestarts = 1
INVARIANT TypeOK
INVARIANT AcceptedIsProduced
INVARIANT CommittedIsHandled
INVARIANT PayloadCoversSpans
INVARIANT TraceRowsAreBacked
INVARIANT SpansHaveTrace
PROPERTY MessageSettles
CHECK_DEADLOCK FALSE
