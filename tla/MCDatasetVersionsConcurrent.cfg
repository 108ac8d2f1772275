SPECIFICATION Spec
CONSTANTS
  c1 = c1
  c2 = c2
  x1 = x1
  x2 = x2
  hello = hello
  world = world
  yes = yes
  no = no
  bad = bad
  Clients <- TwoClients
  ExampleIds <- TwoIds
  Inputs <- OneInput
  Outputs <- TwoOutputs
  Invalid <- bad
  Requests = {"create", "add", "import", "update", "delete", "rollback", "drop"}
  MaxBatch = 1
  MaxVersion = 3
  MaxFailures = 2
INVARIANT TypeOK
INVARIANT VersionDrawnOnce
INVARIANT EachFailureLosesOneVersion
PROPERTY SnapshotIsFinal
SYMMETRY Symmetric
CHECK_DEADLOCK FALSE
