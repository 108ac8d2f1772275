SPECIFICATION Spec
CONSTANTS
  c1 = c1
  c2 = c2
  x1 = x1
  x2 = x2
  hello = hello
  world = world
  yes = yes
  no = no
  bad = bad
  Clients <- OneClient
  ExampleIds <- TwoIds
  Inputs <- TwoInputs
  Outputs <- TwoOutputs
  Invalid <- bad
  Requests = {"create", "add", "import", "update", "delete", "rollback", "drop"}
  MaxBatch = 2
  MaxVersion = 5
  MaxFailures = 0
INVARIANT LatestIsActive
INVARIANT DiffIsExact
PROPERTY RollbackRestores
PROPERTY ImportAddsNewInputs
SYMMETRY Symmetric
CHECK_DEADLOCK FALSE
