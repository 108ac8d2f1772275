SPECIFICATION Spec
CONSTANTS
  c1 = c1
  c2 = c2
  x1 = x1
  x2 = x2
  hello = hello
  world = world
  yes = yes
  no = no
  bad = bad
  Clients <- TwoClients
  ExampleIds <- TwoIds
  Inputs <- OneInput
  Outputs <- OneOutput
  Invalid <- bad
  Requests = {"create", "add"}
  MaxBatch = 1
  MaxVersion = 3
  MaxFailures = 0
INVARIANT SnapshotIsHistorical
SYMMETRY Symmetric
CHECK_DEADLOCK FALSE
