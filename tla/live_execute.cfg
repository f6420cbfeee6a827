SPECIFICATION FairSpec
CONSTANTS
  None = None
  Controllers = {c1, c2}
  Keys = {execute}
  Runs = {r1, r2}
  Jobs = {j1, j2, j3}
  Overlap = FALSE
  DiskMayFail = FALSE
  TaskList <- TwoTasks
  NodeOf <- OnTwo
  MaxRetries = 1
INVARIANTS
  ExecutedOnce
  ClosedRunsAreTrue
PROPERTIES
  NoPushUnderExecutor
  SuccessKept
  RegistrySpec
  RunsReturn
CHECK_DEADLOCK FALSE
