SPECIFICATION FairSpec
CONSTANTS
  Adapter = "database_rolling_opatch"
  Nodes <- ThreeNodes
  Coordinator = "n2"
  Services <- TwoServices
  Placement <- OneEach
  MaxRetries = 2
INVARIANTS
  ClusterServes
  DatapatchLast
  ServicesRestored
  ReportsAreHonest
PROPERTIES
  PatchesNodeByNode
  TasksEnd
CHECK_DEADLOCK FALSE
