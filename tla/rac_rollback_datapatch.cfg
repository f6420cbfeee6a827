SPECIFICATION Spec
CONSTANTS
  Adapter = "database_rac_opatch_rollback"
  Nodes <- TwoNodes
  Coordinator = "n1"
  Services <- OneService
  Placement <- OnFirst
  MaxRetries = 1
INVARIANTS
  DatapatchRepeatable
CHECK_DEADLOCK FALSE
