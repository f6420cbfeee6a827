SPECIFICATION LockFairSpec
CONSTANTS
  Procs <- ThreeProcs
  MaxTries = 2
INVARIANTS
  ExclusiveUnlessReclaimed
PROPERTIES
  LockReturns
CHECK_DEADLOCK FALSE
