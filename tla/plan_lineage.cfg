SPECIFICATION Spec
CONSTANTS
  Plans <- PairPlans
  Hosts <- SoloHosts
  Actors = {"ann", "bob", "cat", "dan"}
  Workers = {"bob", "cat"}
  NoPlan = "none"
  NoActor = "nobody"
  HostsOf <- PairHostsOf
  Stages <- PairStages
  SourceOf <- PairSource
  SealsLineage <- PairLineage
  Requester <- PairAsker
  WindowStart <- PairStart
  WindowEnd <- PairEnd
  ReadyUntil <- PairReady
  LeaseChoices = {1}
  MinLease = 1
  Grace = 1
  FailureReports <- OneFailure
  MaxClock = 1
  MaxRetries = 0
  MaxCrashes = 1
INVARIANTS
  LineageIndependence
CHECK_DEADLOCK FALSE
