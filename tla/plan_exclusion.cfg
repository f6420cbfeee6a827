SPECIFICATION Spec
CONSTANTS
  Plans <- RivalPlans
  Hosts <- RivalHosts
  Actors = {"ann", "bob", "cat"}
  Workers = {"bob"}
  NoPlan = "none"
  NoActor = "nobody"
  HostsOf <- RivalHostsOf
  Stages <- RivalStages
  SourceOf <- RivalSource
  SealsLineage = {}
  Requester <- RivalAsker
  WindowStart <- RivalStart
  WindowEnd <- RivalEnd
  ReadyUntil <- RivalReady
  LeaseChoices = {1}
  MinLease = 1
  Grace = 1
  FailureReports <- OneFailure
  MaxClock = 0
  MaxRetries = 0
  MaxCrashes = 1
INVARIANTS
  ReservationHeld
  OneLeasePerHost
PROPERTIES
  ExclusionSpec
CHECK_DEADLOCK FALSE
