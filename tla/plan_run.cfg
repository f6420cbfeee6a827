SPECIFICATION FairSpec
CONSTANTS
  Plans <- SoloPlans
  Hosts <- SoloHosts
  Actors = {"ann", "bob", "cat"}
  Workers = {"cat"}
  NoPlan = "none"
  NoActor = "nobody"
  HostsOf <- SoloHostsOf
  Stages <- LastStages
  SourceOf <- SoloSource
  SealsLineage = {}
  Requester <- SoloAsker
  WindowStart <- SoloStart
  WindowEnd <- SoloEnd
  ReadyUntil <- SoloReady
  LeaseChoices = {2}
  MinLease = 1
  Grace = 1
  FailureReports <- SomeFailures
  MaxClock = 4
  MaxRetries = 1
  MaxCrashes = 1
INVARIANTS
  FailureStopsTheRun
  LeaseInsideWindow
  SuccessIsEarned
  NoBlindRetry
  SeparationOfDuties
  CustodyWriteOnce
PROPERTIES
  OutcomesFinal
  CommandsEnd
CHECK_DEADLOCK FALSE
