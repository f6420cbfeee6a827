SPECIFICATION Spec
CONSTANTS
  NodeList <- TwoNodes
  Versions = {1, 2}
  Catalogued = {1}
  Policies = {p}
  Unfit <- SecondUnfit
  InitialMedia <- PrimaryOnly
  MaxTaken = 3
  MaxRuns = 3
  MaxVisits = 1
  None = None
INVARIANTS
  EvidenceIsCurrent
  ChainIsPlannable
  PrecheckedPlanBinds
CHECK_DEADLOCK FALSE
