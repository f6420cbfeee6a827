SPECIFICATION Spec
CONSTANTS
  Jobs <- ThreeJobs
  PlanOf <- Plans
  NodeOf <- Nodes
  Agents <- TwoAgents
  AgentNode <- OneEach
  Operators <- OneOperator
  ByHand = {}
  PublishDies = FALSE
  MaxClaims = 2
  MaxRetries = 0
INVARIANTS
  DeliveredOnce
CHECK_DEADLOCK FALSE
