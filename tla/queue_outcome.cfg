SPECIFICATION FairSpec
CONSTANTS
  Jobs <- OneJob
  PlanOf <- Plans
  NodeOf <- Nodes
  Agents <- OneAgent
  AgentNode <- SameNode
  Operators <- TwoOperators
  ByHand = {"p1_1"}
  PublishDies = TRUE
  MaxClaims = 2
  MaxRetries = 2
INVARIANTS
  ResultIsSealed
PROPERTIES
  AttemptsChain
  ClaimsEnd
CHECK_DEADLOCK FALSE
