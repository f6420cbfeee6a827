SPECIFICATION FairSpec
CONSTANTS
  None = None
  Controllers = {"c1", "c2"}
  Threads = {"t1", "t2", "t3"}
  ControllerOf <- TwoAndOne
  NodeList <- OneNode
  Parts <- DirectoryAndModules
  Jobs = {"j1", "j2"}
  Newest = 2
  MaxFaults = 1
INVARIANTS
  StampTellsRuntime
  ToolsAreOurs
PROPERTIES
  TornIsRepaired
