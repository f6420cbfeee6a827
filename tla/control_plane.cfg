SPECIFICATION Spec
CONSTANTS
  None = None
  ann = ann
  bob = bob
  cyd = cyd
  c1 = c1
  c2 = c2
  Principals = {ann, bob, cyd}
  RoleMaps <- TheRoleMaps
  UsualRoles <- Usual
  Tickets = {chg}
  Tokens = {k1, k2}
  Agents = {ann, cyd}
  Admins = {a1, a2}
  Handlers = {h1}
  Scenes <- TheScenes
  Impostors = {bob}
  Subscribed = {"plan.approved", "run.failed"}
  Controllers = {c1, c2}
  Keys <- AllKeys
  Runs = {r1, r2}
  Jobs = {}
  Overlap = TRUE
  DiskMayFail = TRUE
INVARIANTS
  CallersAreEntitled
  ThreeCredentials
  
PROPERTIES
  RevocationHolds
CHECK_DEADLOCK FALSE
SYMMETRY Alike
