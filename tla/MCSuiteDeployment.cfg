SPECIFICATION DeploymentSpec
CONSTANTS
  core = core  username = username
  None = None
  CoreContracts = {c1, c2, c3, c4}
  ModuleIds = {core, username}
  ModuleOrder <- MCModuleOrder
  UsernameId = username
  Contracts = {c1, c2, c3, c4, u1, u2, u3, u4}
  BoundId <- MCBoundId
  BoundContracts = {c1, c2, c3, c4, u1, u2, u3, u4}
  Coordinators = {ours}
  BoundCoordinator = ours
  Callers = {operator}
  Authority = operator
  Operator = operator
  Payloads = {}
  ItemsIn <- MCItemsIn
  Plans <- MCPlans
  Sequences = {0}
  Counts = {0}
  Snapshot <- MCSnapshot
  MaxBatchItems = 1
  BootstrapTool = "runner"
  MaxFaults = 3
CHECK_DEADLOCK FALSE
INVARIANTS
  EvidenceComplete
  EvidenceTrue
PROPERTIES
  EventuallyActive
