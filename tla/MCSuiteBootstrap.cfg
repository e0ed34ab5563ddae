SPECIFICATION Spec
CONSTANTS
  core = core  username = username  release = release
  coreA = coreA  coreB = coreB  usernameA = usernameA  usernameForeign = usernameForeign
  releaseA = releaseA  small = small  large = large
  None = None
  ModuleIds = {core, username, release}
  ModuleOrder <- MCModuleOrder
  UsernameId = username
  Contracts = {coreA, coreB, usernameA, usernameForeign, releaseA}
  BoundId <- MCBoundId
  BoundContracts = {coreA, coreB, usernameA, releaseA}
  Coordinators = {ours, other}
  BoundCoordinator = ours
  Callers = {deployer, operator, anyone}
  Authority = deployer
  Operator = operator
  Payloads = {small, large}
  ItemsIn <- MCItemsIn
  Plans <- MCPlans
  Sequences = {0, 1, 2}
  Counts = {0, 1, 2, 3}
  Snapshot <- MCSnapshot
  MaxBatchItems = 2
CHECK_DEADLOCK FALSE
INVARIANTS
  CopiesAgree
  ActivationComplete
PROPERTIES
  BootstrapSealed
  ImplementsLifecycle
