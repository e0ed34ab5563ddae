SPECIFICATION Spec
CONSTRAINT ReportsApart
CONSTANTS
  Accounts = {a, b}
  NoAccount = NoAccount
  Names = {n}
  NoRepo = NoRepo
  Refs = {f}
  Shas = {s}
  NoSha = NoSha
  Packs = {p}
  TransferTargets = {b}
  CollaboratorAccounts = {b}
  TransferDelay = 1
  TransferWindow = 0
  MaxTime = 2
  MaxRefs = 1
  MaxPackUris = 1
  MaxCollaborators = 1
  MaxForkRefs = 1
  GuardianAccounts = {b}
  MaxGuardians = 1
  MaxNonce = 1
  SplitRecipients = {b}
  SplitShares = {1}
  FullShare = 1
  MaxSplits = 1
  Admin = a
  FirstCommittee = a
  CommitteeAccounts = {}
  MaxReports = 1
  MaxTrail = 1
  Creators = {b}
  MaxImports = 3
INVARIANTS
  SuiteInvariant
PROPERTIES
  FrozenRefsImmutable
CHECK_DEADLOCK FALSE
