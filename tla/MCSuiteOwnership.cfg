SPECIFICATION Spec
CONSTRAINT OneConcern
CONSTANTS
  Accounts = {a, b, c}
  NoAccount = NoAccount
  Names = {n, m}
  NoRepo = NoRepo
  Refs = {}
  Shas = {}
  NoSha = NoSha
  Packs = {}
  TransferTargets = {a, b, c, NoAccount}
  CollaboratorAccounts = {}
  TransferDelay = 1
  TransferWindow = 1
  MaxTime = 5
  MaxRefs = 0
  MaxPackUris = 0
  MaxCollaborators = 0
  MaxForkRefs = 0
  GuardianAccounts = {b, c, NoAccount}
  MaxGuardians = 2
  MaxNonce = 2
  SplitRecipients = {b, NoAccount}
  SplitShares = {1}
  FullShare = 1
  MaxSplits = 1
  Admin = a
  FirstCommittee = a
  CommitteeAccounts = {}
  MaxReports = 0
  MaxTrail = 0
  Creators = {a, b}
  MaxImports = 0
CHECK_DEADLOCK FALSE
INVARIANTS
  TypeOK
  OwnershipInvariant
PROPERTIES
  OwnershipMovesByConsent
  AliasesNeverReassigned
