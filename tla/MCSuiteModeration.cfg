SPECIFICATION SettlementSpec
CONSTRAINT PricedApart
CONSTANTS
  Accounts = {a, b, c}
  NoAccount = NoAccount
  Names = {n}
  NoRepo = NoRepo
  Refs = {f, g}
  Shas = {s, t}
  NoSha = NoSha
  Packs = {p}
  TransferTargets = {b}
  CollaboratorAccounts = {b, c, NoAccount}
  TransferDelay = 1
  TransferWindow = 0
  MaxTime = 2
  MaxRefs = 2
  MaxPackUris = 1
  MaxCollaborators = 2
  MaxForkRefs = 0
  GuardianAccounts = {}
  MaxGuardians = 0
  MaxNonce = 0
  SplitRecipients = {b, c}
  SplitShares = {1}
  FullShare = 3
  MaxSplits = 2
  Admin = a
  FirstCommittee = b
  CommitteeAccounts = {a, NoAccount}
  MaxReports = 2
  MaxTrail = 2
  Creators = {a}
  MaxImports = 0
  Values = {0, 5}
  Fees = {0, 2}
  MaxFee = 1
  FirstTreasury = c
  Treasuries = {b, NoAccount}
  MaxSponsored = 5
CHECK_DEADLOCK FALSE
INVARIANTS
  RecordsInvariant
  SponsorshipsPaidOut
PROPERTIES
  RefChangesRecorded
