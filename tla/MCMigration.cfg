SPECIFICATION MigrationSpec
CONSTANTS
  V1Accounts = {a, b}
  V1Names = {n}
  UserNames = {u}
  Versions = {v}
  NoLocator = NoLocator
  MaxTx = 5
  Cutover = 2
  Documents <- MCDocuments
  BatchSizes = {0, 3, 4}
  DefaultBatchSize = 2
  Builders = {b1, b2}
  MaximumBatchItems = 3
  MaximumPayloadBytes = 2
  MaxRefsPerRepo = 1
  MaxPacks = 3
  MaxCollabs = 1
  MaxConfigGuardians = 2
  MaxRecipients = 1
  MaxReserved = 1
  WholeShare = 10
SYMMETRY MCSymmetry
CONSTRAINT MCOneTopic
CHECK_DEADLOCK FALSE
INVARIANTS
  VerifiedKeysExact
  RightDocumentsAccepted
  ImportsAccepted
  ActiveSuiteExact
  PublishedPairAgrees
