SPECIFICATION ClientSpec
CONSTANTS
  PageSize = 2
  MaxAttempts = 3
  MaxBlocks = 3
  Contents <- MCContents
  Genuine <- MCGenuine
  Directories <- MCDirectories
  ProfileChain = 1776
  NoContract = "none"
CHECK_DEADLOCK FALSE
INVARIANTS
  QueriesExact
  WritesThroughCurrentLocator
  OnlyTheActiveSuite
