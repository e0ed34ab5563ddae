CONSTANTS
  p1 = p1  p2 = p2  c1 = c1
  Pushes = {p1, p2}
  Cids = {c1}
  Cid <- Shared
  V1Refs <- OneArchived
  MaxConfirmAttempts = 2
  Ttl = 1
  MaxTime = 2
  None = None
SPECIFICATION ReplicationSpec
CHECK_DEADLOCK FALSE
INVARIANTS
  TicketsRecorded
  RecordedContentPinned
