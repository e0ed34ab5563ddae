SPECIFICATION FairSpec
CONSTANTS
  o1 = o1  o2 = o2  o3 = o3  p = p  q = q
  Ops = {o1, o2, o3}
  Processes = {p, q}
  ProcessOf <- MCProcessOf
  NoOp = NoOp
  MaxRPCAttempts = 2
  MaxReceiptErrors = 2
  MaxNonce = 2
  MaxRPCFailures = 1
  MaxUint = 31
  Headroom = 3
CHECK_DEADLOCK FALSE
INVARIANTS
  GasLimitExact
  ReservationsDistinct
  FailedCacheDiscarded
  OutcomesTrue
PROPERTIES
  OperationsReturn
