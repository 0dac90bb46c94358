SPECIFICATION Spec
CONSTANTS
  o1 = o1
  o2 = o2
  o3 = o3
  NoValue = NoValue
  Operations = {o1, o2, o3}
  Lease = 3
  RenewInterval = 1
  TTL = 10
  MaxOp = 5
  MaxTime = 12
  MaxFaults = 0
INVARIANTS OneSystemOperation
CHECK_DEADLOCK FALSE
