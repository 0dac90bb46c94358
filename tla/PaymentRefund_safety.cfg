SPECIFICATION Spec
CONSTANTS
  o1 = o1
  w1 = w1
  w2 = w2
  Orders = {o1}
  Workers = {w1, w2}
  Amount = 2
  MaxBalance = 3
  MaxAttempts = 3
  FaultKinds = {"crash", "step", "write", "rollback"}
  MaxFaults = 2
SYMMETRY WorkerSymmetry
INVARIANTS TypeOK OneRefundOwner AbortedRefundIsUndone PendingHoldsDeduction SettledRefundIsPaid
PROPERTY ImplementsRefundLedger
CHECK_DEADLOCK FALSE
