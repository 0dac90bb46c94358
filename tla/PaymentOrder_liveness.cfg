SPECIFICATION FairSpec
CONSTANTS
  o1 = o1
  w1 = w1
  w2 = w2
  Orders = {o1}
  Workers = {w1, w2}
  FaultKinds = {"crash", "step", "query", "provider"}
  MaxFaults = 2
INVARIANT CreditedAtMostOnce
PROPERTIES ImplementsLedger PaidIsSettled PendingIsResolved
CHECK_DEADLOCK FALSE
