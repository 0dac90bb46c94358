SPECIFICATION Spec
CONSTANTS
  o1 = o1
  w1 = w1
  w2 = w2
  Orders = {o1}
  Workers = {w1, w2}
  FaultKinds = {"crash", "step", "query", "provider", "swallow", "delete", "edit"}
  MaxFaults = 3
SYMMETRY WorkerSymmetry
INVARIANTS TypeOK CreditedOnlyIfPaid RebateFollowsCredit CompletedIsCredited AbandonedIsUncredited
PROPERTY FulfilledIsFinal
CHECK_DEADLOCK FALSE
