\* One worker stalls while it indexes, and its index fails.
SPECIFICATION Spec
CONSTANTS
  w1 = w1
  w2 = w2
  Workers = {w1, w2}
  Hold = 2
  Cost = 1
  OtherFrozen = 2
  Balances = {2}
  MaxRetries = 3
  MaxFaults = 2
INVARIANT
  FailedIsUncharged
CHECK_DEADLOCK FALSE
