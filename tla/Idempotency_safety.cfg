SPECIFICATION Spec
CONSTANTS
  r1 = r1
  r2 = r2
  r3 = r3
  pay = pay
  other = other
  NoValue = NoValue
  Requests = {r1, r2, r3}
  FingerprintOf <- MCFingerprintOf
  LongResponses = {r2}
  TTL = 4
  ProcessingTimeout = 2
  FailedRetryBackoff = 1
  MaxClaim = 1
  MaxLife = 3
  MaxTime = 7
  MaxFaults = 1
INVARIANTS TypeOK OneExecution OwnerHoldsRow ReplayIsGenuine NoRerunBeforeExpiry
PROPERTIES AbandonedKeyIsFreed
CHECK_DEADLOCK FALSE
