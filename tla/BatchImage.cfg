\* One job, two workers, a balance that suffices and one that does not.
SPECIFICATION Spec
CONSTANTS
  w1 = w1
  w2 = w2
  Workers = {w1, w2}
  Hold = 2
  Cost = 1
  OtherFrozen = 2
  Balances = {1, 2}
  MaxRetries = 2
  MaxFaults = 1
INVARIANTS
  TypeOK
  FrozenIsOutstandingHold
  CompletedIsCharged
  FailedIsUnchargedUnlessStalled
  NoReleaseWhileProviderRuns
  InflightJobIsQueued
PROPERTY
  ReleaseIsRetried
CHECK_DEADLOCK FALSE
