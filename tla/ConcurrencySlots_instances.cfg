\* Two requests, each served by an instance of its own, against a limit of one.
SPECIFICATION Spec
CONSTANTS
  r1 = r1
  r2 = r2
  r3 = r3
  s1 = s1
  p1 = p1
  p2 = p2
  Requests = {r1, r2}
  Sessions = {}
  Processes = {p1, p2}
  ProcessOf <- TwoInstances
  MaxConcurrency = 1
  QueueLimit = 1
  SlotTTL = 3
  LeaseTTL = 2
  RefreshInterval = 1
  MaxFaults = 1
INVARIANT
  WithinLimit
