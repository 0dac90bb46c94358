\* Three requests and a live call against a limit of one.
SPECIFICATION Spec
CONSTANTS
  r1 = r1
  r2 = r2
  r3 = r3
  s1 = s1
  p1 = p1
  p2 = p2
  Requests = {r1, r2, r3}
  Sessions = {s1}
  Processes = {p1}
  ProcessOf <- OneInstance
  MaxConcurrency = 1
  QueueLimit = 1
  SlotTTL = 3
  LeaseTTL = 2
  RefreshInterval = 1
  MaxFaults = 2
INVARIANTS
  TypeOK
  WithinLimit
  WaitersBounded
PROPERTY
  UnleasedCallEnds
