\* One worker refreshes while an administrator edits a setting.
SPECIFICATION Spec
CONSTANTS
  w1 = w1
  w2 = w2
  t1 = t1
  i1 = i1
  i2 = i2
  Nobody = Nobody
  Abandoned = Abandoned
  Workers = {w1, w2}
  Tests = {t1}
  Instances = {i1, i2}
  InstanceOf <- MCInstanceOf
  MaxRetries = 2
  MaxAgings = 1
  MaxEdits = 1
  MaxFaults = 0
INVARIANTS SupersededStayGone
CHECK_DEADLOCK FALSE
