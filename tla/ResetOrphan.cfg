SPECIFICATION Spec
CONSTANTS
  Users = {u1}
  Sources = {s1, s2}
  Threads = {t1}
  Own = own
  None = none
  MaxRuns = 2
  MaxFaults = 1
  MaxChanges = 1
  MaxResends = 0
CHECK_DEADLOCK FALSE
INVARIANT CompletedPasswordStays
