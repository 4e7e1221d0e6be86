SPECIFICATION Spec
CONSTANTS
  Users = {u1}
  Sources = {s1, s2}
  Threads = {t1, t2}
  Own = own
  None = none
  MaxRuns = 2
  MaxFaults = 2
  MaxChanges = 2
  MaxResends = 1
CHECK_DEADLOCK FALSE
INVARIANTS
  AtMostOnce
  ConfirmedIsSet
  LoginsWait
  SuccessIsDurable
