SPECIFICATION FairSpec
CONSTANTS
  Users = {u1, u2}
  Sources = {s1}
  Threads = {t1, t2}
  Own = own
  None = none
  MaxRuns = 1
  MaxFaults = 1
  MaxChanges = 1
  MaxResends = 1
CHECK_DEADLOCK FALSE
INVARIANT
  ResetInvariant
PROPERTIES
  SuccessfulRunConfirms
  RunsEnd
