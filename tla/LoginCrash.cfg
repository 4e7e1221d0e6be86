SPECIFICATION Spec
CONSTANTS
  Users = {alice}
  Requests = {r1, r2}
  Passwords = {p1}
  NoPassword = NoPassword
  Threads = {t1, t2}
  Scanner = Scanner
  None = None
  Ops = {"relay", "browser", "complete"}
  MaxFaults = 1
  MaxEdits = 0
SYMMETRY Interchangeable
INVARIANTS
  RecoveryInvariant
  LentIsRecoverable
  OneLeasePerAccount
  ScanHonoursLease
PROPERTIES
  SessionMeansRestored
  TempOnlyWhileLent
