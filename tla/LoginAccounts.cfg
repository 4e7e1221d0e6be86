SPECIFICATION Spec
CONSTANTS
  Users = {alice}
  Requests = {r1}
  Passwords = {p1, p2}
  NoPassword = NoPassword
  Threads = {t1}
  Scanner = Scanner
  None = None
  Ops = {"relay", "browser", "complete", "disable", "provision", "reset", "authorize", "revoke"}
  MaxFaults = 1
  MaxEdits = 2
SYMMETRY Interchangeable
INVARIANTS
  PermanentKept
  ResetExcludesLease
PROPERTIES
  MarksStay
  VerdictIsFinal
  ImplementsLease
