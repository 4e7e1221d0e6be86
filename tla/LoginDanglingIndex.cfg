SPECIFICATION Spec
CONSTANTS
  Users = {alice}
  Requests = {r1}
  Passwords = {p1}
  NoPassword = NoPassword
  Threads = {t1}
  Scanner = Scanner
  None = None
  Ops = {"relay"}
  MaxFaults = 1
  MaxEdits = 0
INVARIANT IndexNamesJournals
