SPECIFICATION FairSpec
CONSTANTS
  Users = {alice}
  Requests = {r1}
  Passwords = {p1}
  NoPassword = NoPassword
  Threads = {t1}
  Scanner = Scanner
  None = None
  Ops = {"relay", "browser", "complete", "disable"}
  MaxFaults = 2
  MaxEdits = 1
PROPERTIES
  TempIsRemoved
  CallsReturn
  BecomesReady
