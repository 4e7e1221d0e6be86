SPECIFICATION FlowSpec
CONSTANTS
  s1 = s1 a = a b = b dev = dev ana = ana team = team
  None = None
  Browsers = {b1, b2}
  StateIds = {t1, t2}
  Requests = {r1}
  Sources = {s1}
  Subjects <- MCSubjects
  Units <- MCUnits
  UnitOrder <- MCUnitOrder
  UserName <- MCUserName
  ShortName <- MCGroupName
  PathName <- MCGroupName
  ParentOf <- MCParentOf
  Names <- MCNames
  ReservedUsers = {}
  ReservedGroups = {}
  Starts <- MCStarts
  Directories <- MCDirectories
  Policies <- MCPolicies
  Ids = {1, 2, 3}
  Changes = 1
  Orders = 1
  Restarts = 1
  Faults = 0
  Intervals = 0
PROPERTIES StateUsedOnce OwnStateAccepted LoginIsOwn
SYMMETRY MCSymmetry
CHECK_DEADLOCK FALSE
