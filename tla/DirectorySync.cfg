SPECIFICATION Spec
CONSTANTS
  s1 = s1 s2 = s2 a = a b = b dev = dev ana = ana team = team
  None = None
  Sources <- MCSources
  Subjects <- MCSubjects
  Units <- MCUnits
  UnitOrder <- MCUnitOrder
  UserName <- MCUserName
  ShortName <- MCShortName
  PathName <- MCPathName
  ParentOf <- MCParentOf
  Names <- MCNames
  ReservedUsers = {}
  ReservedGroups = {}
  Starts <- MCStarts
  Directories <- MCDirectories
  Policies <- MCPolicies
  Ids = {1, 2, 3, 4}
  Changes = 1
  Orders = 1
  Restarts = 1
  Faults = 1
  Intervals = 1
INVARIANTS DatabaseSound NamesDistinct CreatedExists
PROPERTIES MappingSettlesMembers SharedAccountKept DisableOnlyUnmapped
CONSTRAINT MCBudget
CHECK_DEADLOCK FALSE
