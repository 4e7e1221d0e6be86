SPECIFICATION SourceFairSpec
CONSTANTS
  s1 = s1 a = a b = b top = top dev = dev ana = ana bob = bob team = team corp = corp
  None = None
  Sources = {s1}
  Subjects <- MCSubjects
  Units <- MCUnits
  UnitOrder <- MCUnitOrder
  PersonOrder <- MCPersonOrder
  UserName <- MCUserName
  ShortName <- MCShortName
  PathName <- MCPathName
  ParentOf <- MCParentOf
  Names <- MCNames
  ReservedUsers = {}
  ReservedGroups = {}
  Starts <- MCStarts
  Directories <- MCDirectories
  Policies <- MCPolicies
  Platforms <- MCPlatforms
  PageSize = 1
  Ids = {1, 2, 3}
  Changes = 1
  Orders = 0
  Restarts = 1
  Faults = 0
  Intervals = None
PROPERTIES ReadExactly StayersStayMapped LeaversUnmapped RunsFinish DepartedLosesLogin
