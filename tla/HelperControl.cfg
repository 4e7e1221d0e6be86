SPECIFICATION Spec
CONSTANTS
  Newest = 2
  Faults = 2
INVARIANT ControlInvariant
PROPERTIES
  FilesOnlyWhenQuiet
  FailedUpgradeRestores
  AbortedStopRestarts
  UpgradeServes
