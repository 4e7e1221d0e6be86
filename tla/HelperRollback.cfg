SPECIFICATION Spec
CONSTANTS
  Newest = 2
  Faults = 1
PROPERTY AbortedRollbackRestarts
