SPECIFICATION Spec
CONSTANTS
  TTL = 1
  None = None
  Suites <- MCSuites
  Record <- MCRecord
  Mirrors = 2
  MaxSuites = 2
  MaxTime = 1
  MaxFaults = 1
  Web = 2
  CasePaths <- MCCasePaths
  Wanted <- MCWanted
INVARIANT FailedSwapRestores
CHECK_DEADLOCK FALSE
